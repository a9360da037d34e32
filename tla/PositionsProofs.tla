--------------------------- MODULE PositionsProofs ---------------------------
(***************************************************************************)
(* Proofs about the pages of the stability deposit and of the stake, for   *)
(* any balance and any bound on the gains.                                 *)
(***************************************************************************)
EXTENDS MCPositions, TLAPS

------------------------------------------------------------------------------
(* The stability deposit: the inductive invariant.                         *)

\* Types.
Deposit == [initialHCHF : Nat, currentHCHF : Nat, collateralGain : Nat, hlqtReward : {0, 1}]
Pool == [deposit : Deposit, hchfBalance : Nat]
View == {"NONE", "DEPOSITING", "ACTIVE", "ADJUSTING"}
TxType == {"idle", "failed", "confirmedOneShot"} \cup waiting
Manager == [mounted : {TRUE}, subscribed : BOOLEAN, originalDeposit : Deposit, editedHCHF : Nat,
            changePending : BOOLEAN, hchfBalance : Nat]
\* A form, mounted or not.
AnyManager == Manager \cup {NoManager}
Change == [kind : {"none", "deposit", "withdraw", "withdrawAll"}, amount : Nat]
Flight == [change : Change, fate : {"none", "sent", "executed", "reverted"}, signed : BOOLEAN]
Ui == [view : View, queued : View, ref : View, empty : BOOLEAN, seenEmpty : BOOLEAN,
       tx : TxType, next : TxType, seenTx : TxType \cup {"unseen"}, due : BOOLEAN,
       manager : AnyManager, shown : AnyManager]

StabilityTypes ==
    /\ pool \in Pool /\ stored \in Pool
    /\ ui \in Ui
    /\ flight \in Flight
    /\ wanted \in Change
    /\ done \in {"no", "retyped", "executed", "known"}
    /\ excused \in BOOLEAN

\* When the effects have run.
Quiet(u) ==
    /\ ~u.due /\ u.seenTx = u.tx /\ u.seenEmpty = u.empty /\ u.ref = u.view
    /\ u.manager.mounted => u.manager.subscribed

\* The form is there when the view has one.
Mounts(u) == (u.manager.mounted <=> Edits(u.view)) /\ (u.shown.mounted <=> Edits(u.view))

\* What the commits and their effects keep in step.
UiInv(u) ==
    /\ Mounts(u)
    /\ u.due => u.queued = u.view
    /\ ~u.due => Quiet(u)
    /\ u.next = "confirmedOneShot" => u.tx = "waitingForConfirmation" \/ (u.tx = "confirmedOneShot" /\ u.due)
    /\ u.tx = "confirmedOneShot" /\ u.due => u.seenTx # u.tx /\ u.next = "confirmedOneShot"
    /\ ~u.due /\ Edits(u.view) /\ u.queued = "ACTIVE" => u.tx # "waitingForConfirmation"
    /\ u.due /\ u.view = "ACTIVE" /\ u.tx = "confirmedOneShot" => ~Edits(u.ref)
    /\ u.queued = "DEPOSITING" => u.view \in {"NONE", "DEPOSITING"}
    /\ u.due /\ u.view = "DEPOSITING" => u.ref \in {"NONE", "DEPOSITING"}

\* A transaction in flight has not failed, and is waited for.
FlightInv ==
    /\ flight.fate = "none" <=> flight = NoFlight
    /\ ui.next \in waiting => flight # NoFlight
    /\ flight # NoFlight => ui.next \notin {"failed", "confirmedOneShot"} /\ ui.tx # "failed"

\* The deposit `new` is what liquidations leave of `old`.
LiquidatedFrom(new, old) ==
    /\ new.initialHCHF = old.initialHCHF
    /\ new.currentHCHF <= old.currentHCHF
    /\ new.collateralGain >= old.collateralGain
    /\ new.hlqtReward >= old.hlqtReward

Definite == wanted # NoChange
\* A change is pending, or will be when the effects run.
PendingSoon(u) == u.manager.changePending \/ (u.due /\ u.tx \in waiting)

\* The form offers, of the deposit that it knows, what is wanted.
Matches(d, edited) ==
    \/ whatChanged(d, edited) = wanted
    \/ /\ wanted.kind \in {"withdraw", "withdrawAll"}
       /\ edited = 0
       /\ wanted.kind = "withdraw" => d.currentHCHF <= wanted.amount
       /\ pool.deposit.currentHCHF <= d.currentHCHF

WantedInv ==
    /\ ~Edits(ui.view) /\ Edits(ui.queued) => ~Definite
    /\ ui.manager.mounted /\ Definite =>
         /\ ui.manager.subscribed
         /\ Matches(ui.manager.originalDeposit, ui.manager.editedHCHF)
         /\ flight # NoFlight \/ PendingSoon(ui) =>
              LiquidatedFrom(pool.deposit, ui.manager.originalDeposit)

\* The form offers a change: any, or a deposit.
Offers(m) == m.mounted /\ m.editedHCHF # m.originalDeposit.currentHCHF
OffersDeposit(m) == m.mounted /\ m.editedHCHF > m.originalDeposit.currentHCHF
Leftover == Offers(ui.manager)
\* What the form offers is what is in flight, or what was offered before.
OnItsWay == flight # NoFlight /\ done # "retyped"
\* The form will tell the deposit that it knows from the one of the contracts.
WillRevert ==
    /\ ui.manager.originalDeposit = stored.deposit
    /\ ui.manager.originalDeposit.initialHCHF # pool.deposit.initialHCHF
JustConfirmed == done = "known" /\ ui.next = "confirmedOneShot"

\* A change that was executed and is still in the form is on its way out of it.
OnceInv ==
    /\ done = "executed" => flight.fate = "executed"
    /\ done = "known" => flight = NoFlight \/ flight.fate = "executed"
    /\ Leftover => ui.manager.subscribed
    /\ Leftover /\ OnItsWay => ui.manager.changePending
    /\ OffersDeposit(ui.manager) => OffersDeposit(ui.shown)
    /\ OffersDeposit(ui.manager) /\ OnItsWay => flight.change.kind = "deposit" /\ flight.change.amount > 0
    /\ Leftover /\ ui.tx = "waitingForConfirmation" /\ (OnItsWay \/ JustConfirmed) =>
         (isEmpty(stored.deposit) /\ ~ui.empty => ui.manager.originalDeposit = stored.deposit)
    /\ Leftover /\ (done = "executed" \/ JustConfirmed) =>
         (ui.manager.originalDeposit.initialHCHF = 0 => pool.deposit.initialHCHF # 0)
    /\ Leftover /\ done = "known" => flight = NoFlight
    /\ Leftover /\ JustConfirmed => ui.manager.changePending
    /\ Leftover /\ done = "known" /\ Edits(ui.queued) =>
         /\ ui.next # "failed" /\ ui.tx # "failed"
         /\ ui.manager.changePending
         /\ ui.next = "confirmedOneShot" \/ WillRevert
    /\ Leftover /\ done = "known" /\ ui.due /\ ui.tx = "confirmedOneShot" /\ ui.empty /\ ~ui.seenEmpty =>
         WillRevert

DepositInv ==
    /\ \A d \in {pool.deposit, stored.deposit} : d.currentHCHF <= d.initialHCHF
    /\ ui.manager.mounted => ui.manager.originalDeposit.currentHCHF <= ui.manager.originalDeposit.initialHCHF

ViewInv == ~excused /\ ui.seenEmpty => ui.queued \in {"NONE", "DEPOSITING"}

StabilityInv == StabilityTypes /\ UiInv(ui) /\ FlightInv /\ WantedInv /\ OnceInv /\ DepositInv /\ ViewInv

------------------------------------------------------------------------------
(* The form.                                                               *)

LEMMA ManagerFields ==
    ASSUME NEW m \in AnyManager
    PROVE  /\ m.mounted \in BOOLEAN
           /\ m.mounted => /\ m \in Manager /\ m.originalDeposit \in Deposit
                           /\ m.editedHCHF \in Nat /\ m.changePending \in BOOLEAN
                           /\ m.hchfBalance \in Nat
           /\ ~m.mounted => m = NoManager
<1>1. CASE m \in Manager
  BY <1>1 DEF Manager
<1>2. CASE m = NoManager
  BY <1>2 DEF NoManager
<1> QED
  BY <1>1, <1>2 DEF AnyManager

\* The same form, but for its subscription and the change that is pending.
SameForm(n, m) ==
    /\ n.mounted = m.mounted
    /\ m.mounted => /\ n.originalDeposit = m.originalDeposit
                    /\ n.editedHCHF = m.editedHCHF

\* startChange(), finishChange(), and the subscription.
LEMMA ChangeFields ==
    ASSUME NEW m \in Manager, NEW b \in BOOLEAN
    PROVE  LET n == [m EXCEPT !.changePending = b]
           IN  n \in Manager /\ SameForm(n, m) /\ n.changePending = b /\ n.subscribed = m.subscribed
BY DEF Manager, SameForm

LEMMA SubscribedFields ==
    ASSUME NEW m \in Manager
    PROVE  LET n == [m EXCEPT !.subscribed = TRUE]
           IN  n \in Manager /\ SameForm(n, m) /\ n.changePending = m.changePending /\ n.subscribed
BY DEF Manager, SameForm

LEMMA InitFields ==
    ASSUME NEW s \in Pool
    PROVE  /\ init(s) \in Manager
           /\ init(s).mounted
           /\ init(s).originalDeposit = s.deposit
           /\ init(s).editedHCHF = s.deposit.currentHCHF
           /\ init(s).changePending = FALSE
BY DEF init, Manager, Deposit, Pool

LEMMA SameOffers ==
    ASSUME NEW n, NEW m, SameForm(n, m)
    PROVE  (Offers(n) <=> Offers(m)) /\ (OffersDeposit(n) <=> OffersDeposit(m))
BY DEF SameForm, Offers, OffersDeposit

------------------------------------------------------------------------------
(* The effects of a commit.                                                *)

LEMMA Transitions ==
    /\ \A v \in View : \A e : transition(v, e) \in View
    /\ \A v \in View : ~Edits(transition(v, "DEPOSIT_CONFIRMED"))
    /\ \A v \in View : ~Edits(transition(v, "CANCEL_PRESSED"))
    /\ \A v \in View : transition(v, "DEPOSIT_EMPTIED") \in {"NONE", "DEPOSITING"}
    /\ transition("ADJUSTING", "DEPOSIT_EMPTIED") = "NONE"
    /\ transition("NONE", "DEPOSIT_CONFIRMED") = "NONE"
    /\ transition("DEPOSITING", "CANCEL_PRESSED") = "NONE"
    /\ transition("NONE", "DEPOSIT_PRESSED") = "DEPOSITING"
    /\ DOMAIN transitions["NONE"] = {"DEPOSIT_PRESSED"}
    /\ DOMAIN transitions["DEPOSITING"] = {"CANCEL_PRESSED", "DEPOSIT_CONFIRMED"}
    /\ DOMAIN transitions["ACTIVE"] = {"REWARDS_CLAIMED", "ADJUST_DEPOSIT_PRESSED", "DEPOSIT_EMPTIED"}
    /\ DOMAIN transitions["ADJUSTING"] = {"CANCEL_PRESSED", "DEPOSIT_CONFIRMED", "DEPOSIT_EMPTIED"}
BY DEF transition, transitions, View, Edits

LEMMA MoreTransitions ==
    /\ transition("NONE", "DEPOSIT_EMPTIED") = "NONE"
    /\ transition("ACTIVE", "DEPOSIT_EMPTIED") = "NONE"
    /\ transition("DEPOSITING", "DEPOSIT_EMPTIED") = "DEPOSITING"
    /\ transition("NONE", "CANCEL_PRESSED") = "NONE"
    /\ \A v \in View : transition(v, "REWARDS_CLAIMED") = v
    /\ \A v \in View : transition(v, "DEPOSIT_CONFIRMED") # "DEPOSITING"
    /\ \A v \in View : v # "DEPOSITING" => transition(v, "ADJUST_DEPOSIT_PRESSED") # "DEPOSITING"
    /\ \A v \in View : transition(v, "CANCEL_PRESSED") # "DEPOSITING"
BY DEF transition, transitions, View

\* What the effects make of the queue and of the pending change.
ChildQueued(u) ==
    IF u.tx # u.seenTx /\ Edits(u.view) /\ u.tx = "confirmedOneShot" THEN transition(u.ref, "DEPOSIT_CONFIRMED")
    ELSE IF u.tx # u.seenTx /\ u.view = "ACTIVE" /\ u.tx = "confirmedOneShot" THEN transition(u.ref, "REWARDS_CLAIMED")
    ELSE u.queued
QueuedAfter(u) ==
    IF u.empty # u.seenEmpty /\ u.empty THEN transition(u.view, "DEPOSIT_EMPTIED") ELSE ChildQueued(u)
PendingAfter(u) ==
    IF u.tx # u.seenTx /\ u.tx \in waiting THEN TRUE
    ELSE IF u.tx # u.seenTx /\ u.tx = "failed" THEN FALSE
    ELSE u.manager.changePending
ManagerAfter(u) ==
    IF u.tx = u.seenTx \/ ~Edits(u.view) THEN u.manager
    ELSE IF u.tx \in waiting THEN startChange(u.manager)
    ELSE IF u.tx = "failed" THEN finishChange(u.manager)
    ELSE u.manager

LEMMA ManagerAfterIs ==
    ASSUME NEW u \in Ui, Mounts(u)
    PROVE  LET m == ManagerAfter(u)
           IN  /\ m \in AnyManager /\ SameForm(m, u.manager)
               /\ u.manager.mounted => m.changePending = PendingAfter(u) /\ m.subscribed = u.manager.subscribed
<1>0. u.manager \in AnyManager
  BY DEF Ui
<1>1. CASE ~Edits(u.view)
  BY <1>0, <1>1, ManagerFields DEF ManagerAfter, SameForm, Mounts
<1>2. CASE Edits(u.view)
  <2>1. u.manager \in Manager
    BY <1>0, <1>2, ManagerFields DEF Mounts
  <2>2. CASE u.tx = u.seenTx
    BY <2>1, <2>2, <1>2 DEF ManagerAfter, PendingAfter, SameForm, AnyManager
  <2>3. CASE u.tx # u.seenTx /\ u.tx \in waiting
    <3>1. ManagerAfter(u) = [u.manager EXCEPT !.changePending = TRUE]
      BY <1>2, <2>3 DEF ManagerAfter, startChange
    <3> QED
      BY <2>1, <2>3, <3>1, ChangeFields DEF PendingAfter, AnyManager
  <2>4. CASE u.tx # u.seenTx /\ u.tx \notin waiting /\ u.tx = "failed"
    <3>1. ManagerAfter(u) = [u.manager EXCEPT !.changePending = FALSE]
      BY <1>2, <2>4 DEF ManagerAfter, finishChange
    <3> QED
      BY <2>1, <2>4, <3>1, ChangeFields DEF PendingAfter, AnyManager
  <2>5. CASE u.tx # u.seenTx /\ u.tx \notin waiting /\ u.tx # "failed"
    BY <2>1, <2>5, <1>2 DEF ManagerAfter, PendingAfter, SameForm, AnyManager
  <2> QED
    BY <2>2, <2>3, <2>4, <2>5
<1> QED
  BY <1>1, <1>2

LEMMA ChildEffectIs ==
    ASSUME NEW u \in Ui
    PROVE  ChildEffect(u) = [u EXCEPT !.manager = ManagerAfter(u), !.queued = ChildQueued(u)]
<1> DEFINE w(m, q) == [u EXCEPT !.manager = m, !.queued = q]
<1>1. u = w(u.manager, u.queued)
  BY DEF Ui
<1>2. \A m : [u EXCEPT !.manager = m] = w(m, u.queued)
  BY DEF Ui
<1>3. \A q : [u EXCEPT !.queued = q] = w(u.manager, q)
  BY DEF Ui
<1> SUFFICES ChildEffect(u) = w(ManagerAfter(u), ChildQueued(u))
  OBVIOUS
<1> HIDE DEF w
<1>4. waiting = {"waitingForApproval", "waitingForConfirmation"}
  BY DEF waiting
<1>5. CASE u.tx = u.seenTx
  <2>1. ChildEffect(u) = u
    BY <1>5 DEF ChildEffect
  <2>2. ManagerAfter(u) = u.manager /\ ChildQueued(u) = u.queued
    BY <1>5 DEF ManagerAfter, ChildQueued
  <2> QED
    BY <2>1, <2>2, <1>1
<1>6. CASE u.tx # u.seenTx /\ Edits(u.view) /\ u.tx \in waiting
  <2>1. ChildEffect(u) = [u EXCEPT !.manager = startChange(u.manager)]
    BY <1>6 DEF ChildEffect
  <2>2. ManagerAfter(u) = startChange(u.manager) /\ ChildQueued(u) = u.queued
    BY <1>6, <1>4 DEF ManagerAfter, ChildQueued, Edits
  <2> QED
    BY <2>1, <2>2, <1>2
<1>7. CASE u.tx # u.seenTx /\ Edits(u.view) /\ u.tx = "failed"
  <2>1. ChildEffect(u) = [u EXCEPT !.manager = finishChange(u.manager)]
    BY <1>7, <1>4 DEF ChildEffect
  <2>2. ManagerAfter(u) = finishChange(u.manager) /\ ChildQueued(u) = u.queued
    BY <1>7, <1>4 DEF ManagerAfter, ChildQueued
  <2> QED
    BY <2>1, <2>2, <1>2
<1>8. CASE u.tx # u.seenTx /\ Edits(u.view) /\ u.tx = "confirmedOneShot"
  <2>1. ChildEffect(u) = [u EXCEPT !.queued = transition(u.ref, "DEPOSIT_CONFIRMED")]
    BY <1>8, <1>4 DEF ChildEffect, dispatchEvent
  <2>2. ManagerAfter(u) = u.manager /\ ChildQueued(u) = transition(u.ref, "DEPOSIT_CONFIRMED")
    BY <1>8, <1>4 DEF ManagerAfter, ChildQueued
  <2> QED
    BY <2>1, <2>2, <1>3
<1>9. CASE u.tx # u.seenTx /\ ~Edits(u.view) /\ u.view = "ACTIVE" /\ u.tx = "confirmedOneShot"
  <2>1. ChildEffect(u) = [u EXCEPT !.queued = transition(u.ref, "REWARDS_CLAIMED")]
    BY <1>9 DEF ChildEffect, dispatchEvent
  <2>2. ManagerAfter(u) = u.manager /\ ChildQueued(u) = transition(u.ref, "REWARDS_CLAIMED")
    BY <1>9 DEF ManagerAfter, ChildQueued
  <2> QED
    BY <2>1, <2>2, <1>3
<1>10. CASE /\ u.tx # u.seenTx
            /\ ~(Edits(u.view) /\ u.tx \in waiting) /\ ~(Edits(u.view) /\ u.tx = "failed")
            /\ ~(Edits(u.view) /\ u.tx = "confirmedOneShot")
            /\ ~(u.view = "ACTIVE" /\ u.tx = "confirmedOneShot")
  <2>1. ChildEffect(u) = u
    BY <1>10 DEF ChildEffect
  <2>2. ManagerAfter(u) = u.manager /\ ChildQueued(u) = u.queued
    BY <1>10 DEF ManagerAfter, ChildQueued
  <2> QED
    BY <2>1, <2>2, <1>1
<1>11. \/ u.tx = u.seenTx
       \/ u.tx # u.seenTx /\ Edits(u.view) /\ u.tx \in waiting
       \/ u.tx # u.seenTx /\ Edits(u.view) /\ u.tx = "failed"
       \/ u.tx # u.seenTx /\ Edits(u.view) /\ u.tx = "confirmedOneShot"
       \/ u.tx # u.seenTx /\ ~Edits(u.view) /\ u.view = "ACTIVE" /\ u.tx = "confirmedOneShot"
       \/ /\ u.tx # u.seenTx
          /\ ~(Edits(u.view) /\ u.tx \in waiting) /\ ~(Edits(u.view) /\ u.tx = "failed")
          /\ ~(Edits(u.view) /\ u.tx = "confirmedOneShot")
          /\ ~(u.view = "ACTIVE" /\ u.tx = "confirmedOneShot")
  BY Zenon
<1> QED
  BY <1>5, <1>6, <1>7, <1>8, <1>9, <1>10, <1>11

\* Subscribing leaves everything else.
Subscribed(s, u) ==
    /\ s \in Ui /\ Mounts(s)
    /\ s.view = u.view /\ s.queued = u.queued /\ s.ref = u.ref /\ s.empty = u.empty /\ s.seenEmpty = u.seenEmpty
    /\ s.tx = u.tx /\ s.next = u.next /\ s.seenTx = u.seenTx /\ s.due = u.due
    /\ SameForm(s.manager, u.manager) /\ SameForm(s.shown, u.shown)
    /\ u.manager.mounted => s.manager.subscribed /\ s.manager.changePending = u.manager.changePending

LEMMA SubscribeIs ==
    ASSUME NEW u \in Ui, Mounts(u)
    PROVE  Subscribed(Subscribe(u), u)
<1>1. u.manager \in AnyManager /\ u.shown \in AnyManager
  BY DEF Ui
<1>2. CASE ~u.manager.mounted
  BY <1>2 DEF Subscribe, Subscribed, SameForm
<1>3. CASE u.manager.mounted
  <2> DEFINE m == [u.manager EXCEPT !.subscribed = TRUE]
             d == [u.shown EXCEPT !.subscribed = TRUE]
             s == [u EXCEPT !.manager = m, !.shown = d]
  <2>1. u.manager \in Manager /\ u.shown \in Manager
    BY <1>1, <1>3, ManagerFields DEF Mounts
  <2>2. /\ m \in Manager /\ SameForm(m, u.manager) /\ m.changePending = u.manager.changePending /\ m.subscribed
        /\ d \in Manager /\ SameForm(d, u.shown)
    BY <2>1, SubscribedFields
  <2>3. Subscribe(u) = s
    BY <1>3 DEF Subscribe
  <2> HIDE DEF m, d
  <2>4. /\ s \in Ui
        /\ s.view = u.view /\ s.queued = u.queued /\ s.ref = u.ref /\ s.empty = u.empty /\ s.seenEmpty = u.seenEmpty
        /\ s.tx = u.tx /\ s.next = u.next /\ s.seenTx = u.seenTx /\ s.due = u.due
        /\ s.manager = m /\ s.shown = d
    BY <2>2 DEF Ui, AnyManager
  <2> HIDE DEF s
  <2>5. Mounts(s)
    BY <2>2, <2>4 DEF Mounts, SameForm
  <2> QED
    BY <2>2, <2>3, <2>4, <2>5 DEF Subscribed
<1> QED
  BY <1>2, <1>3

LEMMA SameFormTwice ==
    ASSUME NEW a, NEW b, NEW c, SameForm(a, b), SameForm(b, c)
    PROVE  SameForm(a, c)
BY DEF SameForm

\* What effects that are due leave behind.
Done(e, u) ==
    /\ e \in Ui
    /\ e.view = u.view /\ e.ref = u.view /\ e.queued = QueuedAfter(u)
    /\ e.empty = u.empty /\ e.seenEmpty = u.empty
    /\ e.tx = u.tx /\ e.seenTx = u.tx /\ e.due = FALSE
    /\ e.next = (IF u.tx = "confirmedOneShot" THEN "idle" ELSE u.next)
    /\ SameForm(e.manager, u.manager) /\ SameForm(e.shown, u.shown)
    /\ u.manager.mounted => e.manager.subscribed /\ e.manager.changePending = PendingAfter(u)

LEMMA EffectsFields ==
    ASSUME NEW u \in Ui, Mounts(u), u.due
    PROVE  Done(Effects(u), u)
<1> DEFINE s == Subscribe(u)
           m == ManagerAfter(s)
           c == [s EXCEPT !.manager = m, !.queued = ChildQueued(s)]
           r == [c EXCEPT !.ref = u.view]
           q == [r EXCEPT !.queued = QueuedAfter(u)]
<1>0. /\ s \in Ui /\ Mounts(s)
      /\ s.view = u.view /\ s.queued = u.queued /\ s.ref = u.ref /\ s.empty = u.empty /\ s.seenEmpty = u.seenEmpty
      /\ s.tx = u.tx /\ s.next = u.next /\ s.seenTx = u.seenTx /\ s.due = u.due
      /\ SameForm(s.manager, u.manager) /\ SameForm(s.shown, u.shown)
      /\ u.manager.mounted => s.manager.subscribed /\ s.manager.changePending = u.manager.changePending
  <2>1. Subscribed(s, u)
    BY SubscribeIs
  <2> HIDE DEF s
  <2> QED
    BY <2>1 DEF Subscribed
<1> HIDE DEF s
<1>1. ChildQueued(s) = ChildQueued(u) /\ ChildQueued(u) \in View /\ QueuedAfter(u) \in View
  BY <1>0, Transitions DEF ChildQueued, QueuedAfter, Ui
<1>2. /\ m \in AnyManager /\ SameForm(m, s.manager)
      /\ s.manager.mounted => m.changePending = PendingAfter(s) /\ m.subscribed = s.manager.subscribed
  BY <1>0, ManagerAfterIs
<1> HIDE DEF m
<1>3. /\ c \in Ui /\ c.view = u.view /\ c.queued = ChildQueued(u) /\ c.ref = u.ref
      /\ c.empty = u.empty /\ c.seenEmpty = u.seenEmpty /\ c.tx = u.tx /\ c.next = u.next
      /\ c.manager = m /\ c.shown = s.shown
  BY <1>0, <1>1, <1>2 DEF Ui
<1>4. ChildEffect(s) = c
  BY <1>0, ChildEffectIs DEF m
<1> HIDE DEF c
<1>5. /\ r \in Ui /\ r.view = u.view /\ r.queued = ChildQueued(u) /\ r.ref = u.view
      /\ r.empty = u.empty /\ r.seenEmpty = u.seenEmpty /\ r.tx = u.tx /\ r.next = u.next
      /\ r.manager = m /\ r.shown = s.shown
  BY <1>3 DEF Ui
<1>6. [ChildEffect(s) EXCEPT !.ref = u.view] = r
  BY <1>4
<1>7. r.queued = QueuedAfter(u) => q = r
  BY <1>5 DEF Ui
<1>8. EmptyEffect(r) = q
  <2>1. CASE u.empty # u.seenEmpty /\ u.empty
    <3>1. EmptyEffect(r) = dispatchEvent(r, "DEPOSIT_EMPTIED")
      BY <2>1, <1>5 DEF EmptyEffect
    <3>2. QueuedAfter(u) = transition(r.ref, "DEPOSIT_EMPTIED")
      BY <2>1, <1>5 DEF QueuedAfter
    <3> QED
      BY <3>1, <3>2 DEF dispatchEvent
  <2>2. CASE ~(u.empty # u.seenEmpty /\ u.empty)
    BY <2>2, <1>5, <1>7 DEF EmptyEffect, QueuedAfter
  <2> QED
    BY <2>1, <2>2
<1> HIDE DEF r
<1>9. /\ q \in Ui /\ q.view = u.view /\ q.queued = QueuedAfter(u) /\ q.ref = u.view
      /\ q.empty = u.empty /\ q.tx = u.tx /\ q.next = u.next
      /\ q.manager = m /\ q.shown = s.shown
  BY <1>1, <1>5 DEF Ui
<1>10. Effects(u) = Ran(q)
  BY <1>6, <1>8 DEF Effects, s
<1> HIDE DEF q
<1> DEFINE n == IF u.tx = "confirmedOneShot" THEN "idle" ELSE u.next
<1>11. n \in TxType /\ u.tx \in TxType \cup {"unseen"}
  BY DEF TxType, Ui
<1>12. Ran(q) = [q EXCEPT !.seenTx = u.tx, !.seenEmpty = u.empty, !.due = FALSE, !.next = n]
  BY <1>9 DEF Ran
<1> DEFINE e == [q EXCEPT !.seenTx = u.tx, !.seenEmpty = u.empty, !.due = FALSE, !.next = n]
<1> HIDE DEF n
<1>13. /\ e \in Ui /\ e.view = u.view /\ e.ref = u.view /\ e.queued = QueuedAfter(u)
       /\ e.empty = u.empty /\ e.seenEmpty = u.empty
       /\ e.tx = u.tx /\ e.seenTx = u.tx /\ e.due = FALSE
       /\ e.next = n /\ e.manager = m /\ e.shown = s.shown
  BY <1>9, <1>11 DEF Ui
<1> HIDE DEF e
<1>14. SameForm(m, u.manager)
  BY <1>0, <1>2, SameFormTwice
<1>15. u.manager.mounted => m.subscribed /\ m.changePending = PendingAfter(u)
  BY <1>0, <1>2 DEF SameForm, PendingAfter
<1>16. Effects(u) = e
  BY <1>10, <1>12 DEF e
<1>17. e.next = (IF u.tx = "confirmedOneShot" THEN "idle" ELSE u.next)
  BY <1>13 DEF n
<1> QED
  BY <1>0, <1>13, <1>14, <1>15, <1>16, <1>17 DEF Done

\* What holds when effects that may be due have run; of `next`, separately.
EndedButNext(e, u) ==
    /\ e \in Ui /\ Mounts(e) /\ Quiet(e)
    /\ e.view = u.view /\ e.tx = u.tx /\ e.empty = u.empty
    /\ e.queued = (IF u.due THEN QueuedAfter(u) ELSE u.queued)
    /\ SameForm(e.manager, u.manager) /\ SameForm(e.shown, u.shown)
    /\ u.manager.mounted =>
         e.manager.changePending = (IF u.due THEN PendingAfter(u) ELSE u.manager.changePending)
Ended(e, u) ==
    /\ EndedButNext(e, u)
    /\ e.next = (IF u.due /\ u.tx = "confirmedOneShot" THEN "idle" ELSE u.next)

LEMMA Settle ==
    ASSUME NEW u \in Ui, Mounts(u), ~u.due => Quiet(u)
    PROVE  Ended(Effects(u), u)
<1>1. CASE ~u.due
  <2>1. Effects(u) = u
    BY <1>1 DEF Effects
  <2> QED
    BY <1>1, <2>1 DEF Ended, EndedButNext, SameForm
<1>2. CASE u.due
  <2> DEFINE e == Effects(u)
  <2>1. Done(e, u)
    BY <1>2, EffectsFields
  <2> HIDE DEF e
  <2>2. Quiet(e) /\ Mounts(e)
    BY <2>1 DEF Done, Quiet, Mounts, SameForm
  <2> QED
    BY <1>2, <2>1, <2>2 DEF Done, Ended, EndedButNext, e
<1> QED
  BY <1>1, <1>2

\* The form that a commit mounts, keeps or takes off.
ManagerIn(u, v) ==
    IF ~Edits(v) THEN NoManager ELSE IF Edits(u.view) THEN u.manager ELSE init(stored)

\* What a commit makes of u.
Committed(c, u, v, t) ==
    /\ c \in Ui /\ Mounts(c) /\ c.view = v /\ c.queued = u.queued /\ c.ref = u.ref
    /\ c.empty = u.empty /\ c.seenEmpty = u.seenEmpty /\ c.tx = t /\ c.next = u.next
    /\ c.seenTx = (IF v # u.view /\ ~(Edits(v) /\ Edits(u.view)) THEN "unseen" ELSE u.seenTx)
    /\ c.due = TRUE /\ c.manager = ManagerIn(u, v) /\ SameForm(c.shown, c.manager)

LEMMA CommitFields ==
    ASSUME stored \in Pool, NEW u \in Ui, Mounts(u), NEW v \in View, NEW t \in TxType
    PROVE  Committed(Commit(u, v, t), u, v, t)
<1> DEFINE m == ManagerIn(u, v)
           s == IF v # u.view /\ ~(Edits(v) /\ Edits(u.view)) THEN "unseen" ELSE u.seenTx
           c == [u EXCEPT !.view = v, !.manager = m, !.shown = m, !.tx = t, !.due = TRUE, !.seenTx = s]
<1>1. Commit(u, v, t) = c
  BY DEF Commit, ManagerIn
<1>2. u.manager \in AnyManager
  BY DEF Ui
<1>3. m \in AnyManager /\ (m.mounted <=> Edits(v))
  <2>1. CASE ~Edits(v)
    BY <2>1 DEF ManagerIn, NoManager, AnyManager
  <2>2. CASE Edits(v) /\ Edits(u.view)
    BY <2>2, <1>2 DEF ManagerIn, Mounts
  <2>3. CASE Edits(v) /\ ~Edits(u.view)
    BY <2>3, <1>2, InitFields DEF ManagerIn, AnyManager
  <2> QED
    BY <2>1, <2>2, <2>3
<1>4. s \in TxType \cup {"unseen"}
  BY DEF Ui
<1> HIDE DEF m, s
<1>5. /\ c \in Ui /\ c.view = v /\ c.queued = u.queued /\ c.ref = u.ref
      /\ c.empty = u.empty /\ c.seenEmpty = u.seenEmpty /\ c.tx = t /\ c.next = u.next
      /\ c.seenTx = s /\ c.due = TRUE /\ c.manager = m /\ c.shown = m
  BY <1>3, <1>4 DEF Ui
<1> HIDE DEF c
<1>6. SameForm(c.shown, c.manager) /\ Mounts(c)
  BY <1>3, <1>5 DEF SameForm, Mounts
<1> QED
  BY <1>1, <1>5, <1>6 DEF Committed, m, s

\* A click's commit shows an older balance.
LEMMA CommitClickFields ==
    ASSUME stored \in Pool, NEW u \in Ui, Mounts(u), NEW v \in View, NEW t \in TxType
    PROVE  Committed(CommitClick(u, v, t), u, v, t)
<1> DEFINE c == Commit(u, v, t)
           b == u.shown.hchfBalance
           k == [c EXCEPT !.shown.hchfBalance = b]
<1>1. Committed(c, u, v, t)
  BY CommitFields
<1>2. CASE ~(Edits(u.view) /\ Edits(v))
  BY <1>1, <1>2 DEF CommitClick
<1>3. CASE Edits(u.view) /\ Edits(v)
  <2>1. CommitClick(u, v, t) = k
    BY <1>3 DEF CommitClick
  <2> HIDE DEF c
  <2>2. u.shown \in AnyManager /\ c.shown \in AnyManager /\ c \in Ui
    BY <1>1 DEF Committed, Ui
  <2>3. b \in Nat /\ c.shown \in Manager
    BY <1>1, <1>3, <2>2, ManagerFields DEF Committed, Mounts
  <2> HIDE DEF b
  <2> DEFINE d == [c.shown EXCEPT !.hchfBalance = b]
  <2>4. d \in Manager /\ SameForm(d, c.shown)
    BY <2>3 DEF Manager, SameForm
  <2>5. k = [c EXCEPT !.shown = d]
    BY <2>2 DEF Ui
  <2> HIDE DEF d, k
  <2>6. /\ k \in Ui /\ k.view = c.view /\ k.queued = c.queued /\ k.ref = c.ref
        /\ k.empty = c.empty /\ k.seenEmpty = c.seenEmpty /\ k.tx = c.tx /\ k.next = c.next
        /\ k.seenTx = c.seenTx /\ k.due = c.due /\ k.manager = c.manager /\ k.shown = d
    BY <2>2, <2>4, <2>5 DEF Ui, AnyManager
  <2>7. SameForm(k.shown, k.manager)
    BY <1>1, <2>4, <2>6, SameFormTwice DEF Committed
  <2>8. Mounts(k)
    BY <1>1, <2>4, <2>6 DEF Committed, Mounts, SameForm
  <2> QED
    BY <1>1, <2>1, <2>6, <2>7, <2>8 DEF Committed
<1> QED
  BY <1>2, <1>3

\* A click's commit of the same view, with its effects: only a new transaction matters.
Recommitted(e, u, t) ==
    /\ e \in Ui /\ Quiet(e) /\ Mounts(e) /\ SameForm(e.manager, u.manager) /\ SameForm(e.shown, u.manager)
    /\ e.view = u.view /\ e.queued = u.queued /\ e.empty = u.empty /\ e.tx = t
    /\ e.next = (IF t = "confirmedOneShot" THEN "idle" ELSE u.next)
    /\ u.manager.mounted =>
         e.manager.changePending = (IF t # u.tx THEN TRUE ELSE u.manager.changePending)

LEMMA Recommit ==
    ASSUME stored \in Pool, NEW u \in Ui, Mounts(u), Quiet(u),
           NEW t \in {u.tx, "waitingForApproval"}
    PROVE  Recommitted(Effects(CommitClick(u, u.view, t)), u, t)
<1> DEFINE c == CommitClick(u, u.view, t)
           e == Effects(c)
<1>1. t \in TxType /\ u.view \in View /\ u.manager \in AnyManager
  BY DEF Ui, TxType, waiting
<1>2. Committed(c, u, u.view, t)
  BY <1>1, CommitClickFields
<1>3. ManagerIn(u, u.view) = u.manager
  BY <1>1, ManagerFields DEF ManagerIn, Mounts
<1> HIDE DEF c
<1>4. /\ c \in Ui /\ Mounts(c) /\ c.view = u.view /\ c.queued = u.queued
      /\ c.empty = u.empty /\ c.seenEmpty = u.empty /\ c.tx = t /\ c.next = u.next
      /\ c.seenTx = u.tx /\ c.due = TRUE /\ c.manager = u.manager /\ SameForm(c.shown, u.manager)
  BY <1>2, <1>3 DEF Committed, Quiet
<1>5. Done(e, c)
  BY <1>4, EffectsFields
<1> HIDE DEF e
<1>6. Quiet(e) /\ Mounts(e)
  BY <1>4, <1>5 DEF Done, Quiet, Mounts, SameForm
<1>7. QueuedAfter(c) = u.queued
  BY <1>4 DEF QueuedAfter, ChildQueued
<1>8. SameForm(e.manager, u.manager) /\ SameForm(e.shown, u.manager)
  BY <1>4, <1>5, SameFormTwice DEF Done
<1>9. PendingAfter(c) = (IF t # u.tx THEN TRUE ELSE u.manager.changePending)
  BY <1>4 DEF PendingAfter, waiting
<1> QED
  BY <1>4, <1>5, <1>6, <1>7, <1>8, <1>9 DEF Done, Recommitted, e, c

\* A click's commit that mounts the form or takes it off, with its effects.
Remounted(e, u, v) ==
    /\ e \in Ui /\ Quiet(e) /\ Mounts(e)
    /\ ~Offers(e.manager)
    /\ e.manager.mounted => e.manager.originalDeposit = stored.deposit
    /\ e.view = v /\ e.empty = u.empty /\ e.tx = u.tx
    /\ e.next = (IF u.tx = "confirmedOneShot" THEN "idle" ELSE u.next)
    /\ \/ e.queued = u.queued
       \/ u.tx = "confirmedOneShot" /\ Edits(v) /\ e.queued = transition(u.view, "DEPOSIT_CONFIRMED")
       \/ u.tx = "confirmedOneShot" /\ v = "ACTIVE" /\ e.queued = transition(u.view, "REWARDS_CLAIMED")

LEMMA Remount ==
    ASSUME stored \in Pool, NEW u \in Ui, Mounts(u), Quiet(u),
           NEW v \in View, ~Edits(u.view) \/ ~Edits(v)
    PROVE  Remounted(Effects(CommitClick(u, v, u.tx)), u, v)
<1> DEFINE c == CommitClick(u, v, u.tx)
           e == Effects(c)
<1>1. u.tx \in TxType
  BY DEF Ui
<1>2. Committed(c, u, v, u.tx)
  BY <1>1, CommitClickFields
<1>3. Edits(v) => ManagerIn(u, v) = init(stored)
  BY DEF ManagerIn
<1> HIDE DEF c
<1>4. /\ c \in Ui /\ Mounts(c) /\ c.view = v /\ c.queued = u.queued /\ c.ref = u.view
      /\ c.empty = u.empty /\ c.seenEmpty = u.empty /\ c.tx = u.tx /\ c.next = u.next
      /\ c.due = TRUE /\ c.manager = ManagerIn(u, v)
  BY <1>2 DEF Committed, Quiet
<1>5. Done(e, c)
  BY <1>4, EffectsFields
<1> HIDE DEF e
<1>6. Quiet(e) /\ Mounts(e)
  BY <1>4, <1>5 DEF Done, Quiet, Mounts, SameForm
<1>7. \/ QueuedAfter(c) = u.queued
      \/ u.tx = "confirmedOneShot" /\ Edits(v) /\ QueuedAfter(c) = transition(u.view, "DEPOSIT_CONFIRMED")
      \/ u.tx = "confirmedOneShot" /\ v = "ACTIVE" /\ QueuedAfter(c) = transition(u.view, "REWARDS_CLAIMED")
  BY <1>4 DEF QueuedAfter, ChildQueued
<1>8. /\ c.manager.mounted => c.manager.originalDeposit = stored.deposit
      /\ ~Offers(c.manager)
  BY <1>3, <1>4, InitFields DEF Mounts, Offers
<1>9. /\ e.manager.mounted => e.manager.originalDeposit = stored.deposit
      /\ ~Offers(e.manager)
  BY <1>5, <1>8, SameOffers DEF Done, SameForm
<1> QED
  BY <1>4, <1>5, <1>6, <1>7, <1>9 DEF Done, Remounted, e, c

------------------------------------------------------------------------------
(* The changes of a deposit.                                               *)

LEMMA WhatChangedIs ==
    ASSUME NEW d \in Deposit, NEW that \in Nat
    PROVE  /\ whatChanged(d, that) \in Change
           /\ that = d.currentHCHF => whatChanged(d, that) = NoChange
           /\ that > d.currentHCHF => /\ whatChanged(d, that).kind = "deposit"
                                      /\ whatChanged(d, that).amount = that - d.currentHCHF
           /\ that < d.currentHCHF => /\ whatChanged(d, that).kind = (IF that = 0 THEN "withdrawAll" ELSE "withdraw")
                                      /\ whatChanged(d, that).amount = d.currentHCHF - that
           /\ whatChanged(d, that) = NoChange => that = d.currentHCHF
BY DEF whatChanged, Change, NoChange, Deposit

LEMMA ApplyIs ==
    ASSUME NEW d \in Deposit, NEW change \in Change
    PROVE  /\ apply(d, change) \in Nat
           /\ change.kind = "deposit" => apply(d, change) = d.currentHCHF + change.amount
           /\ change.kind # "deposit" => apply(d, change) <= d.currentHCHF
           /\ change = NoChange => apply(d, change) = d.currentHCHF
           /\ change.kind = "withdrawAll" => apply(d, change) = 0
           /\ change.kind = "withdraw" =>
                apply(d, change) = IF d.currentHCHF <= change.amount THEN 0 ELSE d.currentHCHF - change.amount
BY DEF apply, Change, NoChange, Deposit

\* The edit that apply() carries over to a new deposit offers the same change.
LEMMA Carried ==
    ASSUME NEW old \in Deposit, NEW new \in Deposit, NEW edited \in Nat
    PROVE  LET change == whatChanged(old, edited)
               carried == apply(new, change)
           IN  /\ carried \in Nat
               /\ edited = old.currentHCHF => carried = new.currentHCHF
               /\ edited # old.currentHCHF =>
                    \/ whatChanged(new, carried) = change
                    \/ /\ change.kind \in {"withdraw", "withdrawAll"}
                       /\ carried = 0
                       /\ change.kind = "withdraw" => new.currentHCHF <= change.amount
<1> DEFINE change == whatChanged(old, edited)
           carried == apply(new, change)
<1>1. old.currentHCHF \in Nat /\ new.currentHCHF \in Nat
  BY DEF Deposit
<1>2. CASE edited = old.currentHCHF
  BY <1>2, WhatChangedIs, ApplyIs
<1>3. CASE edited > old.currentHCHF
  <2>1. change.kind = "deposit" /\ change.amount = edited - old.currentHCHF /\ change \in Change
    BY <1>3, WhatChangedIs
  <2>2. carried = new.currentHCHF + (edited - old.currentHCHF) /\ carried \in Nat
    BY <2>1, ApplyIs
  <2>3. carried > new.currentHCHF /\ carried - new.currentHCHF = edited - old.currentHCHF
    BY <1>1, <1>3, <2>2
  <2>4. whatChanged(new, carried).kind = "deposit" /\ whatChanged(new, carried).amount = change.amount
        /\ whatChanged(new, carried) \in Change
    BY <2>1, <2>2, <2>3, WhatChangedIs
  <2>5. whatChanged(new, carried) = change
    BY <2>1, <2>4 DEF Change
  <2> QED
    BY <1>1, <1>3, <2>2, <2>5
<1>4. CASE edited < old.currentHCHF /\ edited = 0
  <2>1. change.kind = "withdrawAll" /\ change \in Change
    BY <1>4, WhatChangedIs
  <2>2. carried = 0
    BY <2>1, ApplyIs
  <2> QED
    BY <1>4, <2>1, <2>2
<1>5. CASE edited < old.currentHCHF /\ edited # 0
  <2>1. change.kind = "withdraw" /\ change.amount = old.currentHCHF - edited /\ change \in Change
    BY <1>5, WhatChangedIs
  <2>2. carried = (IF new.currentHCHF <= change.amount THEN 0 ELSE new.currentHCHF - change.amount)
        /\ carried \in Nat
    BY <2>1, ApplyIs
  <2> HIDE DEF carried, change
  <2>3. CASE new.currentHCHF <= change.amount
    BY <1>1, <1>5, <2>1, <2>2, <2>3 DEF carried, change
  <2>4. CASE ~(new.currentHCHF <= change.amount)
    <3>1. carried # 0 /\ carried < new.currentHCHF /\ new.currentHCHF - carried = change.amount
      BY <1>1, <1>5, <2>1, <2>2, <2>4
    <3>2. whatChanged(new, carried).kind = "withdraw" /\ whatChanged(new, carried).amount = change.amount
          /\ whatChanged(new, carried) \in Change
      BY <2>2, <3>1, WhatChangedIs
    <3>3. whatChanged(new, carried) = change
      BY <2>1, <3>2 DEF Change
    <3> QED
      BY <1>1, <1>5, <2>2, <3>3 DEF carried, change
  <2> QED
    BY <2>3, <2>4
<1> QED
  BY <1>1, <1>2, <1>3, <1>4, <1>5

\* What the store's report makes of a form.
Updated(n, m, new) ==
    /\ n \in Manager /\ n.mounted /\ n.originalDeposit = new /\ n.subscribed = m.subscribed
    /\ IF m.changePending /\ changeCommitted(m.originalDeposit, new)
       THEN n.editedHCHF = new.currentHCHF /\ ~n.changePending
       ELSE /\ n.editedHCHF = apply(new, whatChanged(m.originalDeposit, m.editedHCHF))
            /\ n.changePending = m.changePending

LEMMA UpdateStoreIs ==
    ASSUME NEW m \in Manager, NEW new \in Deposit
    PROVE  Updated(updateStore(m, new), m, new)
<1> DEFINE s == [m EXCEPT !.originalDeposit = new]
           r == [s EXCEPT !.editedHCHF = new.currentHCHF]
           f == [r EXCEPT !.changePending = FALSE]
           e == apply(new, whatChanged(m.originalDeposit, m.editedHCHF))
           a == [s EXCEPT !.editedHCHF = e]
<1>1. new.currentHCHF \in Nat /\ e \in Nat
  BY WhatChangedIs, ApplyIs DEF Manager, Deposit
<1> HIDE DEF e
<1>2. /\ s \in Manager /\ s.mounted /\ s.originalDeposit = new /\ s.changePending = m.changePending
      /\ s.subscribed = m.subscribed
  BY DEF Manager
<1>3. updateStore(m, new) = (IF m.changePending /\ changeCommitted(m.originalDeposit, new) THEN f ELSE a)
  BY <1>2 DEF updateStore, finishChange, revert, e
<1> HIDE DEF s
<1>4. r \in Manager /\ r.mounted /\ r.originalDeposit = new /\ r.editedHCHF = new.currentHCHF
      /\ r.subscribed = m.subscribed
  BY <1>1, <1>2 DEF Manager
<1>5. a \in Manager /\ a.mounted /\ a.originalDeposit = new /\ a.editedHCHF = e /\ a.changePending = m.changePending
      /\ a.subscribed = m.subscribed
  BY <1>1, <1>2 DEF Manager
<1> HIDE DEF r
<1>6. f \in Manager /\ f.mounted /\ f.originalDeposit = new /\ f.editedHCHF = new.currentHCHF /\ ~f.changePending
      /\ f.subscribed = m.subscribed
  BY <1>4 DEF Manager
<1> HIDE DEF f, a
<1> QED
  BY <1>3, <1>5, <1>6 DEF Updated, e

\* What a report makes of a form that has subscribed.
LEMMA HeardIs ==
    ASSUME NEW m \in Manager, pool \in Pool
    PROVE  /\ Heard(m) \in Manager /\ Heard(m).subscribed = m.subscribed
           /\ pool.deposit = stored.deposit => SameForm(Heard(m), m) /\ Heard(m).changePending = m.changePending
           /\ pool.deposit # stored.deposit => Updated(Heard(m), m, pool.deposit)
<1> DEFINE n == IF pool.deposit # stored.deposit THEN updateStore(m, pool.deposit) ELSE m
           b == pool.hchfBalance
           h == [n EXCEPT !.hchfBalance = b]
<1>1. pool.deposit \in Deposit /\ b \in Nat
  BY DEF Pool
<1>2. n \in Manager /\ n.subscribed = m.subscribed
  BY <1>1, UpdateStoreIs DEF Updated
<1>3. Heard(m) = h
  BY DEF Heard
<1>4. pool.deposit = stored.deposit => n = m
  OBVIOUS
<1>5. pool.deposit # stored.deposit => Updated(n, m, pool.deposit)
  BY <1>1, UpdateStoreIs
<1> HIDE DEF n, b
<1>6. /\ h \in Manager /\ h.mounted /\ h.subscribed = n.subscribed /\ h.originalDeposit = n.originalDeposit
      /\ h.editedHCHF = n.editedHCHF /\ h.changePending = n.changePending
  BY <1>1, <1>2 DEF Manager
<1> HIDE DEF h
<1>7. n.mounted
  BY <1>2 DEF Manager
<1>8. CASE pool.deposit = stored.deposit
  BY <1>2, <1>3, <1>4, <1>6, <1>8 DEF SameForm, Manager
<1>9. CASE pool.deposit # stored.deposit
  <2>1. Updated(h, m, pool.deposit)
    BY <1>5, <1>6, <1>9 DEF Updated
  <2> QED
    BY <1>2, <1>3, <1>6, <1>9, <2>1
<1> QED
  BY <1>8, <1>9

------------------------------------------------------------------------------
(* The steps.                                                              *)

LEMMA DepositFields ==
    ASSUME NEW d \in Deposit
    PROVE  /\ d.initialHCHF \in Nat /\ d.currentHCHF \in Nat
           /\ d.collateralGain \in Nat /\ d.hlqtReward \in {0, 1}
BY DEF Deposit

\* Only `next` changes.
LEMMA NextFields ==
    ASSUME NEW u \in Ui, NEW t \in TxType
    PROVE  LET e == [u EXCEPT !.next = t]
           IN  /\ e \in Ui /\ e.view = u.view /\ e.queued = u.queued /\ e.ref = u.ref
               /\ e.empty = u.empty /\ e.seenEmpty = u.seenEmpty /\ e.tx = u.tx /\ e.next = t
               /\ e.seenTx = u.seenTx /\ e.due = u.due /\ e.manager = u.manager /\ e.shown = u.shown
BY DEF Ui

\* What the invariant says of the types.
LEMMA Typed ==
    ASSUME StabilityInv
    PROVE  /\ pool \in Pool /\ stored \in Pool /\ pool.deposit \in Deposit /\ stored.deposit \in Deposit
           /\ ui \in Ui /\ ui.manager \in AnyManager /\ ui.shown \in AnyManager
           /\ ui.view \in View /\ ui.ref \in View /\ ui.queued \in View
           /\ ui.tx \in TxType /\ ui.next \in TxType
           /\ ui.empty \in BOOLEAN /\ ui.seenEmpty \in BOOLEAN
           /\ flight \in Flight /\ flight.change \in Change
           /\ wanted \in Change
           /\ ui.manager.mounted => ui.manager \in Manager /\ ui.manager.originalDeposit \in Deposit
                                    /\ ui.manager.editedHCHF \in Nat /\ ui.manager.changePending \in BOOLEAN
<1>1. ui.manager \in AnyManager
  BY DEF StabilityInv, StabilityTypes, Ui
<1> QED
  BY <1>1, ManagerFields DEF StabilityInv, StabilityTypes, Ui, Pool, Flight

LEMMA LiquidateOK ==
    ASSUME StabilityInv, OthersLiquidate
    PROVE  StabilityInv'
<1> DEFINE d == pool.deposit
           n == [d EXCEPT !.currentHCHF = @ - 1, !.collateralGain = @ + 1, !.hlqtReward = 1]
           m == ui.manager
<1>1. d \in Deposit /\ d.currentHCHF > 0 /\ stored \in Pool /\ pool \in Pool
  BY Typed DEF OthersLiquidate
<1>2. /\ n \in Deposit /\ n.initialHCHF = d.initialHCHF /\ n.currentHCHF = d.currentHCHF - 1
      /\ n.collateralGain = d.collateralGain + 1 /\ n.hlqtReward = 1
  <2>1. d.currentHCHF - 1 \in Nat /\ d.collateralGain + 1 \in Nat
    BY <1>1, DepositFields
  <2> DEFINE w(c, g) == [d EXCEPT !.currentHCHF = c, !.collateralGain = g, !.hlqtReward = 1]
  <2>2. \A c, g \in Nat : /\ w(c, g) \in Deposit /\ w(c, g).initialHCHF = d.initialHCHF /\ w(c, g).currentHCHF = c
                           /\ w(c, g).collateralGain = g /\ w(c, g).hlqtReward = 1
    BY <1>1 DEF Deposit
  <2>3. n = w(d.currentHCHF - 1, d.collateralGain + 1)
    OBVIOUS
  <2> HIDE DEF w, n
  <2> QED
    BY <2>1, <2>2, <2>3
<1>3. pool' = [pool EXCEPT !.deposit = n]
  BY DEF OthersLiquidate
<1> HIDE DEF n
<1>4. pool' \in Pool /\ pool'.deposit = n
  BY <1>1, <1>2, <1>3 DEF Pool
<1>5. UNCHANGED <<stored, ui, flight, wanted, done, excused>>
  BY DEF OthersLiquidate
<1>6. /\ d.initialHCHF \in Nat /\ d.currentHCHF \in Nat /\ d.collateralGain \in Nat /\ d.hlqtReward \in {0, 1}
  BY <1>1, DepositFields
<1>7. StabilityTypes' /\ UiInv(ui)' /\ FlightInv' /\ ViewInv'
  BY <1>4, <1>5 DEF StabilityInv, StabilityTypes, UiInv, Mounts, Quiet, FlightInv, ViewInv
<1>8. DepositInv'
  BY <1>2, <1>4, <1>5, <1>6 DEF StabilityInv, DepositInv
<1>9. \A x \in Deposit : LiquidatedFrom(d, x) => LiquidatedFrom(pool'.deposit, x)
  BY <1>2, <1>4, <1>6, DepositFields DEF LiquidatedFrom
<1>10. \A x \in Deposit : \A e : Matches(x, e) => Matches(x, e)'
  BY <1>2, <1>4, <1>5, <1>6, DepositFields DEF Matches
<1>11. m.mounted => m.originalDeposit \in Deposit
  BY Typed
<1>12. WantedInv'
  BY <1>5, <1>9, <1>10, <1>11 DEF StabilityInv, WantedInv, Definite, PendingSoon
<1>13. pool'.deposit.initialHCHF = pool.deposit.initialHCHF
  BY <1>2, <1>4
<1>14. OnceInv'
  BY <1>5, <1>13 DEF StabilityInv, OnceInv, Leftover, OnItsWay, JustConfirmed, WillRevert, Offers, OffersDeposit
<1> QED
  BY <1>7, <1>8, <1>12, <1>14 DEF StabilityInv

\* A new value of `next` alone.
LEMMA BecomesOK ==
    ASSUME StabilityInv, NEW t \in TxType, Becomes(t), t # "confirmedOneShot" \/ ui.tx = "waitingForConfirmation",
           ~(ui.tx = "confirmedOneShot" /\ ui.due)
    PROVE  /\ ui' \in Ui /\ UiInv(ui)' /\ ui'.view = ui.view /\ ui'.tx = ui.tx /\ ui'.next = t /\ ui'.due = ui.due
           /\ ui'.manager = ui.manager /\ ui'.shown = ui.shown /\ ui'.queued = ui.queued /\ ui'.empty = ui.empty
           /\ ui'.seenEmpty = ui.seenEmpty /\ ui'.seenTx = ui.seenTx
           /\ (UNCHANGED excused => ViewInv')
<1>1. ui \in Ui
  BY Typed
<1>2. /\ ui' \in Ui /\ ui'.view = ui.view /\ ui'.queued = ui.queued /\ ui'.ref = ui.ref
      /\ ui'.empty = ui.empty /\ ui'.seenEmpty = ui.seenEmpty /\ ui'.tx = ui.tx /\ ui'.next = t
      /\ ui'.seenTx = ui.seenTx /\ ui'.due = ui.due /\ ui'.manager = ui.manager /\ ui'.shown = ui.shown
  BY <1>1, NextFields DEF Becomes
<1>3. UiInv(ui)'
  BY <1>2 DEF StabilityInv, UiInv, Mounts, Quiet
<1>4. UNCHANGED excused => ViewInv'
  BY <1>2 DEF StabilityInv, ViewInv
<1> QED
  BY <1>2, <1>3, <1>4

LEMMA FlightFields ==
    /\ \A f \in Flight : \A x \in {"sent", "executed", "reverted"} :
         LET g == [f EXCEPT !.fate = x]
         IN  g \in Flight /\ g.fate = x /\ g.change = f.change /\ g # NoFlight
    /\ \A f \in Flight : f # NoFlight =>
         LET g == [f EXCEPT !.signed = TRUE]
         IN  f.fate # "none" => g \in Flight /\ g.fate = f.fate /\ g.change = f.change /\ g # NoFlight
    /\ NoFlight \in Flight /\ NoFlight.fate = "none"
BY DEF Flight, NoFlight, NoChange, Change

LEMMA RevertOK ==
    ASSUME StabilityInv, Revert
    PROVE  StabilityInv'
<1>1. flight.fate = "sent" /\ flight' = [flight EXCEPT !.fate = "reverted"]
      /\ UNCHANGED <<pool, stored, ui, wanted, done, excused>>
  BY DEF Revert
<1>2. flight' \in Flight /\ flight'.fate = "reverted" /\ flight'.change = flight.change /\ flight' # NoFlight /\ flight # NoFlight
  BY <1>1, Typed, FlightFields
<1>3. StabilityTypes' /\ UiInv(ui)' /\ ViewInv' /\ DepositInv'
  BY <1>1, <1>2 DEF StabilityInv, StabilityTypes, UiInv, Mounts, Quiet, ViewInv, DepositInv
<1>4. FlightInv'
  BY <1>1, <1>2 DEF StabilityInv, FlightInv
<1>5. WantedInv'
  BY <1>1, <1>2 DEF StabilityInv, WantedInv, Matches, Definite, PendingSoon
<1>6. OnceInv'
  <2>1. done \notin {"executed", "known"}
    BY <1>1, <1>2 DEF StabilityInv, OnceInv
  <2> QED
    BY <1>1, <1>2, <2>1 DEF StabilityInv, OnceInv, Leftover, OnItsWay, JustConfirmed, WillRevert, Offers, OffersDeposit
<1> QED
  BY <1>3, <1>4, <1>5, <1>6 DEF StabilityInv

LEMMA ExecuteOK ==
    ASSUME StabilityInv, Execute
    PROVE  StabilityInv'
<1> DEFINE d == pool.deposit
           new == apply(d, flight.change)
           b == pool.hchfBalance + d.currentHCHF - new
           x == [initialHCHF |-> new, currentHCHF |-> new, collateralGain |-> 0, hlqtReward |-> 0]
           m == ui.manager
<1>1. /\ flight.fate = "sent" /\ UNCHANGED <<stored, ui, excused>>
      /\ flight.change.kind = "deposit" => flight.change.amount <= pool.hchfBalance
      /\ flight' = [flight EXCEPT !.fate = "executed"]
      /\ pool' = [deposit |-> x, hchfBalance |-> b]
      /\ wanted' = NoChange
      /\ done' = IF done = "retyped" THEN done ELSE "executed"
  BY DEF Execute
<1>2. /\ pool \in Pool /\ d \in Deposit /\ d.currentHCHF \in Nat /\ pool.hchfBalance \in Nat
      /\ flight \in Flight /\ flight.change \in Change /\ flight.change.amount \in Nat
  BY Typed, DepositFields DEF Pool, Change
<1>3. flight' \in Flight /\ flight'.fate = "executed" /\ flight'.change = flight.change /\ flight' # NoFlight /\ flight # NoFlight
  BY <1>1, <1>2, FlightFields
<1>4. /\ new \in Nat
      /\ flight.change.kind = "deposit" => new = d.currentHCHF + flight.change.amount
      /\ flight.change.kind # "deposit" => new <= d.currentHCHF
  BY <1>2, ApplyIs
<1> HIDE DEF new
<1>5. b \in Nat
  BY <1>1, <1>2, <1>4
<1>6. x \in Deposit /\ x.currentHCHF <= x.initialHCHF /\ x.initialHCHF = new
  BY <1>4 DEF Deposit
<1> HIDE DEF x, b
<1>7. pool' \in Pool /\ pool'.deposit = x
  BY <1>1, <1>5, <1>6 DEF Pool
<1>8. UiInv(ui)' /\ ViewInv' /\ DepositInv'
  BY <1>1, <1>6, <1>7 DEF StabilityInv, UiInv, Mounts, Quiet, ViewInv, DepositInv
<1>9. NoChange \in Change
  BY DEF NoChange, Change
<1>10. StabilityTypes'
  BY <1>1, <1>3, <1>7, <1>9 DEF StabilityInv, StabilityTypes
<1>11. FlightInv'
  BY <1>1, <1>3 DEF StabilityInv, FlightInv
<1>12. WantedInv'
  BY <1>1 DEF WantedInv, Definite
<1>13. OnceInv'
  <2>1. done \notin {"executed", "known"} /\ done' \in {"executed", "retyped"}
    BY <1>1, <1>3 DEF StabilityInv, OnceInv, StabilityTypes
  <2>2. OnItsWay' <=> OnItsWay
    BY <1>1, <1>3 DEF OnItsWay
  <2>3. Leftover' <=> Leftover
    BY <1>1 DEF Leftover, Offers
  <2>4. ASSUME Leftover, done' = "executed", m.originalDeposit.initialHCHF = 0
        PROVE  pool'.deposit.initialHCHF # 0
    <3>1. OnItsWay
      BY <2>4, <1>1, <1>3 DEF OnItsWay
    <3>2. m.mounted /\ m.originalDeposit \in Deposit /\ m.editedHCHF \in Nat
      BY <2>4, Typed DEF Leftover, Offers
    <3>3. m.originalDeposit.currentHCHF = 0
      BY <2>4, <3>2, DepositFields DEF StabilityInv, DepositInv
    <3>4. OffersDeposit(m)
      BY <2>4, <3>2, <3>3 DEF Leftover, Offers, OffersDeposit
    <3>5. flight.change.kind = "deposit" /\ flight.change.amount > 0
      BY <3>1, <3>4 DEF StabilityInv, OnceInv
    <3> QED
      BY <1>2, <1>4, <1>6, <1>7, <3>5
  <2>5. OffersDeposit(ui.manager)' <=> OffersDeposit(ui.manager)
    BY <1>1 DEF OffersDeposit
  <2>6. OffersDeposit(ui.shown)' <=> OffersDeposit(ui.shown)
    BY <1>1 DEF OffersDeposit
  <2>7. ~JustConfirmed'
    BY <2>1 DEF JustConfirmed
  <2> QED
    BY <1>1, <1>3, <2>1, <2>2, <2>3, <2>4, <2>5, <2>6, <2>7 DEF StabilityInv, OnceInv, isEmpty
<1> QED
  BY <1>8, <1>10, <1>11, <1>12, <1>13 DEF StabilityInv

LEMMA ApprovedOK ==
    ASSUME StabilityInv, Approved
    PROVE  StabilityInv'
<1>1. /\ flight # NoFlight /\ flight' = [flight EXCEPT !.signed = TRUE] /\ Becomes("waitingForConfirmation")
      /\ UNCHANGED <<pool, stored, wanted, done, excused>>
  BY DEF Approved
<1>2. flight' \in Flight /\ flight'.fate = flight.fate /\ flight'.change = flight.change /\ flight' # NoFlight
      /\ flight.fate # "none"
  BY <1>1, Typed, FlightFields DEF StabilityInv, FlightInv
<1>3. ui.next # "confirmedOneShot" /\ ui.next # "failed" /\ ui.tx # "failed"
  BY <1>1 DEF StabilityInv, FlightInv
<1>4. ~(ui.tx = "confirmedOneShot" /\ ui.due)
  BY <1>3 DEF StabilityInv, UiInv
<1>5. /\ ui' \in Ui /\ UiInv(ui)' /\ ui'.view = ui.view /\ ui'.tx = ui.tx /\ ui'.next = "waitingForConfirmation" /\ ui'.due = ui.due
      /\ ui'.manager = ui.manager /\ ui'.shown = ui.shown /\ ui'.queued = ui.queued /\ ui'.empty = ui.empty
      /\ ui'.seenEmpty = ui.seenEmpty /\ ViewInv'
  BY <1>1, <1>4, BecomesOK DEF TxType, waiting
<1>6. StabilityTypes' /\ FlightInv' /\ DepositInv'
  BY <1>1, <1>2, <1>3, <1>5 DEF StabilityInv, StabilityTypes, FlightInv, DepositInv, waiting
<1>7. WantedInv'
  BY <1>1, <1>2, <1>5 DEF StabilityInv, WantedInv, Matches, Definite, PendingSoon
<1>8. OnceInv'
  <2>1. ~JustConfirmed' /\ (OnItsWay' <=> OnItsWay)
    BY <1>1, <1>2, <1>5 DEF JustConfirmed, OnItsWay
  <2>2. ~(Leftover /\ done = "known")
    BY <1>1 DEF StabilityInv, OnceInv
  <2> QED
    BY <1>1, <1>2, <1>5, <2>1, <2>2 DEF StabilityInv, OnceInv, Leftover, Offers, OffersDeposit
<1> QED
  BY <1>5, <1>6, <1>7, <1>8 DEF StabilityInv

LEMMA RejectedOK ==
    ASSUME StabilityInv, Rejected
    PROVE  StabilityInv'
<1>1. /\ flight # NoFlight /\ flight' = NoFlight /\ Becomes("failed")
      /\ done' = (IF done = "executed" THEN "no" ELSE done)
      /\ UNCHANGED <<pool, stored, wanted, excused>>
  BY DEF Rejected, Fails
<1>2. flight' \in Flight /\ flight'.fate = "none"
  BY <1>1, FlightFields
<1>3. ui.next # "confirmedOneShot" /\ ui.next # "failed" /\ ui.tx # "failed"
  BY <1>1 DEF StabilityInv, FlightInv
<1>4. ~(ui.tx = "confirmedOneShot" /\ ui.due)
  BY <1>3 DEF StabilityInv, UiInv
<1>5. /\ ui' \in Ui /\ UiInv(ui)' /\ ui'.view = ui.view /\ ui'.tx = ui.tx /\ ui'.next = "failed" /\ ui'.due = ui.due
      /\ ui'.manager = ui.manager /\ ui'.shown = ui.shown /\ ui'.queued = ui.queued /\ ui'.empty = ui.empty
      /\ ui'.seenEmpty = ui.seenEmpty /\ ViewInv'
  BY <1>1, <1>4, BecomesOK DEF TxType, waiting
<1>6. StabilityTypes' /\ FlightInv' /\ DepositInv'
  BY <1>1, <1>2, <1>3, <1>5 DEF StabilityInv, StabilityTypes, FlightInv, DepositInv, waiting
<1>7. WantedInv'
  BY <1>1, <1>2, <1>5 DEF StabilityInv, WantedInv, Matches, Definite, PendingSoon
<1>8. OnceInv'
  <2>1. ~JustConfirmed' /\ ~OnItsWay' /\ done' # "executed" /\ (done' = "known" => done = "known")
    BY <1>1, <1>5 DEF JustConfirmed, OnItsWay
  <2>2. ~(Leftover /\ done = "known")
    BY <1>1 DEF StabilityInv, OnceInv
  <2> QED
    BY <1>1, <1>2, <1>5, <2>1, <2>2 DEF StabilityInv, OnceInv, Leftover, Offers, OffersDeposit
<1> QED
  BY <1>5, <1>6, <1>7, <1>8 DEF StabilityInv

LEMMA ReceiptOK ==
    ASSUME StabilityInv, Receipt
    PROVE  StabilityInv'
<1>1. /\ ui.tx = "waitingForConfirmation" /\ ui.next = ui.tx /\ flight.fate \in {"executed", "reverted"}
      /\ flight' = NoFlight /\ UNCHANGED <<pool, stored, wanted, excused>>
  BY DEF Receipt
<1>2. PICK t \in {"confirmedOneShot", "failed"} :
        /\ Becomes(t)
        /\ t = "confirmedOneShot" => done' = (IF done = "executed" THEN "known" ELSE done)
        /\ t = "failed" => done' = (IF done = "executed" THEN "no" ELSE done)
  BY DEF Receipt, Fails
<1>3. flight' \in Flight /\ flight'.fate = "none" /\ flight # NoFlight
  BY <1>1, FlightFields
<1>4. /\ ui' \in Ui /\ UiInv(ui)' /\ ui'.view = ui.view /\ ui'.tx = ui.tx /\ ui'.next = t /\ ui'.due = ui.due
      /\ ui'.manager = ui.manager /\ ui'.shown = ui.shown /\ ui'.queued = ui.queued /\ ui'.empty = ui.empty
      /\ ui'.seenEmpty = ui.seenEmpty /\ ViewInv'
  BY <1>1, <1>2, BecomesOK DEF TxType, waiting
<1>5. done' \in {"no", "retyped", "known"}
  BY <1>2 DEF StabilityInv, StabilityTypes
<1>6. StabilityTypes' /\ FlightInv' /\ DepositInv'
  BY <1>1, <1>2, <1>3, <1>4, <1>5 DEF StabilityInv, StabilityTypes, FlightInv, DepositInv, waiting
<1>7. WantedInv'
  BY <1>1, <1>3, <1>4 DEF StabilityInv, WantedInv, Matches, Definite, PendingSoon
<1>8. OnceInv'
  <2>1. ~OnItsWay' /\ ~(Leftover /\ done = "known")
    BY <1>1, <1>3 DEF OnItsWay, StabilityInv, OnceInv
  <2>2. Leftover' <=> Leftover
    BY <1>4 DEF Leftover, Offers
  <2>3. Leftover /\ done' = "known" => done = "executed" /\ t = "confirmedOneShot" /\ OnItsWay
    BY <1>2, <1>3, <2>1 DEF OnItsWay
  <2>4. JustConfirmed' => done' = "known"
    BY DEF JustConfirmed
  <2> QED
    BY <1>1, <1>3, <1>4, <1>5, <2>1, <2>2, <2>3, <2>4 DEF StabilityInv, OnceInv, OffersDeposit, isEmpty, Edits
<1> QED
  BY <1>4, <1>6, <1>7, <1>8 DEF StabilityInv

LEMMA ExpireOK ==
    ASSUME StabilityInv, Expire
    PROVE  StabilityInv'
<1>1. /\ ui.next = "failed" /\ ui.next = ui.tx /\ Becomes("idle")
      /\ UNCHANGED <<pool, stored, flight, wanted, done, excused>>
  BY DEF Expire
<1>2. flight = NoFlight
  BY <1>1 DEF StabilityInv, FlightInv
<1>3. /\ ui' \in Ui /\ UiInv(ui)' /\ ui'.view = ui.view /\ ui'.tx = ui.tx /\ ui'.next = "idle" /\ ui'.due = ui.due
      /\ ui'.manager = ui.manager /\ ui'.shown = ui.shown /\ ui'.queued = ui.queued /\ ui'.empty = ui.empty
      /\ ui'.seenEmpty = ui.seenEmpty /\ ViewInv'
  BY <1>1, BecomesOK DEF TxType
<1>4. StabilityTypes' /\ FlightInv' /\ DepositInv'
  BY <1>1, <1>2, <1>3 DEF StabilityInv, StabilityTypes, FlightInv, DepositInv, waiting
<1>5. WantedInv'
  BY <1>1, <1>3 DEF StabilityInv, WantedInv, Matches, Definite, PendingSoon
<1>6. OnceInv'
  <2>1. ~JustConfirmed' /\ (OnItsWay' <=> OnItsWay)
    BY <1>1, <1>3 DEF JustConfirmed, OnItsWay
  <2>2. Leftover /\ done = "known" => ~Edits(ui.queued)
    BY <1>1 DEF StabilityInv, OnceInv
  <2> QED
    BY <1>1, <1>3, <2>1, <2>2 DEF StabilityInv, OnceInv, Leftover, Offers, OffersDeposit, Edits, WillRevert
<1> QED
  BY <1>3, <1>4, <1>5, <1>6 DEF StabilityInv

\* What holds of the page e that effects, due or not, make of ui.
EndedWell(e) ==
    /\ e \in Ui /\ Mounts(e) /\ Quiet(e)
    /\ e.view = ui.view /\ e.tx = ui.tx /\ e.empty = ui.empty
    /\ SameForm(e.manager, ui.manager) /\ SameForm(e.shown, ui.shown)
    /\ Edits(e.view) /\ e.queued = "ACTIVE" => e.tx # "waitingForConfirmation"
    /\ e.queued = "DEPOSITING" => e.view \in {"NONE", "DEPOSITING"}
    /\ ~Edits(e.view) /\ Edits(e.queued) => ~Definite
    /\ ~ExcusedAfter(ui, excused) /\ e.empty => e.queued \in {"NONE", "DEPOSITING"}
    /\ e.manager.mounted /\ e.manager.changePending => PendingSoon(ui)
    /\ Leftover /\ OnItsWay => e.manager.changePending
    /\ Leftover /\ done = "known" /\ Edits(e.queued) =>
         /\ ui.tx # "failed" /\ e.manager.changePending
         /\ (ui.next = "confirmedOneShot" /\ ui.tx = "waitingForConfirmation") \/ WillRevert

\* The view that is queued when effects have run over another than the empty deposit.
LEMMA QueuedCases ==
    ASSUME NEW u \in Ui
    PROVE  \/ QueuedAfter(u) = u.queued
           \/ u.empty # u.seenEmpty /\ u.empty /\ QueuedAfter(u) = transition(u.view, "DEPOSIT_EMPTIED")
           \/ u.tx = "confirmedOneShot" /\ Edits(u.view) /\ QueuedAfter(u) = transition(u.ref, "DEPOSIT_CONFIRMED")
           \/ u.tx = "confirmedOneShot" /\ u.view = "ACTIVE" /\ QueuedAfter(u) = transition(u.ref, "REWARDS_CLAIMED")
BY DEF QueuedAfter, ChildQueued

LEMMA EndedInv ==
    ASSUME StabilityInv, NEW e, EndedButNext(e, ui)
    PROVE  EndedWell(e)
<1>1. /\ ui \in Ui /\ UiInv(ui) /\ FlightInv /\ WantedInv /\ OnceInv /\ ViewInv
      /\ ui.view \in View /\ ui.ref \in View /\ ui.queued \in View /\ ui.empty \in BOOLEAN /\ ui.seenEmpty \in BOOLEAN
  BY Typed DEF StabilityInv
<1>2. /\ e \in Ui /\ Mounts(e) /\ Quiet(e)
      /\ e.view = ui.view /\ e.tx = ui.tx /\ e.empty = ui.empty
      /\ e.queued = (IF ui.due THEN QueuedAfter(ui) ELSE ui.queued)
      /\ SameForm(e.manager, ui.manager) /\ SameForm(e.shown, ui.shown)
      /\ ui.manager.mounted =>
           e.manager.changePending = (IF ui.due THEN PendingAfter(ui) ELSE ui.manager.changePending)
  BY DEF EndedButNext
<1>3. ui.due => ui.queued = ui.view
  BY <1>1 DEF UiInv
<1>4. Edits(e.view) /\ e.queued = "ACTIVE" => e.tx # "waitingForConfirmation"
  <2>1. CASE ~ui.due
    BY <2>1, <1>1, <1>2 DEF UiInv
  <2>2. CASE ui.due
    <3> SUFFICES ASSUME Edits(ui.view), QueuedAfter(ui) = "ACTIVE", ui.tx = "waitingForConfirmation" PROVE FALSE
      BY <1>2, <2>2
    <3>1. QueuedAfter(ui) \in {ui.view, transition(ui.view, "DEPOSIT_EMPTIED")}
      BY <1>1, <1>3, <2>2, QueuedCases
    <3> QED
      BY <1>1, <3>1, Transitions DEF Edits
  <2> QED
    BY <2>1, <2>2
<1>5. e.queued = "DEPOSITING" => e.view \in {"NONE", "DEPOSITING"}
  <2>1. CASE ~ui.due
    BY <2>1, <1>1, <1>2 DEF UiInv
  <2>2. CASE ui.due
    <3> SUFFICES ASSUME QueuedAfter(ui) = "DEPOSITING" PROVE ui.view \in {"NONE", "DEPOSITING"}
      BY <1>2, <2>2
    <3>1. CASE QueuedAfter(ui) = ui.queued
      BY <1>3, <2>2, <3>1
    <3>2. CASE QueuedAfter(ui) = transition(ui.view, "DEPOSIT_EMPTIED")
      BY <1>1, <3>2, Transitions, MoreTransitions DEF View
    <3>3. CASE ui.tx = "confirmedOneShot" /\ Edits(ui.view) /\ QueuedAfter(ui) = transition(ui.ref, "DEPOSIT_CONFIRMED")
      BY <1>1, <3>3, MoreTransitions
    <3>4. CASE ui.tx = "confirmedOneShot" /\ ui.view = "ACTIVE" /\ QueuedAfter(ui) = transition(ui.ref, "REWARDS_CLAIMED")
      BY <1>1, <2>2, <3>4, MoreTransitions DEF UiInv, Edits
    <3> QED
      BY <1>1, <3>1, <3>2, <3>3, <3>4, QueuedCases
  <2> QED
    BY <2>1, <2>2
<1>6. ~Edits(e.view) /\ Edits(e.queued) => ~Definite
  <2>1. CASE ~ui.due
    BY <2>1, <1>1, <1>2 DEF WantedInv
  <2>2. CASE ui.due /\ ~Edits(ui.view)
    <3>1. CASE QueuedAfter(ui) = ui.queued
      BY <1>2, <1>3, <2>2, <3>1
    <3>2. CASE QueuedAfter(ui) = transition(ui.view, "DEPOSIT_EMPTIED")
      BY <1>1, <1>2, <2>2, <3>2, Transitions, MoreTransitions DEF View, Edits
    <3>4. CASE ui.tx = "confirmedOneShot" /\ ui.view = "ACTIVE" /\ QueuedAfter(ui) = transition(ui.ref, "REWARDS_CLAIMED")
      BY <1>1, <1>2, <2>2, <3>4, MoreTransitions DEF UiInv, Edits
    <3> QED
      BY <1>1, <2>2, <3>1, <3>2, <3>4, QueuedCases
  <2> QED
    BY <2>1, <2>2, <1>2
<1>7. ~ExcusedAfter(ui, excused) /\ e.empty => e.queued \in {"NONE", "DEPOSITING"}
  <2> SUFFICES ASSUME ~ExcusedAfter(ui, excused), e.empty PROVE e.queued \in {"NONE", "DEPOSITING"}
    OBVIOUS
  <2>1. CASE ~ui.due
    <3>1. ~excused /\ ui.seenEmpty
      BY <2>1, <1>1, <1>2 DEF ExcusedAfter, UiInv, Quiet
    <3> QED
      BY <2>1, <3>1, <1>1, <1>2 DEF ViewInv
  <2>2. CASE ui.due /\ ~ui.seenEmpty
    <3>1. QueuedAfter(ui) = transition(ui.view, "DEPOSIT_EMPTIED")
      BY <2>2, <1>2 DEF QueuedAfter
    <3> QED
      BY <2>2, <3>1, <1>1, <1>2, Transitions
  <2>3. CASE ui.due /\ ui.seenEmpty
    <3>1. ui.empty = ui.seenEmpty
      BY <2>3, <1>1, <1>2
    <3>2. ~excused /\ ~(ui.view # "NONE" /\ ui.tx = "confirmedOneShot" /\ ui.empty)
      BY <2>3, <3>1 DEF ExcusedAfter, ConfirmedEmpty
    <3>3. ui.queued \in {"NONE", "DEPOSITING"}
      BY <2>3, <3>2, <1>1 DEF ViewInv
    <3>4. QueuedAfter(ui) = ui.queued
      BY <1>1, <1>2, <3>1, <3>2, QueuedCases DEF Edits
    <3> QED
      BY <2>3, <3>3, <3>4, <1>2
  <2> QED
    BY <2>1, <2>2, <2>3
<1>8. e.manager.mounted => ui.manager.mounted /\ Edits(ui.view)
  BY <1>1, <1>2 DEF SameForm, UiInv, Mounts
<1>9. e.manager.mounted /\ e.manager.changePending => PendingSoon(ui)
  BY <1>2, <1>8 DEF PendingSoon, PendingAfter
<1>10. Leftover => ui.manager.mounted
  BY DEF Leftover, Offers
<1>11. Leftover /\ OnItsWay => e.manager.changePending
  BY <1>1, <1>2, <1>10 DEF OnceInv, FlightInv, OnItsWay, PendingAfter
<1>12. ASSUME Leftover, done = "known", Edits(e.queued)
       PROVE  /\ ui.tx # "failed" /\ e.manager.changePending
              /\ (ui.next = "confirmedOneShot" /\ ui.tx = "waitingForConfirmation") \/ WillRevert
  <2>1. CASE ~ui.due
    BY <2>1, <1>1, <1>2, <1>10, <1>12 DEF OnceInv, UiInv
  <2>2. CASE ui.due
    <3>1. Edits(ui.queued)
      BY <1>1, <1>3, <1>10, <1>12, <2>2 DEF UiInv, Mounts
    <3>2. ui.tx # "failed" /\ ui.manager.changePending /\ (ui.next = "confirmedOneShot" \/ WillRevert)
      BY <1>1, <1>12, <3>1 DEF OnceInv
    <3>3. e.manager.changePending
      BY <1>2, <1>10, <1>12, <2>2, <3>2 DEF PendingAfter
    <3>4. CASE ui.tx = "confirmedOneShot"
      <4>1. ui.seenTx # ui.tx
        BY <1>1, <2>2, <3>4 DEF UiInv
      <4>2. CASE ui.empty /\ ~ui.seenEmpty
        BY <1>1, <1>12, <2>2, <3>2, <3>3, <3>4, <4>2 DEF OnceInv
      <4>3. CASE ~(ui.empty /\ ~ui.seenEmpty)
        <5>1. QueuedAfter(ui) = transition(ui.ref, "DEPOSIT_CONFIRMED")
          BY <1>1, <1>10, <1>12, <3>4, <4>1, <4>3 DEF QueuedAfter, ChildQueued, UiInv, Mounts
        <5> QED
          BY <1>1, <1>2, <1>12, <2>2, <5>1, Transitions
      <4> QED
        BY <4>2, <4>3
    <3>5. CASE ui.tx # "confirmedOneShot"
      BY <1>1, <3>2, <3>3, <3>5 DEF UiInv
    <3> QED
      BY <3>4, <3>5
  <2> QED
    BY <2>1, <2>2
<1> QED
  BY <1>2, <1>4, <1>5, <1>6, <1>7, <1>9, <1>11, <1>12 DEF EndedWell

\* The effects of the page as it is, or but for its next transaction's state.
LEMMA EndedPage ==
    ASSUME StabilityInv
    PROVE  Ended(Effects(ui), ui) /\ EndedWell(Effects(ui))
<1>1. Ended(Effects(ui), ui)
  BY Settle, Typed DEF StabilityInv, UiInv
<1> QED
  BY <1>1, EndedInv DEF Ended

\* When the effects have run.
LEMMA QuietInv ==
    ASSUME NEW e \in Ui, Quiet(e), Mounts(e),
           e.next = "confirmedOneShot" => e.tx = "waitingForConfirmation",
           Edits(e.view) /\ e.queued = "ACTIVE" => e.tx # "waitingForConfirmation",
           e.queued = "DEPOSITING" => e.view \in {"NONE", "DEPOSITING"}
    PROVE  UiInv(e)
BY DEF UiInv, Quiet

LEMMA RunEffectsOK ==
    ASSUME StabilityInv, RunEffects
    PROVE  StabilityInv'
<1> DEFINE e == Effects(ui)
<1>1. /\ ui.due /\ ui' = e /\ excused' = ExcusedAfter(ui, excused)
      /\ UNCHANGED <<pool, stored, flight, wanted, done>>
  BY DEF RunEffects
<1>2. Ended(e, ui) /\ EndedWell(e)
  BY EndedPage
<1> HIDE DEF e
<1>3. /\ e \in Ui /\ Mounts(e) /\ Quiet(e)
      /\ e.view = ui.view /\ e.tx = ui.tx /\ e.empty = ui.empty
      /\ SameForm(e.manager, ui.manager) /\ SameForm(e.shown, ui.shown)
  BY <1>2 DEF EndedWell
<1>4. e.next = (IF ui.tx = "confirmedOneShot" THEN "idle" ELSE ui.next)
  BY <1>1, <1>2 DEF Ended
<1>5. UiInv(ui)'
  <2>1. e.next = "confirmedOneShot" => e.tx = "waitingForConfirmation"
    BY <1>3, <1>4 DEF StabilityInv, UiInv
  <2>2. UiInv(e)
    BY <1>2, <1>3, <2>1, QuietInv DEF EndedWell
  <2> QED
    BY <1>1, <2>2 DEF UiInv, Mounts, Edits, Quiet
<1>6. StabilityTypes'
  <2>1. excused' \in BOOLEAN
    BY <1>1 DEF ExcusedAfter
  <2> QED
    BY <1>1, <1>3, <2>1 DEF StabilityInv, StabilityTypes
<1>7. FlightInv'
  BY <1>1, <1>3, <1>4 DEF StabilityInv, FlightInv, waiting
<1>8. ViewInv'
  BY <1>1, <1>2, <1>3 DEF EndedWell, ViewInv, Quiet
<1>9. WantedInv' /\ DepositInv'
  <2>1. ~Edits(e.view) /\ Edits(e.queued) => ~Definite
    BY <1>2 DEF EndedWell
  <2>2. e.manager.mounted => ui.manager.mounted /\ e.manager.originalDeposit = ui.manager.originalDeposit
                             /\ e.manager.editedHCHF = ui.manager.editedHCHF /\ e.manager.subscribed
    BY <1>3 DEF SameForm, Quiet
  <2>3. e.manager.mounted /\ PendingSoon(e) => PendingSoon(ui)
    BY <1>2, <1>3 DEF EndedWell, PendingSoon, Quiet
  <2> QED
    BY <1>1, <2>1, <2>2, <2>3 DEF StabilityInv, WantedInv, DepositInv, Matches, Definite, PendingSoon, Edits
<1>10. OnceInv'
  <2>1. (Leftover' <=> Leftover) /\ (OffersDeposit(ui.manager)' <=> OffersDeposit(ui.manager))
        /\ (OffersDeposit(ui.shown)' <=> OffersDeposit(ui.shown))
    <3>1. (Offers(e.manager) <=> Offers(ui.manager)) /\ (OffersDeposit(e.manager) <=> OffersDeposit(ui.manager))
          /\ (OffersDeposit(e.shown) <=> OffersDeposit(ui.shown))
      BY <1>3, SameOffers
    <3> QED
      BY <1>1, <3>1 DEF Leftover, Offers, OffersDeposit
  <2>2. Leftover => e.manager.subscribed /\ e.manager.originalDeposit = ui.manager.originalDeposit
                    /\ ui.manager.mounted /\ e.manager.mounted
    BY <1>3 DEF Leftover, Offers, SameForm, Quiet
  <2>3. OnItsWay' <=> OnItsWay
    BY <1>1 DEF OnItsWay
  <2>4. ~e.due
    BY <1>3 DEF Quiet
  <2>5. JustConfirmed' => JustConfirmed /\ ui.tx # "confirmedOneShot"
    BY <1>1, <1>4 DEF JustConfirmed
  <2>6. Leftover => (WillRevert' <=> WillRevert)
    BY <1>1, <2>2 DEF WillRevert
  <2>7. Leftover /\ JustConfirmed' => e.manager.changePending
    <3>1. JustConfirmed' => ui.tx = "waitingForConfirmation"
      BY <2>5 DEF JustConfirmed, StabilityInv, UiInv
    <3>2. ASSUME Leftover, JustConfirmed' PROVE e.manager.changePending
      <4>1. ui.manager.changePending /\ ui.tx = "waitingForConfirmation"
        BY <2>5, <3>1, <3>2 DEF StabilityInv, OnceInv
      <4>2. PendingAfter(ui)
        BY <4>1 DEF PendingAfter, waiting
      <4> QED
        BY <1>1, <1>2, <2>2, <3>2, <4>2 DEF Ended, EndedButNext
    <3> QED
      BY <3>2
  <2>8. Leftover /\ done = "known" /\ Edits(e.queued) =>
          /\ e.next # "failed" /\ e.tx # "failed"
          /\ e.manager.changePending
          /\ e.next = "confirmedOneShot" \/ WillRevert
    <3> SUFFICES ASSUME Leftover, done = "known", Edits(e.queued)
                 PROVE  /\ e.next # "failed" /\ e.tx # "failed"
                        /\ e.manager.changePending
                        /\ e.next = "confirmedOneShot" \/ WillRevert
      OBVIOUS
    <3>1. Edits(ui.queued)
      BY <1>1, <2>2 DEF StabilityInv, UiInv, Mounts
    <3>2. ui.next # "failed"
      BY <3>1 DEF StabilityInv, OnceInv
    <3>3. /\ ui.tx # "failed" /\ e.manager.changePending
          /\ (ui.next = "confirmedOneShot" /\ ui.tx = "waitingForConfirmation") \/ WillRevert
      BY <1>2 DEF EndedWell
    <3> QED
      BY <1>3, <1>4, <3>2, <3>3
  <2>9. Leftover /\ OnItsWay => e.manager.changePending
    BY <1>2 DEF EndedWell
  <2>10. e.tx = ui.tx /\ e.empty = ui.empty
    BY <1>3
  <2> QED
    BY <1>1, <2>1, <2>2, <2>3, <2>4, <2>5, <2>6, <2>7, <2>8, <2>9, <2>10
       DEF StabilityInv, OnceInv, isEmpty, Edits
<1> QED
  BY <1>5, <1>6, <1>7, <1>8, <1>9, <1>10 DEF StabilityInv

LEMMA TypeStepOK ==
    ASSUME StabilityInv, NEW newValue \in Nat, Type(newValue)
    PROVE  StabilityInv'
<1> DEFINE e == Effects(ui)
           m == [e.manager EXCEPT !.editedHCHF = newValue]
           f == [e EXCEPT !.manager = m]
           d == ui.manager.originalDeposit
<1>1. Ended(e, ui) /\ EndedWell(e)
  BY EndedPage
<1>2. /\ Edits(ui.view) /\ ui' = Effects(CommitClick(f, e.view, e.tx))
      /\ wanted' = (IF flight # NoFlight \/ e.manager.changePending THEN NoChange
                    ELSE whatChanged(e.manager.originalDeposit, newValue))
      /\ done' = (IF flight # NoFlight THEN "retyped" ELSE "no")
      /\ excused' = ExcusedAfter(ui, excused)
      /\ UNCHANGED <<pool, stored, flight>>
  BY DEF Type, setDeposit
<1> HIDE DEF e
<1>3. /\ stored \in Pool /\ e \in Ui /\ Mounts(e) /\ Quiet(e) /\ e.view = ui.view /\ e.tx = ui.tx /\ e.empty = ui.empty
      /\ SameForm(e.manager, ui.manager)
      /\ e.next = (IF ui.due /\ ui.tx = "confirmedOneShot" THEN "idle" ELSE ui.next)
  BY <1>1, Typed DEF EndedWell, Ended
<1>4. e.manager \in Manager /\ e.manager.mounted
  <2>1. e.manager \in AnyManager /\ e.manager.mounted
    BY <1>2, <1>3 DEF Mounts, Ui
  <2> QED
    BY <2>1, ManagerFields
<1>5. /\ m \in Manager /\ m.mounted /\ m.originalDeposit = e.manager.originalDeposit
      /\ m.editedHCHF = newValue /\ m.changePending = e.manager.changePending /\ m.subscribed = e.manager.subscribed
  BY <1>4 DEF Manager
<1> HIDE DEF m
<1>6. /\ f \in Ui /\ f.view = e.view /\ f.queued = e.queued /\ f.ref = e.ref /\ f.empty = e.empty
      /\ f.seenEmpty = e.seenEmpty /\ f.tx = e.tx /\ f.seenTx = e.seenTx /\ f.next = e.next
      /\ f.due = e.due /\ f.manager = m /\ f.shown = e.shown
  BY <1>3, <1>5 DEF Ui, AnyManager
<1> HIDE DEF f
<1>7. Quiet(f) /\ Mounts(f)
  BY <1>3, <1>4, <1>5, <1>6 DEF Quiet, Mounts
<1>8. Recommitted(Effects(CommitClick(f, f.view, f.tx)), f, f.tx)
  BY <1>3, <1>6, <1>7, Recommit
<1>9. Recommitted(ui', f, f.tx)
  BY <1>2, <1>6, <1>8
<1>10. /\ ui' \in Ui /\ Quiet(ui') /\ Mounts(ui') /\ ui'.view = ui.view /\ ui'.queued = e.queued /\ ui'.empty = e.empty
       /\ ui'.tx = ui.tx /\ ui'.next = (IF ui.tx = "confirmedOneShot" THEN "idle" ELSE e.next)
       /\ SameForm(ui'.manager, m) /\ SameForm(ui'.shown, m)
       /\ ui'.manager.changePending = e.manager.changePending
  BY <1>3, <1>5, <1>6, <1>9 DEF Recommitted
<1>11. /\ ui.manager.mounted /\ d \in Deposit /\ e.manager.originalDeposit = d
       /\ ui'.manager.mounted /\ ui'.manager.originalDeposit = d /\ ui'.manager.editedHCHF = newValue
  BY <1>3, <1>4, <1>5, <1>10, Typed DEF SameForm
<1>12. /\ wanted' \in Change
       /\ wanted' = NoChange
            \/ (flight = NoFlight /\ ~e.manager.changePending /\ wanted' = whatChanged(d, newValue))
  <2>1. whatChanged(d, newValue) \in Change
    BY <1>11, WhatChangedIs
  <2> QED
    BY <1>2, <1>11, <2>1 DEF NoChange, Change
<1>13. UiInv(ui)'
  <2>1. ui'.next = "confirmedOneShot" => ui'.tx = "waitingForConfirmation"
    BY <1>3, <1>10 DEF StabilityInv, UiInv
  <2>2. UiInv(ui')
    BY <1>1, <1>3, <1>10, <2>1, QuietInv DEF EndedWell
  <2> QED
    BY <2>2 DEF UiInv, Mounts, Edits, Quiet
<1>14. StabilityTypes'
  BY <1>2, <1>10, <1>12 DEF StabilityInv, StabilityTypes, ExcusedAfter
<1>15. FlightInv'
  BY <1>2, <1>3, <1>10 DEF StabilityInv, FlightInv, waiting
<1>16. ViewInv'
  BY <1>1, <1>2, <1>3, <1>10 DEF EndedWell, ViewInv, Quiet
<1>17. DepositInv'
  BY <1>2, <1>11 DEF StabilityInv, DepositInv
<1>18. WantedInv'
  <2>1. Definite' => flight = NoFlight /\ ~PendingSoon(ui)' /\ wanted' = whatChanged(d, newValue)
    BY <1>10, <1>12 DEF Definite, PendingSoon, Quiet
  <2>2. Edits(ui'.view)
    BY <1>2, <1>10
  <2>3. ui'.manager.subscribed
    BY <1>10, <1>11 DEF Quiet
  <2> QED
    BY <1>2, <1>11, <2>1, <2>2, <2>3 DEF WantedInv, Matches, Edits
<1>19. OnceInv'
  <2>1. done' \notin {"executed", "known"} /\ ~OnItsWay' /\ ~JustConfirmed'
    BY <1>2 DEF OnItsWay, JustConfirmed
  <2>2. ui'.manager.subscribed
    BY <1>10, <1>11 DEF Quiet
  <2>3. OffersDeposit(ui'.manager) => OffersDeposit(ui'.shown)
    BY <1>10, SameOffers
  <2>4. OffersDeposit(ui.manager)' => OffersDeposit(ui.shown)'
    BY <2>3 DEF OffersDeposit
  <2> QED
    BY <2>1, <2>2, <2>4 DEF OnceInv
<1> QED
  BY <1>13, <1>14, <1>15, <1>16, <1>17, <1>18, <1>19 DEF StabilityInv

LEMMA SentOK ==
    ASSUME StabilityInv, NEW change \in Change, Sent(change),
           OffersDeposit(ui.shown) => change.kind = "deposit" /\ change.amount > 0
    PROVE  StabilityInv'
<1> DEFINE u == [ui EXCEPT !.next = "waitingForApproval"]
           e == Effects(u)
<1>1. /\ flight = NoFlight /\ ui.tx \notin waiting /\ ui.next \notin waiting
      /\ flight' = [change |-> change, fate |-> "sent", signed |-> FALSE]
      /\ ui' = Effects(CommitClick(e, e.view, "waitingForApproval"))
      /\ wanted' = (IF Unheard THEN NoChange ELSE wanted)
      /\ done' = "no"
      /\ excused' = ExcusedAfter(ui, excused)
      /\ UNCHANGED <<pool, stored>>
  BY DEF Sent
<1>2. /\ u \in Ui /\ u.view = ui.view /\ u.queued = ui.queued /\ u.ref = ui.ref
      /\ u.empty = ui.empty /\ u.seenEmpty = ui.seenEmpty /\ u.tx = ui.tx /\ u.next = "waitingForApproval"
      /\ u.seenTx = ui.seenTx /\ u.due = ui.due /\ u.manager = ui.manager /\ u.shown = ui.shown
  BY Typed, NextFields DEF TxType, waiting
<1> HIDE DEF u
<1>3. Mounts(u) /\ (~u.due => Quiet(u))
  BY <1>2 DEF StabilityInv, UiInv, Mounts, Quiet
<1>4. Ended(e, u)
  BY <1>2, <1>3, Settle
<1> HIDE DEF e
<1>5. EndedButNext(e, ui)
  <2>1. QueuedAfter(u) = QueuedAfter(ui) /\ PendingAfter(u) = PendingAfter(ui)
    BY <1>2 DEF QueuedAfter, ChildQueued, PendingAfter
  <2> QED
    BY <1>2, <1>4, <2>1 DEF Ended, EndedButNext
<1>6. EndedWell(e)
  BY <1>5, EndedInv
<1>7. /\ stored \in Pool /\ e \in Ui /\ Mounts(e) /\ Quiet(e) /\ e.view = ui.view /\ e.tx = ui.tx /\ e.empty = ui.empty
      /\ SameForm(e.manager, ui.manager) /\ e.next \in {"idle", "waitingForApproval"}
  BY <1>2, <1>4, <1>6, Typed DEF EndedWell, Ended
<1>8. Recommitted(ui', e, "waitingForApproval")
  BY <1>1, <1>7, Recommit
<1>9. /\ ui' \in Ui /\ Quiet(ui') /\ Mounts(ui') /\ ui'.view = ui.view /\ ui'.queued = e.queued /\ ui'.empty = e.empty
      /\ ui'.tx = "waitingForApproval" /\ ui'.next \in {"idle", "waitingForApproval"}
      /\ SameForm(ui'.manager, e.manager) /\ SameForm(ui'.shown, e.manager)
      /\ e.manager.mounted => ui'.manager.changePending
  BY <1>1, <1>7, <1>8 DEF Recommitted, waiting
<1>10. SameForm(ui'.manager, ui.manager)
  BY <1>7, <1>9, SameFormTwice
<1>11. flight' \in Flight /\ flight'.fate = "sent" /\ flight' # NoFlight /\ flight'.change = change
  BY <1>1 DEF Flight, NoFlight
<1>12. UiInv(ui)'
  <2>1. UiInv(ui')
    BY <1>6, <1>9, QuietInv DEF EndedWell
  <2> QED
    BY <2>1 DEF UiInv, Mounts, Edits, Quiet
<1>13. StabilityTypes'
  <2>1. wanted' \in Change /\ excused' \in BOOLEAN
    BY <1>1, Typed DEF ExcusedAfter, NoChange, Change
  <2> QED
    BY <1>1, <1>9, <1>11, <2>1 DEF StabilityInv, StabilityTypes
<1>14. FlightInv'
  BY <1>9, <1>11 DEF FlightInv, waiting
<1>15. ViewInv'
  BY <1>1, <1>6, <1>9 DEF EndedWell, ViewInv, Quiet
<1>16. ui'.manager.mounted =>
         /\ ui.manager.mounted /\ e.manager.mounted /\ ui'.manager.subscribed
         /\ ui'.manager.originalDeposit = ui.manager.originalDeposit
         /\ ui'.manager.editedHCHF = ui.manager.editedHCHF
  BY <1>7, <1>9, <1>10 DEF SameForm, Quiet
<1>17. DepositInv'
  BY <1>1, <1>16 DEF StabilityInv, DepositInv
<1>18. WantedInv'
  <2>1. Definite' => Definite /\ ~Unheard /\ wanted' = wanted
    BY <1>1 DEF Definite
  <2>2. ui.manager.mounted /\ ~Unheard => LiquidatedFrom(pool.deposit, ui.manager.originalDeposit)
    <3>1. ui.manager.mounted => ui.manager.originalDeposit \in Deposit /\ pool.deposit \in Deposit
      BY Typed
    <3> QED
      BY <3>1, DepositFields DEF Unheard, changeCommitted, LiquidatedFrom
  <2>3. ~Edits(ui'.view) /\ Edits(ui'.queued) => ~Definite'
    BY <1>6, <1>7, <1>9, <2>1 DEF EndedWell
  <2> QED
    BY <1>1, <1>16, <2>1, <2>2, <2>3 DEF StabilityInv, WantedInv, Matches, Definite, Edits, LiquidatedFrom
<1>19. OnceInv'
  <2>1. done' = "no" /\ ~JustConfirmed'
    BY <1>1 DEF JustConfirmed
  <2>2. /\ OffersDeposit(ui.manager)' => OffersDeposit(ui.shown)'
        /\ OffersDeposit(ui.manager)' => OffersDeposit(ui.manager)
    <3>1. /\ OffersDeposit(ui'.manager) => OffersDeposit(ui'.shown)
          /\ OffersDeposit(ui'.manager) => OffersDeposit(ui.manager)
      BY <1>9, <1>10, SameOffers
    <3> QED
      BY <3>1 DEF OffersDeposit
  <2>3. OffersDeposit(ui.manager) => change.kind = "deposit" /\ change.amount > 0
    BY DEF StabilityInv, OnceInv
  <2>4. Leftover' => ui'.manager.mounted
    BY DEF Leftover, Offers
  <2>5. ui'.tx # "waitingForConfirmation" /\ ui'.tx # "confirmedOneShot"
    BY <1>9
  <2> QED
    BY <1>9, <1>11, <1>16, <2>1, <2>2, <2>3, <2>4, <2>5 DEF OnceInv
<1> QED
  BY <1>12, <1>13, <1>14, <1>15, <1>17, <1>18, <1>19 DEF StabilityInv

LEMMA ClickOK ==
    ASSUME StabilityInv, NEW event \in {"DEPOSIT_PRESSED", "CANCEL_PRESSED", "ADJUST_DEPOSIT_PRESSED"}, Click(event)
    PROVE  StabilityInv'
<1> DEFINE v == transition(ui.ref, event)
           h == [ui EXCEPT !.queued = v]
           e == Effects(h)
           c == CommitClick(e, v, e.tx)
<1>1. /\ ui \in Ui /\ ui.ref \in View /\ ui.view \in View /\ ui.queued \in View /\ UiInv(ui) /\ FlightInv
      /\ stored \in Pool /\ ui.empty \in BOOLEAN /\ ui.seenEmpty \in BOOLEAN /\ v \in View
  BY Typed, Transitions DEF StabilityInv
<1>2. dispatchEvent(ui, event) = h /\ h.queued = v
  BY <1>1 DEF dispatchEvent, Ui
<1>3. /\ event \in DOMAIN transitions[ui.view]
      /\ ui' = Effects(c)
      /\ wanted' = NoChange
      /\ excused' = ExcusedAfter(c, ExcusedAfter(ui, excused) \/ Overtakes)
      /\ UNCHANGED <<pool, stored, flight, done>>
  BY <1>2 DEF Click
<1>4. Edits(ui.view) => ~Edits(v)
  BY <1>1, <1>3, Transitions DEF Edits, View
<1>5. ui.view = "DEPOSITING" => v = "NONE"
  <2>1. ui.view = "DEPOSITING" => event = "CANCEL_PRESSED" /\ ui.ref \in {"NONE", "DEPOSITING"}
    BY <1>1, <1>3, Transitions DEF UiInv, Quiet
  <2> QED
    BY <2>1, Transitions, MoreTransitions
<1>6. ui.ref = ui.view /\ ui.view \in {"NONE", "DEPOSITING"} => v \in {"NONE", "DEPOSITING"}
  BY <1>3, Transitions, MoreTransitions
<1> HIDE DEF v
<1>7. /\ h \in Ui /\ h.view = ui.view /\ h.queued = v /\ h.ref = ui.ref /\ h.empty = ui.empty
      /\ h.seenEmpty = ui.seenEmpty /\ h.tx = ui.tx /\ h.seenTx = ui.seenTx /\ h.next = ui.next
      /\ h.due = ui.due /\ h.manager = ui.manager /\ h.shown = ui.shown
  BY <1>1 DEF Ui
<1> HIDE DEF h
<1>8. Mounts(h) /\ (~h.due => Quiet(h))
  BY <1>1, <1>7 DEF UiInv, Mounts, Quiet
<1>9. Ended(e, h)
  BY <1>7, <1>8, Settle
<1> HIDE DEF e
<1>10. /\ e \in Ui /\ Mounts(e) /\ Quiet(e) /\ e.view = ui.view /\ e.tx = ui.tx /\ e.empty = ui.empty
       /\ e.queued = (IF ui.due THEN QueuedAfter(h) ELSE v)
       /\ e.next = (IF ui.due /\ ui.tx = "confirmedOneShot" THEN "idle" ELSE ui.next)
  BY <1>7, <1>9 DEF Ended, EndedButNext
<1>11. Remounted(Effects(c), e, v)
  BY <1>1, <1>4, <1>10, Remount
<1>12. Remounted(ui', e, v)
  BY <1>3, <1>11
<1>13. c.due /\ c.view = v /\ c.tx = ui.tx /\ c.empty = ui.empty /\ c.seenEmpty = ui.empty
  <2>1. e.tx \in TxType
    BY <1>10 DEF Ui
  <2>2. Committed(c, e, v, e.tx)
    BY <1>1, <1>10, <2>1, CommitClickFields
  <2> QED
    BY <1>10, <2>2 DEF Committed, Quiet
<1> HIDE DEF c
<1>14. /\ ui' \in Ui /\ Quiet(ui') /\ Mounts(ui') /\ ui'.view = v /\ ui'.empty = ui.empty /\ ui'.tx = ui.tx
       /\ ui'.next = (IF ui.tx = "confirmedOneShot" THEN "idle" ELSE ui.next)
       /\ ~Offers(ui'.manager)
       /\ ui'.manager.mounted => ui'.manager.originalDeposit = stored.deposit
       /\ \/ ui'.queued = e.queued
          \/ ui.tx = "confirmedOneShot" /\ Edits(v) /\ ui'.queued = transition(ui.view, "DEPOSIT_CONFIRMED")
          \/ ui.tx = "confirmedOneShot" /\ v = "ACTIVE" /\ ui'.queued = transition(ui.view, "REWARDS_CLAIMED")
  BY <1>10, <1>12 DEF Remounted
<1>15. ui.due =>
         \/ e.queued = v
         \/ ui.empty # ui.seenEmpty /\ ui.empty /\ e.queued = transition(ui.view, "DEPOSIT_EMPTIED")
         \/ ui.tx = "confirmedOneShot" /\ Edits(ui.view) /\ e.queued = transition(ui.ref, "DEPOSIT_CONFIRMED")
         \/ ui.tx = "confirmedOneShot" /\ ui.view = "ACTIVE" /\ e.queued = transition(ui.ref, "REWARDS_CLAIMED")
  BY <1>7, <1>10, QueuedCases
<1>16. Edits(v) /\ ui'.queued = "ACTIVE" => ui.tx # "waitingForConfirmation"
  <2> SUFFICES ASSUME Edits(v), ui'.queued = "ACTIVE", ui.tx = "waitingForConfirmation" PROVE FALSE
    OBVIOUS
  <2>1. e.queued = "ACTIVE"
    BY <1>14
  <2>2. e.queued \in {v, transition(ui.view, "DEPOSIT_EMPTIED")}
    BY <1>10, <1>15
  <2> QED
    BY <1>1, <2>1, <2>2, Transitions DEF Edits
<1>17. ui'.queued = "DEPOSITING" => v \in {"NONE", "DEPOSITING"}
  <2> SUFFICES ASSUME ui'.queued = "DEPOSITING", ui.view # "DEPOSITING" PROVE v \in {"NONE", "DEPOSITING"}
    BY <1>5
  <2>1. e.queued = "DEPOSITING"
    BY <1>1, <1>14, MoreTransitions
  <2>2. CASE e.queued = v
    BY <2>1, <2>2
  <2>3. CASE e.queued = transition(ui.view, "DEPOSIT_EMPTIED")
    BY <1>1, <2>1, <2>3, Transitions, MoreTransitions DEF View
  <2>4. CASE e.queued = transition(ui.ref, "DEPOSIT_CONFIRMED")
    BY <1>1, <2>1, <2>4, MoreTransitions
  <2>5. CASE ui.due /\ ui.tx = "confirmedOneShot" /\ ui.view = "ACTIVE" /\ e.queued = transition(ui.ref, "REWARDS_CLAIMED")
    BY <1>1, <2>1, <2>5, MoreTransitions DEF UiInv, Edits
  <2> QED
    BY <1>10, <1>15, <2>2, <2>3, <2>4, <2>5
<1>18. UiInv(ui)'
  <2>1. ui'.next = "confirmedOneShot" => ui'.tx = "waitingForConfirmation"
    BY <1>1, <1>14 DEF UiInv
  <2>2. UiInv(ui')
    BY <1>14, <1>16, <1>17, <2>1, QuietInv
  <2> QED
    BY <2>2 DEF UiInv, Mounts, Edits, Quiet
<1>19. StabilityTypes'
  <2>1. wanted' \in Change /\ excused' \in BOOLEAN
    BY <1>3 DEF ExcusedAfter, NoChange, Change
  <2> QED
    BY <1>3, <1>14, <2>1 DEF StabilityInv, StabilityTypes
<1>20. FlightInv'
  BY <1>1, <1>3, <1>14 DEF FlightInv, waiting
<1>21. ViewInv'
  <2> SUFFICES ASSUME ~excused', ui.empty PROVE ui'.queued \in {"NONE", "DEPOSITING"}
    BY <1>14 DEF ViewInv, Quiet
  <2>1. ~ExcusedAfter(ui, excused) /\ ~Overtakes /\ ~ConfirmedEmpty(c)
    BY <1>3, <1>13 DEF ExcusedAfter
  <2>2. ui.ref = ui.view /\ ~(ui.queued # ui.view /\ ui.queued = "NONE")
    BY <2>1 DEF Overtakes
  <2>3. v = "NONE" \/ ui.tx # "confirmedOneShot"
    BY <1>13, <2>1 DEF ConfirmedEmpty
  <2>4. ui'.queued = e.queued
    BY <1>14, <2>3 DEF Edits
  <2>5. CASE ~ui.due
    <3>1. ~excused /\ ui.seenEmpty
      BY <1>1, <2>1, <2>5 DEF ExcusedAfter, UiInv, Quiet
    <3>2. ui.queued \in {"NONE", "DEPOSITING"}
      BY <3>1 DEF StabilityInv, ViewInv
    <3>3. ui.view \in {"NONE", "DEPOSITING"}
      BY <1>1, <2>2, <3>2 DEF UiInv
    <3> QED
      BY <1>6, <1>10, <2>2, <2>4, <2>5, <3>3
  <2>6. CASE ui.due /\ ~ui.seenEmpty
    <3>1. e.queued = transition(ui.view, "DEPOSIT_EMPTIED")
      BY <1>7, <1>10, <2>6 DEF QueuedAfter
    <3> QED
      BY <1>1, <2>4, <3>1, Transitions
  <2>7. CASE ui.due /\ ui.seenEmpty
    <3>1. ui.empty = ui.seenEmpty
      BY <1>1, <2>7
    <3>2. ~excused /\ ~(ui.view # "NONE" /\ ui.tx = "confirmedOneShot" /\ ui.empty)
      BY <2>1, <2>7, <3>1 DEF ExcusedAfter, ConfirmedEmpty
    <3>3. ui.view \in {"NONE", "DEPOSITING"}
      BY <1>1, <2>7, <3>2 DEF StabilityInv, ViewInv, UiInv
    <3>4. e.queued = v
      BY <1>15, <2>7, <3>1, <3>2, <3>3 DEF Edits
    <3> QED
      BY <1>6, <2>2, <2>4, <3>3, <3>4
  <2> QED
    BY <2>5, <2>6, <2>7
<1>22. DepositInv'
  BY <1>3, <1>14 DEF StabilityInv, DepositInv
<1>23. WantedInv'
  BY <1>3 DEF WantedInv, Definite
<1>24. OnceInv'
  <2>1. ~Leftover' /\ ~OffersDeposit(ui.manager)'
    <3>1. ui'.manager \in AnyManager
      BY <1>14 DEF Ui
    <3>2. ~OffersDeposit(ui'.manager)
      <4>1. ui'.manager.mounted => ui'.manager.originalDeposit.currentHCHF \in Nat /\ ui'.manager.editedHCHF \in Nat
        BY <3>1, ManagerFields, DepositFields
      <4> QED
        BY <1>14, <4>1 DEF Offers, OffersDeposit
    <3> QED
      BY <1>14, <3>2 DEF Leftover, Offers, OffersDeposit
  <2> QED
    BY <1>3, <2>1 DEF StabilityInv, OnceInv
<1> QED
  BY <1>18, <1>19, <1>20, <1>21, <1>22, <1>23, <1>24 DEF StabilityInv

LEMMA RenderOK ==
    ASSUME StabilityInv, Render
    PROVE  StabilityInv'
<1> DEFINE c == Commit(ui, ui.queued, ui.next)
           empty == isEmpty(stored.deposit)
<1>1. ~ui.due /\ ui' = [c EXCEPT !.empty = empty] /\ UNCHANGED <<pool, stored, flight, wanted, done, excused>>
  BY DEF Render
<1>2. ui \in Ui /\ UiInv(ui) /\ FlightInv /\ WantedInv /\ OnceInv /\ ViewInv /\ stored \in Pool
      /\ ui.queued \in View /\ ui.next \in TxType /\ empty \in BOOLEAN /\ ui.empty \in BOOLEAN
  BY Typed DEF StabilityInv, isEmpty
<1>3. Committed(c, ui, ui.queued, ui.next)
  BY <1>2, CommitFields DEF UiInv
<1> HIDE DEF c, empty
<1>4. /\ ui.seenTx = ui.tx /\ ui.ref = ui.view /\ ui.seenEmpty = ui.empty
      /\ ui.next = "confirmedOneShot" => ui.tx = "waitingForConfirmation"
      /\ ui.tx # "confirmedOneShot" \/ ui.next # "confirmedOneShot"
      /\ Edits(ui.view) /\ ui.queued = "ACTIVE" => ui.tx # "waitingForConfirmation"
      /\ ui.queued = "DEPOSITING" => ui.view \in {"NONE", "DEPOSITING"}
      /\ ui.manager.mounted => ui.manager.subscribed
  BY <1>1, <1>2 DEF UiInv, Quiet
<1>5. /\ ui' \in Ui /\ Mounts(ui') /\ ui'.view = ui.queued /\ ui'.queued = ui.queued /\ ui'.ref = ui.view
      /\ ui'.empty = empty /\ ui'.seenEmpty = ui.empty /\ ui'.tx = ui.next /\ ui'.next = ui.next
      /\ ui'.seenTx \in {"unseen", ui.tx} /\ ui'.due = TRUE /\ ui'.manager = ManagerIn(ui, ui.queued)
      /\ SameForm(ui'.shown, ui'.manager)
  <2>1. /\ c \in Ui /\ Mounts(c) /\ c.view = ui.queued /\ c.queued = ui.queued /\ c.ref = ui.view
        /\ c.seenEmpty = ui.empty /\ c.tx = ui.next /\ c.next = ui.next
        /\ c.seenTx \in {"unseen", ui.tx} /\ c.due = TRUE /\ c.manager = ManagerIn(ui, ui.queued)
        /\ SameForm(c.shown, c.manager)
    BY <1>3, <1>4 DEF Committed
  <2> DEFINE m == ManagerIn(ui, ui.queued)
  <2> HIDE DEF m
  <2>2. /\ ui' \in Ui /\ ui'.view = c.view /\ ui'.queued = c.queued /\ ui'.ref = c.ref
        /\ ui'.empty = empty /\ ui'.seenEmpty = c.seenEmpty /\ ui'.tx = c.tx /\ ui'.next = c.next
        /\ ui'.seenTx = c.seenTx /\ ui'.due = c.due /\ ui'.manager = c.manager /\ ui'.shown = c.shown
    BY <1>1, <1>2, <2>1 DEF Ui
  <2>3. Mounts(ui')
    BY <2>1, <2>2 DEF Mounts
  <2>4. SameForm(ui'.shown, ui'.manager)
    BY <2>1, <2>2
  <2> QED
    BY <2>1, <2>2, <2>3, <2>4
<1>6. UiInv(ui)'
  <2>1. UiInv(ui')
    BY <1>2, <1>4, <1>5 DEF UiInv
  <2> QED
    BY <2>1 DEF UiInv, Mounts, Edits, Quiet
<1>7. StabilityTypes' /\ FlightInv'
  BY <1>1, <1>2, <1>5 DEF StabilityInv, StabilityTypes, FlightInv, waiting
<1>8. ViewInv'
  BY <1>1, <1>2, <1>4, <1>5 DEF ViewInv
<1>9. (OffersDeposit(ui.manager) => OffersDeposit(ui.shown))'
  <2>1. OffersDeposit(ui'.manager) => OffersDeposit(ui'.shown)
    BY <1>5, SameOffers
  <2> QED
    BY <2>1 DEF OffersDeposit
<1>10. CASE ~Edits(ui.queued)
  <2>1. ~ui'.manager.mounted
    BY <1>5, <1>10 DEF Mounts
  <2>2. WantedInv' /\ DepositInv'
    BY <1>1, <1>5, <1>10, <2>1 DEF StabilityInv, WantedInv, DepositInv, Edits
  <2>3. OnceInv'
    BY <1>1, <1>2, <2>1 DEF OnceInv, Leftover, Offers, OffersDeposit
  <2> QED
    BY <1>6, <1>7, <1>8, <2>2, <2>3 DEF StabilityInv
<1>11. CASE Edits(ui.queued) /\ ~Edits(ui.view)
  <2>1. ui'.manager = init(stored)
    BY <1>5, <1>11 DEF ManagerIn
  <2>2. ui'.manager.originalDeposit = stored.deposit /\ ui'.manager.editedHCHF = stored.deposit.currentHCHF
        /\ stored.deposit.currentHCHF \in Nat
    BY <1>2, <2>1, InitFields, Typed, DepositFields
  <2>3. ~Definite
    BY <1>2, <1>11 DEF WantedInv
  <2>4. WantedInv' /\ DepositInv'
    BY <1>1, <1>5, <2>2, <2>3 DEF StabilityInv, WantedInv, DepositInv, Definite
  <2>5. ~Leftover' /\ ~OffersDeposit(ui.manager)'
    BY <2>2 DEF Leftover, Offers, OffersDeposit
  <2>6. OnceInv'
    BY <1>1, <1>2, <2>5 DEF OnceInv
  <2> QED
    BY <1>6, <1>7, <1>8, <2>4, <2>6 DEF StabilityInv
<1>12. CASE Edits(ui.queued) /\ Edits(ui.view)
  <2>1. ui'.manager = ui.manager /\ ui'.manager.mounted
    BY <1>2, <1>5, <1>12 DEF ManagerIn, UiInv, Mounts
  <2>2. ui.next \in waiting => flight # NoFlight
    BY <1>2 DEF FlightInv
  <2>3. WantedInv' /\ DepositInv'
    BY <1>1, <1>2, <1>5, <2>1, <2>2 DEF StabilityInv, WantedInv, DepositInv, Matches, Definite, PendingSoon, waiting, Edits
  <2>4. (Leftover' <=> Leftover) /\ (OffersDeposit(ui.manager)' <=> OffersDeposit(ui.manager))
        /\ (OnItsWay' <=> OnItsWay) /\ (JustConfirmed' <=> JustConfirmed) /\ (WillRevert' <=> WillRevert)
    BY <1>1, <1>5, <2>1 DEF Leftover, Offers, OffersDeposit, OnItsWay, JustConfirmed, WillRevert
  <2>5. isEmpty(stored.deposit) => ui'.empty
    BY <1>5 DEF empty
  <2>6. Leftover /\ done = "known" /\ ui'.tx = "confirmedOneShot" /\ ui'.empty /\ ~ui'.seenEmpty => WillRevert
    <3> SUFFICES ASSUME Leftover, done = "known", ui.next = "confirmedOneShot", isEmpty(stored.deposit), ~ui.empty
                 PROVE  WillRevert
      BY <1>5 DEF empty
    <3>1. JustConfirmed /\ ui.tx = "waitingForConfirmation"
      BY <1>4 DEF JustConfirmed
    <3>2. ui.manager.originalDeposit = stored.deposit
      BY <1>2, <3>1 DEF OnceInv
    <3>3. stored.deposit.initialHCHF = 0
      BY DEF isEmpty
    <3> QED
      BY <1>2, <3>1, <3>2, <3>3 DEF OnceInv, WillRevert
  <2>7. OnceInv'
    BY <1>1, <1>2, <1>5, <1>9, <2>1, <2>4, <2>5, <2>6 DEF OnceInv, isEmpty, Edits
  <2> QED
    BY <1>6, <1>7, <1>8, <2>3, <2>7 DEF StabilityInv
<1> QED
  BY <1>10, <1>11, <1>12

LEMMA ReportOK ==
    ASSUME StabilityInv, Report
    PROVE  StabilityInv'
<1> DEFINE m == ui.manager
           new == pool.deposit
           n == Heard(m)
<1>1. /\ stored' = pool /\ UNCHANGED <<pool, flight, wanted, excused>>
      /\ ui' = (IF m.subscribed THEN [ui EXCEPT !.manager = n] ELSE ui)
      /\ done' = (IF done = "executed" /\ m.subscribed /\ new # stored.deposit /\ Unheard THEN "known" ELSE done)
  BY DEF Report
<1>2. /\ ui \in Ui /\ UiInv(ui) /\ FlightInv /\ WantedInv /\ OnceInv /\ ViewInv /\ DepositInv
      /\ stored \in Pool /\ pool \in Pool /\ new \in Deposit /\ m \in AnyManager /\ wanted \in Change
      /\ m.mounted => m \in Manager /\ m.originalDeposit \in Deposit
                      /\ m.editedHCHF \in Nat /\ m.changePending \in BOOLEAN
  BY Typed DEF StabilityInv
<1>3. /\ new.currentHCHF \in Nat /\ new.initialHCHF \in Nat
      /\ new.collateralGain \in Nat /\ new.hlqtReward \in {0, 1}
  BY <1>2, DepositFields
<1>4. m.mounted => /\ m.originalDeposit.currentHCHF \in Nat /\ m.originalDeposit.initialHCHF \in Nat
                   /\ m.originalDeposit.collateralGain \in Nat /\ m.originalDeposit.hlqtReward \in {0, 1}
  BY <1>2, DepositFields
<1>5. \A d \in {pool.deposit, stored.deposit}' : d.currentHCHF <= d.initialHCHF
  BY <1>1, <1>2 DEF DepositInv
<1>6. m.subscribed \in BOOLEAN /\ (m.subscribed => m.mounted /\ m \in Manager)
  <2>1. CASE m = NoManager
    BY <2>1 DEF NoManager
  <2>2. CASE m \in Manager
    BY <2>2 DEF Manager
  <2> QED
    BY <1>2, <2>1, <2>2 DEF AnyManager
<1>8. OffersDeposit(m) => Leftover
  BY <1>2, <1>4 DEF OffersDeposit, Leftover, Offers
<1>9. CASE ~m.subscribed
  <2>1. UNCHANGED <<ui, done>>
    BY <1>1, <1>9
  <2>2. ~Leftover /\ ~OffersDeposit(m) /\ (m.mounted => ~Definite)
    BY <1>2, <1>8, <1>9 DEF OnceInv, WantedInv
  <2>3. StabilityTypes' /\ UiInv(ui)' /\ FlightInv' /\ ViewInv' /\ DepositInv'
    BY <1>1, <1>2, <1>5, <2>1 DEF StabilityInv, StabilityTypes, UiInv, Mounts, Quiet, FlightInv, ViewInv, DepositInv
  <2>4. WantedInv'
    BY <1>1, <1>2, <2>1, <2>2 DEF WantedInv, Definite
  <2>5. OnceInv'
    BY <1>1, <1>2, <2>1, <2>2 DEF OnceInv, Leftover, Offers, OffersDeposit, OnItsWay, JustConfirmed
  <2> QED
    BY <2>3, <2>4, <2>5 DEF StabilityInv
<1>10. CASE m.subscribed
  <2>1. m \in Manager /\ m.mounted
    BY <1>6, <1>10
  <2>2. /\ n \in Manager /\ n.subscribed = TRUE /\ n.mounted
        /\ new = stored.deposit => SameForm(n, m) /\ n.changePending = m.changePending
        /\ new # stored.deposit => Updated(n, m, new)
    <3>1. m.subscribed = TRUE
      BY <1>6, <1>10
    <3>2. /\ n \in Manager /\ n.subscribed = m.subscribed
          /\ new = stored.deposit => SameForm(n, m) /\ n.changePending = m.changePending
          /\ new # stored.deposit => Updated(n, m, new)
      BY <1>2, <2>1, HeardIs
    <3> HIDE DEF n
    <3> QED
      BY <3>1, <3>2 DEF Manager
  <2>3. ui' = [ui EXCEPT !.manager = n]
    BY <1>1, <1>10
  <2> HIDE DEF n
  <2>4. /\ ui' \in Ui /\ ui'.view = ui.view /\ ui'.queued = ui.queued /\ ui'.ref = ui.ref /\ ui'.empty = ui.empty
        /\ ui'.seenEmpty = ui.seenEmpty /\ ui'.tx = ui.tx /\ ui'.seenTx = ui.seenTx /\ ui'.next = ui.next
        /\ ui'.due = ui.due /\ ui'.manager = n /\ ui'.shown = ui.shown
    BY <1>2, <2>2, <2>3 DEF Ui, AnyManager
  <2>5. UiInv(ui)'
    <3>1. UiInv(ui')
      BY <1>2, <2>1, <2>2, <2>4 DEF UiInv, Mounts, Quiet
    <3> QED
      BY <3>1 DEF UiInv, Mounts, Quiet, Edits
  <2>6. done' \in {"no", "retyped", "executed", "known"}
    BY <1>1 DEF StabilityInv, StabilityTypes
  <2>7. StabilityTypes' /\ FlightInv' /\ ViewInv'
    BY <1>1, <2>4, <2>6 DEF StabilityInv, StabilityTypes, FlightInv, ViewInv, waiting
  <2>8. CASE new = stored.deposit
    <3>1. done' = done /\ stored'.deposit = stored.deposit
      BY <1>1, <2>8
    <3>2. /\ n.originalDeposit = m.originalDeposit /\ n.editedHCHF = m.editedHCHF /\ n.changePending = m.changePending
      BY <2>1, <2>2, <2>8 DEF SameForm
    <3>3. DepositInv'
      BY <1>1, <1>2, <1>5, <2>1, <2>4, <3>2 DEF DepositInv
    <3>4. WantedInv'
      BY <1>1, <1>2, <2>1, <2>2, <2>4, <3>2 DEF WantedInv, Matches, Definite, PendingSoon, Edits
    <3>5. (Leftover' <=> Leftover) /\ (OffersDeposit(ui.manager)' <=> OffersDeposit(m))
          /\ (OnItsWay' <=> OnItsWay) /\ (JustConfirmed' <=> JustConfirmed) /\ (WillRevert' <=> WillRevert)
      BY <1>1, <2>1, <2>2, <2>4, <3>1, <3>2 DEF Leftover, Offers, OffersDeposit, OnItsWay, JustConfirmed, WillRevert
    <3>6. OffersDeposit(ui.shown)' <=> OffersDeposit(ui.shown)
      BY <2>4 DEF OffersDeposit
    <3>7. OnceInv'
      BY <1>1, <1>2, <2>2, <2>4, <3>1, <3>2, <3>5, <3>6 DEF OnceInv, isEmpty, Edits
    <3> QED
      BY <2>5, <2>7, <3>3, <3>4, <3>7 DEF StabilityInv
  <2>9. CASE new # stored.deposit
    <3> DEFINE old == m.originalDeposit
               change == whatChanged(old, m.editedHCHF)
               committed == m.changePending /\ changeCommitted(old, new)
    <3>1. /\ n.originalDeposit = new
          /\ committed => n.editedHCHF = new.currentHCHF /\ ~n.changePending
          /\ ~committed => n.editedHCHF = apply(new, change) /\ n.changePending = m.changePending
      BY <2>2, <2>9 DEF Updated
    <3>2. /\ apply(new, change) \in Nat
          /\ m.editedHCHF = old.currentHCHF => apply(new, change) = new.currentHCHF
          /\ m.editedHCHF # old.currentHCHF =>
               \/ whatChanged(new, apply(new, change)) = change
               \/ /\ change.kind \in {"withdraw", "withdrawAll"}
                  /\ apply(new, change) = 0
                  /\ change.kind = "withdraw" => new.currentHCHF <= change.amount
      BY <1>2, <2>1, Carried
    <3>3. DepositInv'
      BY <1>1, <1>2, <1>5, <2>4, <3>1 DEF DepositInv
    <3>4. WantedInv'
      <4>1. Definite => ~committed
        <5>1. Definite /\ committed => LiquidatedFrom(new, old)
          BY <1>2, <2>1 DEF WantedInv, PendingSoon
        <5>2. LiquidatedFrom(new, old) => ~changeCommitted(old, new)
          BY <1>3, <1>4, <2>1 DEF LiquidatedFrom, changeCommitted
        <5> QED
          BY <5>1, <5>2
      <4>2. Definite => Matches(new, n.editedHCHF)
        <5> SUFFICES ASSUME Definite PROVE Matches(new, n.editedHCHF)
          OBVIOUS
        <5>1. n.editedHCHF = apply(new, change)
          BY <3>1, <4>1
        <5>2. Matches(old, m.editedHCHF)
          BY <1>2, <2>1 DEF WantedInv
        <5>3. CASE change = wanted
          <6>1. m.editedHCHF # old.currentHCHF
            BY <1>2, <2>1, <5>3, WhatChangedIs DEF Definite
          <6>2. new.currentHCHF <= new.currentHCHF
            BY <1>3
          <6> QED
            BY <3>2, <5>1, <5>3, <6>1, <6>2 DEF Matches
        <5>4. CASE /\ wanted.kind \in {"withdraw", "withdrawAll"}
                   /\ m.editedHCHF = 0
                   /\ wanted.kind = "withdraw" => old.currentHCHF <= wanted.amount
                   /\ new.currentHCHF <= old.currentHCHF
          <6>1. apply(new, change) = 0
            <7>1. CASE old.currentHCHF = 0
              BY <1>3, <3>2, <5>4, <7>1
            <7>2. CASE old.currentHCHF # 0
              <8>1. change.kind = "withdrawAll" /\ change \in Change
                BY <1>2, <1>4, <2>1, <5>4, <7>2, WhatChangedIs
              <8> QED
                BY <1>2, <8>1, ApplyIs
            <7> QED
              BY <7>1, <7>2
          <6>2. wanted.amount \in Nat
            BY <1>2 DEF Change
          <6>3. wanted.kind = "withdraw" => new.currentHCHF <= wanted.amount
            BY <1>3, <1>4, <2>1, <5>4, <6>2
          <6>4. new.currentHCHF <= new.currentHCHF
            BY <1>3
          <6> QED
            BY <5>1, <5>4, <6>1, <6>3, <6>4 DEF Matches
        <5> QED
          BY <5>2, <5>3, <5>4 DEF Matches
      <4>3. Definite' <=> Definite
        BY <1>1 DEF Definite
      <4>4. \A x, y : Matches(x, y) => Matches(x, y)'
        BY <1>1 DEF Matches
      <4>5. Definite' => Matches(ui.manager.originalDeposit, ui.manager.editedHCHF)'
        BY <2>4, <3>1, <4>2, <4>3, <4>4
      <4>6. ~Edits(ui'.view) /\ Edits(ui'.queued) => ~Definite'
        BY <1>2, <2>4, <4>3 DEF WantedInv
      <4>7. LiquidatedFrom(pool'.deposit, ui'.manager.originalDeposit)
        BY <1>1, <1>3, <2>4, <3>1 DEF LiquidatedFrom
      <4> QED
        BY <2>2, <2>4, <4>5, <4>6, <4>7 DEF WantedInv, Edits, LiquidatedFrom
    <3>5. /\ Leftover' => Leftover /\ ~committed
          /\ OffersDeposit(ui.manager)' => OffersDeposit(m)
      <4>1. Leftover' => n.editedHCHF # new.currentHCHF
        BY <2>4, <3>1 DEF Leftover, Offers
      <4>2. OffersDeposit(ui.manager)' => n.editedHCHF > new.currentHCHF
        BY <2>4, <3>1 DEF OffersDeposit
      <4>3. ~(n.editedHCHF = new.currentHCHF /\ n.editedHCHF > new.currentHCHF)
        BY <1>3
      <4>4. ~(m.editedHCHF > old.currentHCHF) => ~(apply(new, change) > new.currentHCHF)
        <5>1. ~(m.editedHCHF > old.currentHCHF) => change.kind # "deposit" /\ change \in Change
          BY <1>2, <1>4, <2>1, WhatChangedIs DEF NoChange
        <5> QED
          BY <1>2, <1>3, <3>2, <5>1, ApplyIs
      <4> QED
        BY <2>1, <3>1, <3>2, <4>1, <4>2, <4>3, <4>4 DEF Leftover, Offers, OffersDeposit
    <3>6. Leftover' => n.changePending = m.changePending /\ ~committed
      BY <3>1, <3>5
    <3>7. Leftover' /\ done' = "known" => done = "known"
      <4>1. ASSUME Leftover', done' = "known", done # "known" PROVE FALSE
        <5>1. done = "executed" /\ changeCommitted(old, new)
          BY <1>1, <4>1 DEF Unheard
        <5>2. OnItsWay
          BY <1>2, <5>1 DEF OnceInv, OnItsWay, NoFlight
        <5>3. m.changePending
          BY <1>2, <3>5, <4>1, <5>2 DEF OnceInv
        <5> QED
          BY <3>5, <4>1, <5>1, <5>3
      <4> QED
        BY <4>1
    <3>8. Leftover' => ~(m.changePending /\ WillRevert)
      <4>1. WillRevert => changeCommitted(old, new)
        BY DEF WillRevert, changeCommitted
      <4> QED
        BY <3>5, <4>1
    <3>9. ASSUME Leftover', done' = "executed" \/ JustConfirmed', new.initialHCHF = 0
          PROVE  FALSE
      <4>1. Leftover /\ ~committed
        BY <3>5, <3>9
      <4>2. CASE done' = "executed"
        <5>1. done = "executed" /\ ~changeCommitted(old, new)
          BY <1>1, <1>10, <2>1, <2>9, <4>2 DEF Unheard
        <5>2. old.initialHCHF = 0
          BY <3>9, <5>1 DEF changeCommitted
        <5> QED
          BY <1>2, <3>9, <4>1, <5>1, <5>2 DEF OnceInv
      <4>3. CASE JustConfirmed'
        <5>1. JustConfirmed
          BY <2>4, <3>7, <3>9, <4>3 DEF JustConfirmed
        <5>2. m.changePending
          BY <1>2, <4>1, <5>1 DEF OnceInv
        <5>3. old.initialHCHF = 0
          BY <3>9, <4>1, <5>2 DEF changeCommitted
        <5> QED
          BY <1>2, <3>9, <4>1, <5>1, <5>3 DEF OnceInv
      <4> QED
        BY <3>9, <4>2, <4>3
    <3>10. ui'.manager.originalDeposit = stored'.deposit /\ ui'.manager.originalDeposit = new
      BY <1>1, <2>4, <3>1
    <3>11. /\ OnItsWay' <=> OnItsWay
           /\ JustConfirmed' /\ Leftover' => JustConfirmed
           /\ OffersDeposit(ui.shown)' <=> OffersDeposit(ui.shown)
      <4>1. OnItsWay' <=> OnItsWay
        BY <1>1 DEF OnItsWay
      <4> QED
        BY <2>4, <3>7, <4>1 DEF JustConfirmed, OffersDeposit
    <3>12. ui.due /\ m.mounted => Edits(ui.queued)
      BY <1>2 DEF UiInv, Mounts
    <3> HIDE DEF old, change, committed, m, new
    <3>13. done' = "executed" => done = "executed"
      BY <1>1
    <3>14. done' = "known" => flight = NoFlight \/ flight.fate = "executed"
      BY <1>1, <1>2 DEF OnceInv
    <3>15. Leftover' /\ done' = "known" /\ Edits(ui'.queued) =>
             /\ ui'.next # "failed" /\ ui'.tx # "failed"
             /\ ui'.manager.changePending
             /\ ui'.next = "confirmedOneShot"
      BY <1>2, <2>4, <3>5, <3>6, <3>7, <3>8 DEF OnceInv, m
    <3>16. Leftover' /\ done' = "known" /\ ui'.due /\ ui'.tx = "confirmedOneShot" /\ ui'.empty => ui'.seenEmpty
      BY <1>2, <2>1, <2>4, <3>5, <3>7, <3>8, <3>12 DEF OnceInv, m
    <3>17. Leftover' /\ OnItsWay' => ui'.manager.changePending
      BY <1>2, <2>4, <3>5, <3>6, <3>11 DEF OnceInv, m
    <3>18. Leftover' /\ JustConfirmed' => ui'.manager.changePending
      BY <1>2, <2>4, <3>5, <3>6, <3>11 DEF OnceInv, m
    <3>19. OffersDeposit(ui.manager)' => OffersDeposit(ui.shown)'
      BY <1>2, <3>5, <3>11 DEF OnceInv, m
    <3>20. OffersDeposit(ui.manager)' /\ OnItsWay' => flight'.change.kind = "deposit" /\ flight'.change.amount > 0
      BY <1>1, <1>2, <3>5, <3>11 DEF OnceInv, m
    <3>21. Leftover' /\ done' = "known" => flight' = NoFlight
      BY <1>1, <1>2, <3>5, <3>7 DEF OnceInv
    <3>22. Leftover' /\ (done' = "executed" \/ JustConfirmed') =>
             (ui'.manager.originalDeposit.initialHCHF = 0 => pool'.deposit.initialHCHF # 0)
      BY <1>1, <3>9, <3>10
    <3>23. Leftover' => ui'.manager.subscribed
      BY <2>2, <2>4
    <3>24. (done' = "executed" => flight'.fate = "executed") /\ (done' = "known" => flight' = NoFlight \/ flight'.fate = "executed")
      BY <1>1, <1>2, <3>13, <3>14 DEF OnceInv
    <3>25. OnceInv'
      BY <3>10, <3>15, <3>16, <3>17, <3>18, <3>19, <3>20, <3>21, <3>22, <3>23, <3>24 DEF OnceInv, Edits
    <3> QED
      BY <2>5, <2>7, <3>3, <3>4, <3>25 DEF StabilityInv
  <2> QED
    BY <2>8, <2>9
<1> QED
  BY <1>9, <1>10

\* The change that a button of the page sends.
LEMMA SendOK ==
    ASSUME StabilityInv, Send \/ Claim
    PROVE  StabilityInv'
<1>1. CASE Claim
  <2>1. NoChange \in Change
    BY DEF NoChange, Change
  <2>2. ~OffersDeposit(ui.shown)
    BY <1>1 DEF Claim, StabilityInv, UiInv, Mounts, Edits, OffersDeposit
  <2> QED
    BY <1>1, <2>1, <2>2, SentOK DEF Claim
<1>2. CASE Send
  <2> DEFINE change == whatChanged(ui.shown.originalDeposit, ui.shown.editedHCHF)
  <2>1. Edits(ui.view) /\ Sent(change)
    <3>1. PICK b \in BOOLEAN :
            LET c == validateStabilityDepositChange(
                       ui.shown.originalDeposit, ui.shown.editedHCHF,
                       [hchfBalance |-> ui.shown.hchfBalance, haveUndercollateralizedTroves |-> b])
            IN  c # NoChange /\ Sent(c)
      BY <1>2 DEF Send
    <3>2. validateStabilityDepositChange(
            ui.shown.originalDeposit, ui.shown.editedHCHF,
            [hchfBalance |-> ui.shown.hchfBalance, haveUndercollateralizedTroves |-> b]) \in {NoChange, change}
      BY DEF validateStabilityDepositChange
    <3> HIDE DEF change
    <3> QED
      BY <1>2, <3>1, <3>2 DEF Send
  <2>2. ui.shown.mounted
    BY <2>1 DEF StabilityInv, UiInv, Mounts
  <2>3. ui.shown.originalDeposit \in Deposit /\ ui.shown.editedHCHF \in Nat
    BY <2>2, Typed, ManagerFields
  <2>4. ui.shown.originalDeposit.currentHCHF \in Nat
    BY <2>3, DepositFields
  <2>5. change \in Change
    BY <2>3, WhatChangedIs
  <2>6. OffersDeposit(ui.shown) => change.kind = "deposit" /\ change.amount > 0
    BY <2>3, <2>4, WhatChangedIs DEF OffersDeposit
  <2> HIDE DEF change
  <2> QED
    BY <2>1, <2>5, <2>6, SentOK
<1> QED
  BY <1>1, <1>2

LEMMA InitOK ==
    ASSUME Init
    PROVE  StabilityInv
<1>1. PICK c \in 0 .. Balance :
        pool = [deposit |-> [initialHCHF |-> c, currentHCHF |-> c, collateralGain |-> 0, hlqtReward |-> 0],
                hchfBalance |-> Balance - c]
  BY DEF Init
<1>2. c \in Nat /\ Balance - c \in Nat
  BY StabilityAssumption
<1>3. pool \in Pool /\ pool.deposit.currentHCHF = c /\ pool.deposit.initialHCHF = c
  BY <1>1, <1>2 DEF Pool, Deposit
<1> DEFINE view == getInitialView(pool.deposit)
           empty == isEmpty(pool.deposit)
<1>4. view \in {"NONE", "ACTIVE"} /\ empty \in BOOLEAN /\ (empty => view = "NONE")
  BY DEF getInitialView, isEmpty
<1>5. /\ stored = pool /\ flight = NoFlight /\ wanted = NoChange /\ done = "no" /\ excused = FALSE
      /\ ui = [view |-> view, queued |-> view, ref |-> view, empty |-> empty, seenEmpty |-> empty,
               tx |-> "idle", next |-> "idle", seenTx |-> "idle", due |-> FALSE,
               manager |-> NoManager, shown |-> NoManager]
  BY DEF Init
<1> HIDE DEF view, empty
<1>6. /\ ui \in Ui /\ ui.view = view /\ ui.queued = view /\ ui.ref = view /\ ui.empty = empty /\ ui.seenEmpty = empty
      /\ ui.tx = "idle" /\ ui.next = "idle" /\ ui.seenTx = "idle" /\ ui.due = FALSE /\ ui.manager = NoManager /\ ui.shown = NoManager
  BY <1>4, <1>5 DEF Ui, View, TxType, AnyManager
<1>7. ~ui.manager.mounted /\ ~ui.shown.mounted /\ ~Edits(ui.view)
  BY <1>4, <1>6 DEF NoManager, Edits
<1>8. StabilityTypes /\ FlightInv
  BY <1>3, <1>5, <1>6, FlightFields DEF StabilityTypes, FlightInv, NoChange, Change, waiting
<1>9. UiInv(ui) /\ ViewInv
  BY <1>4, <1>6, <1>7 DEF UiInv, Mounts, Quiet, ViewInv
<1>10. WantedInv /\ OnceInv
  BY <1>5, <1>6, <1>7 DEF WantedInv, OnceInv, Leftover, Offers, OffersDeposit, Definite
<1>11. DepositInv
  BY <1>2, <1>3, <1>5, <1>7 DEF DepositInv
<1> QED
  BY <1>8, <1>9, <1>10, <1>11 DEF StabilityInv

LEMMA StabilityStep ==
    ASSUME StabilityInv, [Next]_vars
    PROVE  StabilityInv'
<1>1. CASE UNCHANGED vars
  BY <1>1 DEF vars, StabilityInv, StabilityTypes, UiInv, Mounts, Quiet, FlightInv, WantedInv, Matches, Definite,
              PendingSoon, OnceInv, Leftover, Offers, OffersDeposit, OnItsWay, JustConfirmed, WillRevert,
              LiquidatedFrom, DepositInv, ViewInv, isEmpty
<1>2. ASSUME NEW newValue \in 0 .. Balance, Type(newValue)
      PROVE  StabilityInv'
  <2>1. newValue \in Nat
    BY StabilityAssumption
  <2> QED
    BY <1>2, <2>1, TypeStepOK
<1> QED
  BY <1>1, <1>2, LiquidateOK, ReportOK, RenderOK, RunEffectsOK, ClickOK, SendOK, RevertOK, ExecuteOK,
     ApprovedOK, RejectedOK, ReceiptOK, ExpireOK DEF Next

LEMMA DepositProperties ==
    ASSUME StabilityInv
    PROVE  DepositOfferedOnce /\ DepositOffersWhatWasWanted /\ DepositViewFits
<1>1. /\ UiInv(ui) /\ WantedInv /\ OnceInv /\ ViewInv /\ wanted \in Change
      /\ ui.manager.mounted => ui.manager \in Manager /\ ui.manager.originalDeposit \in Deposit
                               /\ ui.manager.editedHCHF \in Nat
  BY Typed DEF StabilityInv
<1>2. DepositOfferedOnce
  <2> SUFFICES ASSUME Settled, ui.shown.mounted, done = "known"
               PROVE  Offered = NoChange
    BY DEF DepositOfferedOnce
  <2>1. ~ui.due /\ ui.queued = ui.view /\ ui.next = ui.tx /\ ui.manager = ui.shown /\ stored = pool
    BY DEF Settled
  <2>2. Edits(ui.queued) /\ ui.manager.mounted
    BY <1>1, <2>1 DEF UiInv, Mounts
  <2>3. ui.next # "confirmedOneShot" /\ ~WillRevert
    BY <1>1, <2>1 DEF UiInv, WillRevert
  <2>4. ~Leftover
    BY <1>1, <2>2, <2>3 DEF OnceInv
  <2> QED
    BY <1>1, <2>1, <2>2, <2>4, WhatChangedIs DEF Leftover, Offers, Offered
<1>3. DepositOffersWhatWasWanted
  <2> SUFFICES ASSUME Settled, ui.shown.mounted, wanted # NoChange
               PROVE  \/ Offered = wanted
                      \/ /\ wanted.kind \in {"withdraw", "withdrawAll"}
                         /\ ui.shown.editedHCHF = 0
                         /\ wanted.kind = "withdraw" => Offered.amount <= wanted.amount
    BY DEF DepositOffersWhatWasWanted
  <2>1. ui.manager = ui.shown
    BY DEF Settled
  <2> DEFINE d == ui.shown.originalDeposit
  <2>2. d \in Deposit /\ d.currentHCHF \in Nat /\ wanted.amount \in Nat
    BY <1>1, <2>1, DepositFields DEF Change
  <2>3. Matches(d, ui.shown.editedHCHF)
    BY <1>1, <2>1 DEF WantedInv, Definite
  <2>4. CASE whatChanged(d, ui.shown.editedHCHF) = wanted
    BY <2>4 DEF Offered
  <2>5. CASE /\ wanted.kind \in {"withdraw", "withdrawAll"}
             /\ ui.shown.editedHCHF = 0
             /\ wanted.kind = "withdraw" => d.currentHCHF <= wanted.amount
    <3>1. Offered.amount = d.currentHCHF
      BY <2>2, <2>5 DEF Offered, whatChanged, NoChange
    <3> QED
      BY <2>5, <3>1
  <2> QED
    BY <2>3, <2>4, <2>5 DEF Matches
<1>4. DepositViewFits
  <2> SUFFICES ASSUME Settled, ~excused, isEmpty(stored.deposit) PROVE ui.view \in {"NONE", "DEPOSITING"}
    BY DEF DepositViewFits
  <2> QED
    BY <1>1 DEF Settled, UiInv, Quiet, ViewInv
<1> QED
  BY <1>2, <1>3, <1>4

LEMMA DepositPages == PagesSpec => []StabilityInv
<1>1. PagesInit => StabilityInv
  BY InitOK DEF PagesInit
<1>2. StabilityInv /\ [PagesNext]_allVars => StabilityInv'
  BY StabilityStep DEF PagesNext, allVars
<1> QED
  BY <1>1, <1>2, PTL DEF PagesSpec

\* A change of the deposit that was executed is not offered once more when the
\* page has settled, whatever liquidations and late reports come between, from
\* the moment that the transaction is shown as confirmed or that updateStore()
\* hears of a deposit that it can tell from the old one.  Nothing is said of a
\* transaction that is shown as failed before that, nor of what is typed while
\* the transaction is on its way.
THEOREM DepositOfferedOnceHolds == PagesSpec => []DepositOfferedOnce
BY DepositPages, DepositProperties, PTL

\* The form offers what the user typed, after any number of liquidations and
\* reports: apply(new, whatChanged(old, edited)) keeps the amount or clips it.
\* Nothing is said of what was typed while a transaction was on its way or a
\* change was pending, nor of what was sent over an unheard change of another.
THEOREM DepositOffersWhatWasWantedHolds == PagesSpec => []DepositOffersWhatWasWanted
BY DepositPages, DepositProperties, PTL

\* An empty deposit is not shown as an active one: DEPOSIT_EMPTIED reaches every
\* view, and what an effect queues is committed after what a click does.  The
\* exceptions, until the deposit is emptied or filled the next time, are those
\* of `excused`: a click between a commit and the effect that sets the ref or
\* over a queued NONE, and a confirmation answered over an empty deposit.
THEOREM DepositViewFitsHolds == PagesSpec => []DepositViewFits
BY DepositPages, DepositProperties, PTL

------------------------------------------------------------------------------
(* The stake: the inductive invariant.                                     *)

Stake == [stakedHLQT : Nat, collateralGain : Nat, hchfGain : Nat]
StakePool == [stake : Stake, hlqtBalance : Nat, executed : BOOLEAN]
Provider == [hlqtStake : Stake, changePending : BOOLEAN, adjusting : BOOLEAN]
StakeManager == [mounted : {TRUE}, subscribed : BOOLEAN, originalStake : Stake, editedLQTY : Nat,
                 hlqtBalance : Nat]
AnyStakeManager == StakeManager \cup {S!NoManager}
StakeView == {"NONE", "ACTIVE", "ADJUSTING"}
StakeChange == [kind : {"none", "stake", "unstake", "unstakeAll"}, amount : Nat]
StakeFlight == [change : StakeChange, fate : {"none", "sent", "executed", "reverted"}, signed : BOOLEAN]
StakeUi == [provider : Provider, shown : Provider, seen : Provider, view : StakeView, queued : StakeView,
            tx : TxType, next : TxType, seenTx : TxType, due : BOOLEAN,
            manager : AnyStakeManager, edits : AnyStakeManager]
StakingTypes ==
    /\ sPool \in StakePool /\ sStored \in StakePool
    /\ sUi \in StakeUi
    /\ sFlight \in StakeFlight
    /\ sWanted \in StakeChange
    /\ sMissed \in BOOLEAN

\* What the commits and their effects keep in step: of the page,
StakePageInv(u) ==
    /\ u.manager.mounted <=> u.view = "ADJUSTING"
    /\ u.edits.mounted <=> u.view = "ADJUSTING"
    /\ u.queued = S!View(u.seen)
    /\ ~u.due => u.seenTx = u.tx /\ u.seen = [u.shown EXCEPT !.changePending = FALSE]
    /\ u.provider.adjusting => u.shown.adjusting /\ u.seen.adjusting

\* and of the transaction's state.
StakeTxInv(u) ==
    /\ u.next = "confirmedOneShot" =>
         /\ u.seenTx = "waitingForConfirmation"
         /\ u.tx = "waitingForConfirmation" \/ (u.tx = "confirmedOneShot" /\ u.due)
    /\ u.next = "waitingForApproval" => u.tx = "waitingForApproval"
    /\ u.tx = "waitingForApproval" => u.seenTx = "waitingForApproval"
    /\ u.tx = "waitingForConfirmation" => u.next \notin {"idle", "waitingForApproval"}
    /\ u.next = "failed" => u.tx # "confirmedOneShot"

StakeUiInv(u) == StakePageInv(u) /\ StakeTxInv(u)

\* A transaction that is waited for is in flight; one in flight is waited for,
\* unless <TransactionMonitor> has replaced its state as that of the one before.
StakeFlightInv ==
    /\ sFlight = NoFlight <=> sFlight.fate = "none"
    /\ sUi.next \in waiting => sFlight.fate # "none"
    /\ sFlight.fate # "none" =>
         /\ sUi.next \notin {"failed", "confirmedOneShot"} /\ sUi.tx \notin {"failed", "confirmedOneShot"}
         /\ sUi.seenTx = "waitingForConfirmation" => sUi.tx = "waitingForConfirmation"
    /\ ~sStored.executed

\* The provider knows the stake of the store; a form that it wants has it too.
StakeWantedInv ==
    /\ sUi.provider.hlqtStake = sStored.stake
    /\ sUi.provider.adjusting =>
         IF sUi.manager.mounted
         THEN /\ sUi.manager.originalStake = sStored.stake
              /\ S!whatChanged(sUi.manager.originalStake, sUi.manager.editedLQTY) = sWanted
         ELSE sWanted = NoChange

\* A change that is pending will be ended by a report or by a failure.
PendingInv ==
    ~sMissed =>
      /\ sUi.provider.changePending =>
           \/ sFlight.fate \in {"sent", "reverted"} \/ sPool.executed
           \/ (sUi.next = "failed" /\ sUi.tx # "failed")
           \/ (sUi.tx = "failed" /\ sUi.due /\ sUi.seenTx # "failed")
      /\ sFlight.fate = "executed" /\ ~sPool.executed => sUi.seenTx = "waitingForConfirmation"

StakingInv == StakingTypes /\ StakeUiInv(sUi) /\ StakeFlightInv /\ StakeWantedInv /\ PendingInv
------------------------------------------------------------------------------
(* The stake: commits and their effects.                                   *)

LEMMA StakeManagerFields ==
    ASSUME NEW m \in AnyStakeManager
    PROVE  /\ m.mounted \in BOOLEAN
           /\ m.subscribed \in BOOLEAN
           /\ m.mounted => /\ m \in StakeManager /\ m.originalStake \in Stake /\ m.editedLQTY \in Nat
                           /\ m.hlqtBalance \in Nat
           /\ ~m.mounted => m = S!NoManager /\ ~m.subscribed
<1>1. CASE m \in StakeManager
  BY <1>1 DEF StakeManager
<1>2. CASE m = S!NoManager
  BY <1>2 DEF S!NoManager
<1> QED
  BY <1>1, <1>2 DEF AnyStakeManager

\* The same form, subscribed or not.
SameStakeForm(n, m) ==
    /\ n.mounted = m.mounted
    /\ m.mounted => n.originalStake = m.originalStake /\ n.editedLQTY = m.editedLQTY

LEMMA StakeSubscribedForm ==
    ASSUME NEW m \in StakeManager
    PROVE  LET n == [m EXCEPT !.subscribed = TRUE]
           IN  n \in StakeManager /\ SameStakeForm(n, m)
BY DEF StakeManager, SameStakeForm

\* What subscribing makes of the page u.
StakeSubscribed(e, u) ==
    /\ e \in StakeUi /\ e.provider = u.provider /\ e.shown = u.shown /\ e.seen = u.seen
    /\ e.view = u.view /\ e.queued = u.queued /\ e.tx = u.tx /\ e.next = u.next /\ e.seenTx = u.seenTx
    /\ SameStakeForm(e.manager, u.manager) /\ SameStakeForm(e.edits, u.edits)

LEMMA StakeSubscribeIs ==
    ASSUME NEW u \in StakeUi, u.manager.mounted <=> u.view = "ADJUSTING", u.edits.mounted <=> u.view = "ADJUSTING"
    PROVE  StakeSubscribed(S!Subscribe(u), u)
<1>1. u.manager \in AnyStakeManager /\ u.edits \in AnyStakeManager
  BY DEF StakeUi, AnyStakeManager
<1>2. CASE ~u.manager.mounted
  <2>1. S!Subscribe(u) = u
    BY <1>2 DEF S!Subscribe
  <2> QED
    BY <2>1 DEF StakeSubscribed, SameStakeForm
<1>3. CASE u.manager.mounted
  <2>1. u.manager \in StakeManager /\ u.edits \in StakeManager
    BY <1>1, <1>3, StakeManagerFields
  <2> DEFINE m == [u.manager EXCEPT !.subscribed = TRUE]
             n == [u.edits EXCEPT !.subscribed = TRUE]
             e == [u EXCEPT !.manager = m, !.edits = n]
  <2>2. m \in StakeManager /\ SameStakeForm(m, u.manager)
    BY <2>1, StakeSubscribedForm
  <2>3. n \in StakeManager /\ SameStakeForm(n, u.edits)
    BY <2>1, StakeSubscribedForm
  <2>4. S!Subscribe(u) = e
    BY <1>3 DEF S!Subscribe, StakeUi
  <2> HIDE DEF m, n
  <2>5. /\ e \in StakeUi /\ e.provider = u.provider /\ e.shown = u.shown /\ e.seen = u.seen
        /\ e.view = u.view /\ e.queued = u.queued /\ e.tx = u.tx /\ e.next = u.next /\ e.seenTx = u.seenTx
        /\ e.manager = m /\ e.edits = n
    BY <2>2, <2>3 DEF StakeUi, AnyStakeManager
  <2> HIDE DEF e
  <2> QED
    BY <2>2, <2>3, <2>4, <2>5 DEF StakeSubscribed
<1> QED
  BY <1>2, <1>3

\* One field of the provider's state.
LEMMA ProviderFields ==
    ASSUME NEW p \in Provider, NEW b \in BOOLEAN
    PROVE  /\ [p EXCEPT !.changePending = b] \in Provider
           /\ [p EXCEPT !.changePending = b].hlqtStake = p.hlqtStake
           /\ [p EXCEPT !.changePending = b].adjusting = p.adjusting
           /\ [p EXCEPT !.changePending = b].changePending = b
           /\ [p EXCEPT !.adjusting = b] \in Provider
           /\ [p EXCEPT !.adjusting = b].hlqtStake = p.hlqtStake
           /\ [p EXCEPT !.adjusting = b].adjusting = b
           /\ [p EXCEPT !.adjusting = b].changePending = p.changePending
           /\ p.hlqtStake \in Stake /\ p.changePending \in BOOLEAN /\ p.adjusting \in BOOLEAN
BY DEF Provider

\* The provider after an effect that depends on the transaction's type.
StakePendingAfter(u) ==
    IF u.tx # u.seenTx /\ u.tx \in waiting THEN TRUE
    ELSE IF u.tx # u.seenTx /\ u.tx = "failed" THEN FALSE
    ELSE u.provider.changePending

LEMMA TransactionEffectIs ==
    ASSUME NEW u \in StakeUi
    PROVE  S!TransactionEffect(u) = [u EXCEPT !.provider = [u.provider EXCEPT !.changePending = StakePendingAfter(u)]]
<1> DEFINE w(p) == [u EXCEPT !.provider = p]
           x(b) == [u.provider EXCEPT !.changePending = b]
<1>1. u.provider = x(u.provider.changePending)
  BY DEF StakeUi, Provider
<1>2. u = w(u.provider)
  BY DEF StakeUi
<1>3. u = w(x(u.provider.changePending))
  BY <1>1, <1>2
<1>4. waiting = S!waiting
  BY DEF waiting, S!waiting
<1>5. "failed" \notin waiting
  BY DEF waiting
<1>6. /\ u.tx = u.seenTx => S!TransactionEffect(u) = u
      /\ u.tx # u.seenTx /\ u.tx \in waiting => S!TransactionEffect(u) = w(x(TRUE))
      /\ u.tx # u.seenTx /\ u.tx \notin waiting /\ u.tx = "failed" => S!TransactionEffect(u) = w(x(FALSE))
      /\ u.tx # u.seenTx /\ u.tx \notin waiting /\ u.tx # "failed" => S!TransactionEffect(u) = u
  BY <1>4 DEF S!TransactionEffect, S!startChange, S!abortChange
<1> SUFFICES S!TransactionEffect(u) = w(x(StakePendingAfter(u)))
  OBVIOUS
<1> HIDE DEF w, x
<1> QED
  BY <1>3, <1>5, <1>6 DEF StakePendingAfter

\* The page that the effects of the page u leave behind.
StakeEnded(e, u) ==
    /\ e \in StakeUi /\ e.due = FALSE
    /\ e.view = u.view /\ e.queued = S!View(u.shown) /\ e.tx = u.tx /\ e.seenTx = u.tx
    /\ e.next = (IF u.tx = "confirmedOneShot" THEN "idle" ELSE u.next)
    /\ e.shown = u.shown /\ e.seen = [u.shown EXCEPT !.changePending = FALSE]
    /\ e.provider = [u.provider EXCEPT !.changePending = StakePendingAfter(u)]
    /\ SameStakeForm(e.manager, u.manager) /\ SameStakeForm(e.edits, u.edits)

LEMMA ViewOf ==
    ASSUME NEW p \in Provider
    PROVE  /\ S!View(p) \in StakeView
           /\ S!View([p EXCEPT !.changePending = FALSE]) = S!View(p)
           /\ S!View(p) = "ADJUSTING" <=> p.adjusting
<1> DEFINE q == [p EXCEPT !.changePending = FALSE]
<1>1. q.hlqtStake = p.hlqtStake /\ q.adjusting = p.adjusting
  BY ProviderFields
<1> HIDE DEF q
<1>2. S!View(q) = S!View(p)
  BY <1>1 DEF S!View
<1> QED
  BY <1>2 DEF S!View, StakeView, q

LEMMA StakeEffects ==
    ASSUME NEW u \in StakeUi, u.due, u.manager.mounted <=> u.view = "ADJUSTING",
           u.edits.mounted <=> u.view = "ADJUSTING", u.queued = S!View(u.seen)
    PROVE  StakeEnded(S!Effects(u), u)
<1> DEFINE s == S!Subscribe(u)
           p == [u.provider EXCEPT !.changePending = StakePendingAfter(u)]
           t == [s EXCEPT !.provider = p]
           seen == [u.shown EXCEPT !.changePending = FALSE]
           v == [t EXCEPT !.queued = S!View(u.shown)]
<1>0. u.provider \in Provider /\ u.shown \in Provider /\ u.seen \in Provider
  BY DEF StakeUi
<1>1. p \in Provider /\ seen \in Provider /\ S!View(u.shown) \in StakeView
  <2>1. StakePendingAfter(u) \in BOOLEAN
    BY <1>0 DEF StakePendingAfter, Provider
  <2> QED
    BY <1>0, <2>1, ProviderFields, ViewOf
<1>2. StakeSubscribed(s, u)
  BY StakeSubscribeIs
<1> HIDE DEF s
<1>3. S!TransactionEffect(s) = t
  <2>1. StakePendingAfter(s) = StakePendingAfter(u) /\ s \in StakeUi /\ s.provider = u.provider
    BY <1>2 DEF StakeSubscribed, StakePendingAfter
  <2> QED
    BY <2>1, TransactionEffectIs
<1> HIDE DEF p, seen
<1>4. /\ t \in StakeUi /\ t.provider = p /\ t.shown = u.shown /\ t.seen = u.seen
      /\ t.view = u.view /\ t.queued = u.queued /\ t.tx = u.tx /\ t.next = u.next /\ t.seenTx = u.seenTx
      /\ t.manager = s.manager /\ t.edits = s.edits
  BY <1>1, <1>2 DEF StakeUi, StakeSubscribed
<1> HIDE DEF t
<1>5. S!ViewEffect(t) = v
  <2>1. CASE seen # u.seen
    BY <1>4, <2>1 DEF S!ViewEffect, seen
  <2>2. CASE seen = u.seen
    <3>1. t.queued = S!View(u.shown)
      BY <1>0, <1>4, <2>2, ViewOf DEF seen
    <3>2. v = t
      BY <1>4, <3>1 DEF StakeUi
    <3> QED
      BY <1>4, <2>2, <3>2 DEF S!ViewEffect, seen
  <2> QED
    BY <2>1, <2>2
<1>6. /\ v \in StakeUi /\ v.provider = p /\ v.shown = u.shown
      /\ v.view = u.view /\ v.queued = S!View(u.shown) /\ v.tx = u.tx /\ v.next = u.next
      /\ v.manager = s.manager /\ v.edits = s.edits
  BY <1>1, <1>4 DEF StakeUi
<1> HIDE DEF v
<1> DEFINE n == IF u.tx = "confirmedOneShot" THEN "idle" ELSE u.next
           e == [v EXCEPT !.seenTx = u.tx, !.seen = seen, !.due = FALSE, !.next = n]
<1>7. n \in TxType /\ u.tx \in TxType
  BY DEF TxType, StakeUi
<1>8. S!Effects(u) = e
  BY <1>3, <1>5, <1>6 DEF S!Effects, S!Ran, s, seen
<1> HIDE DEF n
<1>9. /\ e \in StakeUi /\ e.provider = p /\ e.shown = u.shown /\ e.seen = seen /\ e.seenTx = u.tx /\ e.due = FALSE
      /\ e.view = u.view /\ e.queued = S!View(u.shown) /\ e.tx = u.tx /\ e.next = n
      /\ e.manager = s.manager /\ e.edits = s.edits
  BY <1>1, <1>6, <1>7 DEF StakeUi
<1> HIDE DEF e
<1> QED
  BY <1>2, <1>8, <1>9 DEF StakeEnded, StakeSubscribed, n, p, seen

\* What holds when effects that may be due have run.
StakeSettled(e, u) ==
    /\ e \in StakeUi /\ StakePageInv(e) /\ e.due = FALSE
    /\ e.view = u.view /\ e.tx = u.tx
    /\ e.next = (IF u.due /\ u.tx = "confirmedOneShot" THEN "idle" ELSE u.next)
    /\ e.provider.hlqtStake = u.provider.hlqtStake /\ e.provider.adjusting = u.provider.adjusting
    /\ e.provider.changePending = StakePendingAfter(u)
    /\ SameStakeForm(e.manager, u.manager)

LEMMA StakeSettle ==
    ASSUME NEW u \in StakeUi, StakePageInv(u)
    PROVE  StakeSettled(S!Effects(u), u)
<1>0. u.provider \in Provider /\ u.shown \in Provider /\ u.seen \in Provider
  BY DEF StakeUi
<1>1. CASE ~u.due
  <2>1. S!Effects(u) = u
    BY <1>1 DEF S!Effects
  <2>2. StakePendingAfter(u) = u.provider.changePending
    BY <1>1 DEF StakePageInv, StakePendingAfter
  <2>3. u.due = FALSE
    BY <1>1 DEF StakeUi
  <2> QED
    BY <1>1, <2>1, <2>2, <2>3 DEF StakeSettled, SameStakeForm
<1>2. CASE u.due
  <2> DEFINE e == S!Effects(u)
             p == [u.provider EXCEPT !.changePending = StakePendingAfter(u)]
             s == [u.shown EXCEPT !.changePending = FALSE]
  <2>1. StakeEnded(e, u)
    BY <1>2, StakeEffects DEF StakePageInv
  <2> HIDE DEF e
  <2>2. StakePendingAfter(u) \in BOOLEAN
    BY <1>0 DEF StakePendingAfter, Provider
  <2>3. /\ p.hlqtStake = u.provider.hlqtStake /\ p.adjusting = u.provider.adjusting
        /\ p.changePending = StakePendingAfter(u)
        /\ s.adjusting = u.shown.adjusting /\ S!View(s) = S!View(u.shown)
    BY <1>0, <2>2, ProviderFields, ViewOf
  <2> HIDE DEF p
  <2>4. /\ e \in StakeUi /\ e.due = FALSE /\ e.provider = p /\ e.seen = s /\ e.shown = u.shown
        /\ e.view = u.view /\ e.queued = S!View(u.shown) /\ e.tx = u.tx /\ e.seenTx = u.tx
        /\ e.next = (IF u.tx = "confirmedOneShot" THEN "idle" ELSE u.next)
        /\ SameStakeForm(e.manager, u.manager) /\ SameStakeForm(e.edits, u.edits)
    BY <2>1 DEF StakeEnded, p
  <2>5. (e.manager.mounted <=> e.view = "ADJUSTING") /\ (e.edits.mounted <=> e.view = "ADJUSTING")
    BY <2>4 DEF SameStakeForm, StakePageInv
  <2>6. /\ e.queued = S!View(e.seen)
        /\ e.seen = [e.shown EXCEPT !.changePending = FALSE]
        /\ e.provider.adjusting => e.shown.adjusting /\ e.seen.adjusting
    BY <2>3, <2>4 DEF StakePageInv
  <2> HIDE DEF s
  <2>7. StakePageInv(e)
    BY <2>4, <2>5, <2>6 DEF StakePageInv
  <2> QED
    BY <1>2, <2>3, <2>4, <2>7 DEF StakeSettled, e
<1> QED
  BY <1>1, <1>2

StakeManagerIn(u, v) ==
    IF v # "ADJUSTING" THEN S!NoManager
    ELSE IF u.view = "ADJUSTING" THEN u.manager ELSE S!managerInit(sStored)

LEMMA ManagerInitFields ==
    ASSUME NEW s \in StakePool
    PROVE  /\ S!managerInit(s) \in StakeManager
           /\ S!managerInit(s).mounted
           /\ S!managerInit(s).originalStake = s.stake
           /\ S!managerInit(s).editedLQTY = s.stake.stakedHLQT
BY DEF S!managerInit, StakeManager, Stake, StakePool

\* What a commit makes of u.
StakeCommitted(c, u, v, t) ==
    /\ c \in StakeUi /\ c.view = v /\ c.queued = u.queued /\ c.tx = t /\ c.next = u.next
    /\ c.seenTx = u.seenTx /\ c.due = TRUE /\ c.provider = u.provider /\ c.shown = u.provider
    /\ c.seen = u.seen /\ c.manager = StakeManagerIn(u, v)
    /\ c.manager.mounted <=> v = "ADJUSTING"
    /\ c.edits.mounted <=> v = "ADJUSTING"

LEMMA StakeCommit ==
    ASSUME sStored \in StakePool, NEW u \in StakeUi, u.manager.mounted <=> u.view = "ADJUSTING",
           NEW v \in StakeView, NEW t \in TxType
    PROVE  StakeCommitted(S!Commit(u, v, t), u, v, t)
<1> DEFINE m == StakeManagerIn(u, v)
           c == [u EXCEPT !.view = v, !.manager = m, !.edits = m, !.shown = u.provider, !.tx = t, !.due = TRUE]
<1>1. S!Commit(u, v, t) = c
  BY DEF S!Commit, StakeManagerIn
<1>2. u.manager \in AnyStakeManager
  BY DEF StakeUi
<1>3. m \in AnyStakeManager /\ (m.mounted <=> v = "ADJUSTING")
  <2>1. CASE v # "ADJUSTING"
    BY <2>1 DEF StakeManagerIn, S!NoManager, AnyStakeManager
  <2>2. CASE v = "ADJUSTING" /\ u.view = "ADJUSTING"
    BY <2>2, <1>2 DEF StakeManagerIn
  <2>3. CASE v = "ADJUSTING" /\ u.view # "ADJUSTING"
    BY <2>3, ManagerInitFields DEF StakeManagerIn, AnyStakeManager
  <2> QED
    BY <2>1, <2>2, <2>3
<1> HIDE DEF m
<1>4. /\ c \in StakeUi /\ c.view = v /\ c.queued = u.queued /\ c.tx = t /\ c.next = u.next
      /\ c.seenTx = u.seenTx /\ c.due = TRUE /\ c.provider = u.provider /\ c.shown = u.provider
      /\ c.seen = u.seen /\ c.manager = m /\ c.edits = m
  BY <1>3 DEF StakeUi, AnyStakeManager
<1> HIDE DEF c
<1> QED
  BY <1>1, <1>3, <1>4 DEF StakeCommitted, m

LEMMA StakeCommitClick ==
    ASSUME sStored \in StakePool, NEW u \in StakeUi, u.manager.mounted <=> u.view = "ADJUSTING",
           u.edits.mounted <=> u.view = "ADJUSTING", NEW v \in StakeView, NEW t \in TxType
    PROVE  StakeCommitted(S!CommitClick(u, v, t), u, v, t)
<1> DEFINE c == S!Commit(u, v, t)
           b == u.edits.hlqtBalance
           k == [c EXCEPT !.edits.hlqtBalance = b]
<1>1. StakeCommitted(c, u, v, t)
  BY StakeCommit
<1>2. CASE ~(u.view = "ADJUSTING" /\ v = "ADJUSTING")
  BY <1>1, <1>2 DEF S!CommitClick
<1>3. CASE u.view = "ADJUSTING" /\ v = "ADJUSTING"
  <2>1. S!CommitClick(u, v, t) = k
    BY <1>3 DEF S!CommitClick
  <2> HIDE DEF c
  <2>2. u.edits \in AnyStakeManager /\ c.edits \in AnyStakeManager /\ c \in StakeUi
    BY <1>1 DEF StakeCommitted, StakeUi
  <2>3. b \in Nat /\ c.edits \in StakeManager
    BY <1>1, <1>3, <2>2, StakeManagerFields DEF StakeCommitted
  <2> HIDE DEF b
  <2> DEFINE d == [c.edits EXCEPT !.hlqtBalance = b]
  <2>4. d \in StakeManager /\ d.mounted
    BY <2>3 DEF StakeManager
  <2>5. k = [c EXCEPT !.edits = d]
    BY <2>2 DEF StakeUi
  <2> HIDE DEF d, k
  <2>6. /\ k \in StakeUi /\ k.provider = c.provider /\ k.shown = c.shown /\ k.seen = c.seen
        /\ k.view = c.view /\ k.queued = c.queued /\ k.tx = c.tx /\ k.next = c.next /\ k.seenTx = c.seenTx
        /\ k.due = c.due /\ k.manager = c.manager /\ k.edits = d
    BY <2>2, <2>4, <2>5 DEF StakeUi, AnyStakeManager
  <2> QED
    BY <1>1, <1>3, <2>1, <2>4, <2>6 DEF StakeCommitted
<1> QED
  BY <1>2, <1>3

\* A commit of the same view, with its effects.
StakeClicked(e, u, t) ==
    /\ e \in StakeUi /\ StakePageInv(e) /\ e.due = FALSE
    /\ e.view = u.view /\ e.tx = t
    /\ e.next = (IF t = "confirmedOneShot" THEN "idle" ELSE u.next)
    /\ e.provider.hlqtStake = u.provider.hlqtStake /\ e.provider.adjusting = u.provider.adjusting
    /\ e.provider.changePending = (IF t # u.tx THEN TRUE ELSE u.provider.changePending)
    /\ SameStakeForm(e.manager, u.manager)

LEMMA StakeClick ==
    ASSUME sStored \in StakePool, NEW u \in StakeUi, u.manager.mounted <=> u.view = "ADJUSTING",
           u.edits.mounted <=> u.view = "ADJUSTING", u.queued = S!View(u.seen), u.seenTx = u.tx,
           NEW t \in {u.tx, "waitingForApproval"}
    PROVE  StakeClicked(S!Effects(S!CommitClick(u, u.view, t)), u, t)
<1> DEFINE c == S!CommitClick(u, u.view, t)
<1>0. u.view \in StakeView /\ t \in TxType /\ u.provider \in Provider /\ u.manager \in AnyStakeManager
  BY DEF StakeUi, TxType, waiting
<1>1. StakeCommitted(c, u, u.view, t)
  BY <1>0, StakeCommitClick
<1> HIDE DEF c
<1>2. /\ c \in StakeUi /\ c.view = u.view /\ c.queued = u.queued /\ c.tx = t /\ c.next = u.next
      /\ c.seenTx = u.tx /\ c.due = TRUE /\ c.provider = u.provider /\ c.shown = u.provider
      /\ c.seen = u.seen /\ c.manager = StakeManagerIn(u, u.view)
      /\ c.manager.mounted <=> c.view = "ADJUSTING"
      /\ c.edits.mounted <=> c.view = "ADJUSTING"
  BY <1>1 DEF StakeCommitted
<1>3. c.manager = u.manager
  BY <1>0, <1>2, StakeManagerFields DEF StakeManagerIn
<1> DEFINE e == S!Effects(c)
           p == [u.provider EXCEPT !.changePending = StakePendingAfter(c)]
           s == [u.provider EXCEPT !.changePending = FALSE]
<1>4. StakeEnded(e, c)
  BY <1>2, StakeEffects
<1> HIDE DEF e
<1>5. StakePendingAfter(c) \in BOOLEAN /\ StakePendingAfter(c) = (IF t # u.tx THEN TRUE ELSE u.provider.changePending)
  BY <1>0, <1>2 DEF StakePendingAfter, Provider, waiting
<1>6. /\ p.hlqtStake = u.provider.hlqtStake /\ p.adjusting = u.provider.adjusting
      /\ p.changePending = StakePendingAfter(c)
      /\ s.adjusting = u.provider.adjusting /\ S!View(s) = S!View(u.provider)
  BY <1>0, <1>5, ProviderFields, ViewOf
<1> HIDE DEF p
<1>7. /\ e \in StakeUi /\ e.due = FALSE /\ e.provider = p /\ e.seen = s /\ e.shown = u.provider
      /\ e.view = u.view /\ e.queued = S!View(u.provider) /\ e.tx = t /\ e.seenTx = t
      /\ e.next = (IF t = "confirmedOneShot" THEN "idle" ELSE u.next)
      /\ SameStakeForm(e.manager, c.manager) /\ SameStakeForm(e.edits, c.edits)
  BY <1>2, <1>4 DEF StakeEnded, p
<1>8. (e.manager.mounted <=> e.view = "ADJUSTING") /\ (e.edits.mounted <=> e.view = "ADJUSTING")
  BY <1>2, <1>7 DEF SameStakeForm
<1>9. /\ e.queued = S!View(e.seen)
      /\ e.seen = [e.shown EXCEPT !.changePending = FALSE]
      /\ e.provider.adjusting => e.shown.adjusting /\ e.seen.adjusting
  BY <1>6, <1>7
<1> HIDE DEF s
<1>10. StakePageInv(e)
  BY <1>7, <1>8, <1>9 DEF StakePageInv
<1> QED
  BY <1>3, <1>5, <1>6, <1>7, <1>10 DEF StakeClicked, e, c

------------------------------------------------------------------------------
(* The stake: the steps.                                                   *)

LEMMA StakeFields ==
    ASSUME NEW p \in StakePool
    PROVE  /\ p.stake \in Stake /\ p.stake.stakedHLQT \in Nat /\ p.stake.collateralGain \in Nat
           /\ p.stake.hchfGain \in Nat /\ p.hlqtBalance \in Nat /\ p.executed \in BOOLEAN
BY DEF StakePool, Stake

LEMMA StakeChanges ==
    ASSUME NEW s \in Stake, NEW that \in Nat
    PROVE  /\ S!whatChanged(s, that) \in StakeChange
           /\ that = s.stakedHLQT => S!whatChanged(s, that) = NoChange
BY DEF S!whatChanged, StakeChange, NoChange, S!NoChange, Stake

LEMMA StakeApplies ==
    ASSUME NEW s \in Stake, NEW change \in StakeChange
    PROVE  /\ S!apply(s, change) \in Nat
           /\ change.kind = "stake" => S!apply(s, change) = s.stakedHLQT + change.amount
           /\ change.kind # "stake" => S!apply(s, change) <= s.stakedHLQT
BY DEF S!apply, StakeChange, S!NoChange, Stake

\* The names of Staking that mean the same as those of Stability.
LEMMA SameNames == S!waiting = waiting /\ S!NoChange = NoChange /\ S!NoFlight = NoFlight
BY DEF S!waiting, waiting, S!NoChange, NoChange, S!NoFlight, NoFlight

\* Effects are over: nothing that one decides is open.
StakeRests(u) ==
    /\ StakeTxInv(u)
    /\ u.next \in waiting => sFlight.fate # "none"
    /\ sFlight.fate # "none" =>
         u.next \notin {"failed", "confirmedOneShot"} /\ u.tx \notin {"failed", "confirmedOneShot"}
    /\ ~sMissed /\ u.provider.changePending =>
         \/ sFlight.fate \in {"sent", "reverted"} \/ sPool.executed
         \/ (u.next = "failed" /\ u.tx # "failed")
    /\ ~sMissed /\ sFlight.fate = "executed" /\ ~sPool.executed => u.tx = "waitingForConfirmation"

\* What holds of the page that effects, due or not, make of sUi.
LEMMA StakeEndedWell ==
    ASSUME StakingInv
    PROVE  StakeSettled(S!Effects(sUi), sUi) /\ StakeRests(S!Effects(sUi))
<1> DEFINE e == S!Effects(sUi)
<1>1. sUi \in StakeUi /\ StakeUiInv(sUi) /\ StakeFlightInv /\ PendingInv /\ sUi.next \in TxType /\ sUi.tx \in TxType
  BY DEF StakingInv, StakingTypes, StakeUi
<1>2. StakeSettled(e, sUi)
  BY <1>1, StakeSettle DEF StakeUiInv
<1> HIDE DEF e
<1>3. /\ e.tx = sUi.tx /\ e.next = (IF sUi.due /\ sUi.tx = "confirmedOneShot" THEN "idle" ELSE sUi.next)
      /\ e.provider.changePending = StakePendingAfter(sUi)
      /\ e.seenTx = e.tx
  BY <1>2 DEF StakeSettled, StakePageInv
<1>4. StakeTxInv(e)
  BY <1>1, <1>3 DEF StakeUiInv, StakePageInv, StakeTxInv
<1>5. /\ e.next \in waiting => sFlight.fate # "none"
      /\ sFlight.fate # "none" =>
           e.next \notin {"failed", "confirmedOneShot"} /\ e.tx \notin {"failed", "confirmedOneShot"}
  BY <1>1, <1>3 DEF StakeFlightInv, waiting
<1>6. ~sMissed /\ sFlight.fate = "executed" /\ ~sPool.executed => e.tx = "waitingForConfirmation"
  BY <1>1, <1>3 DEF PendingInv, StakeFlightInv
<1>7. ASSUME ~sMissed, StakePendingAfter(sUi)
      PROVE  \/ sFlight.fate \in {"sent", "reverted"} \/ sPool.executed
             \/ (e.next = "failed" /\ e.tx # "failed")
  <2>1. CASE sUi.tx # sUi.seenTx /\ sUi.tx \in waiting
    <3>1. sUi.tx = "waitingForConfirmation" /\ sUi.next \in {"waitingForConfirmation", "failed", "confirmedOneShot"}
      BY <1>1, <2>1 DEF StakeUiInv, StakeTxInv, waiting, TxType
    <3>2. CASE sUi.next = "failed"
      BY <1>3, <3>1, <3>2
    <3>3. CASE sUi.next = "confirmedOneShot"
      BY <1>1, <2>1, <3>1, <3>3 DEF StakeUiInv, StakeTxInv
    <3>4. CASE sUi.next = "waitingForConfirmation"
      <4>1. sFlight.fate # "none" /\ sFlight.fate \in {"none", "sent", "executed", "reverted"}
        BY <1>1, <3>4 DEF StakeFlightInv, waiting, StakingInv, StakingTypes, StakeFlight
      <4> QED
        BY <1>1, <1>7, <2>1, <3>1, <4>1 DEF PendingInv
    <3> QED
      BY <3>1, <3>2, <3>3, <3>4
  <2>2. CASE ~(sUi.tx # sUi.seenTx /\ sUi.tx \in waiting)
    <3>1. sUi.provider.changePending /\ ~(sUi.tx # sUi.seenTx /\ sUi.tx = "failed")
      BY <1>7, <2>2 DEF StakePendingAfter
    <3>2. \/ sFlight.fate \in {"sent", "reverted"} \/ sPool.executed
          \/ (sUi.next = "failed" /\ sUi.tx # "failed")
      BY <1>1, <1>7, <3>1 DEF PendingInv
    <3>3. sUi.next = "failed" => sUi.tx # "confirmedOneShot"
      BY <1>1 DEF StakeUiInv, StakeTxInv
    <3> QED
      BY <1>3, <3>2, <3>3
  <2> QED
    BY <2>1, <2>2
<1> QED
  BY <1>2, <1>3, <1>4, <1>5, <1>6, <1>7 DEF StakeRests, e

\* The page of a step that has run its effects.
LEMMA StakeQuietInv ==
    ASSUME sUi' \in StakeUi, StakePageInv(sUi'), sUi'.due = FALSE, StakeRests(sUi)',
           sFlight' = NoFlight <=> sFlight'.fate = "none",
           ~sStored'.executed,
           sPool' \in StakePool, sStored' \in StakePool, sFlight' \in StakeFlight,
           sWanted' \in StakeChange, sMissed' \in BOOLEAN,
           StakeWantedInv'
    PROVE  StakingInv'
<1>1. StakeUiInv(sUi)'
  BY DEF StakeUiInv, StakePageInv, StakeRests, StakeTxInv, S!View, S!isEmpty
<1>2. sUi'.seenTx = sUi'.tx
  BY DEF StakePageInv
<1>3. StakingTypes' /\ StakeFlightInv'
  BY <1>2 DEF StakingTypes, StakeFlightInv, StakeRests
<1>4. PendingInv'
  BY <1>2 DEF PendingInv, StakeRests
<1> QED
  BY <1>1, <1>3, <1>4 DEF StakingInv

\* StakeRests of a page depends on its transaction and on what is pending.
LEMMA StakeRestsLike ==
    ASSUME NEW e, StakeRests(e), e.seenTx = e.tx, sUi'.tx = e.tx, sUi'.seenTx = e.tx,
           sUi'.next = (IF e.tx = "confirmedOneShot" THEN "idle" ELSE e.next),
           sUi'.provider.changePending = e.provider.changePending,
           UNCHANGED <<sPool, sFlight, sMissed>>
    PROVE  StakeRests(sUi)'
<1>1. StakeTxInv(sUi)'
  BY DEF StakeRests, StakeTxInv
<1> QED
  BY <1>1 DEF StakeRests, StakeTxInv, waiting

LEMMA StakeRunEffectsOK ==
    ASSUME StakingInv, S!RunEffects
    PROVE  StakingInv'
<1>1. sUi' = S!Effects(sUi) /\ UNCHANGED <<sPool, sStored, sFlight, sWanted, sMissed>>
  BY DEF S!RunEffects
<1>2. StakeSettled(sUi', sUi) /\ StakeRests(sUi')
  BY <1>1, StakeEndedWell
<1>3. StakeRests(sUi)'
  BY <1>1, <1>2 DEF StakeRests, StakeTxInv, waiting
<1>4. StakeWantedInv'
  <2>1. /\ sUi'.provider.hlqtStake = sUi.provider.hlqtStake /\ sUi'.provider.adjusting = sUi.provider.adjusting
        /\ sUi'.manager.mounted = sUi.manager.mounted
        /\ sUi.manager.mounted => /\ sUi'.manager.originalStake = sUi.manager.originalStake
                                  /\ sUi'.manager.editedLQTY = sUi.manager.editedLQTY
    BY <1>2 DEF StakeSettled, SameStakeForm
  <2> QED
    BY <1>1, <2>1 DEF StakingInv, StakeWantedInv, S!whatChanged, NoChange, S!NoChange
<1> QED
  BY <1>1, <1>2, <1>3, <1>4, StakeQuietInv DEF StakeSettled, StakingInv, StakingTypes, StakeFlightInv

\* A click that sets the provider's adjusting.
AdjustingClick(b) ==
    sUi' = S!Clicked([S!Effects(sUi) EXCEPT !.provider = [S!Effects(sUi).provider EXCEPT !.adjusting = b]])

LEMMA StakeAdjustingOK ==
    ASSUME StakingInv, NEW b \in BOOLEAN, AdjustingClick(b),
           UNCHANGED <<sPool, sStored, sFlight, sMissed>>,
           sWanted' \in StakeChange,
           b => ~sUi.manager.mounted /\ sWanted' = NoChange
    PROVE  StakingInv'
<1> DEFINE e == S!Effects(sUi)
           p == [e.provider EXCEPT !.adjusting = b]
           f == [e EXCEPT !.provider = p]
<1>1. StakeSettled(e, sUi) /\ StakeRests(e)
  BY StakeEndedWell
<1> HIDE DEF e
<1>2. /\ e \in StakeUi /\ StakePageInv(e) /\ e.due = FALSE /\ e.provider \in Provider /\ sStored \in StakePool
      /\ e.seenTx = e.tx
  BY <1>1 DEF StakeSettled, StakePageInv, StakeUi, StakingInv, StakingTypes
<1>3. p \in Provider /\ p.hlqtStake = e.provider.hlqtStake /\ p.adjusting = b /\ p.changePending = e.provider.changePending
  BY <1>2 DEF Provider
<1> HIDE DEF p
<1>4. /\ f \in StakeUi /\ f.view = e.view /\ f.queued = e.queued /\ f.tx = e.tx /\ f.next = e.next
      /\ f.seenTx = e.seenTx /\ f.seen = e.seen /\ f.provider = p /\ f.manager = e.manager /\ f.edits = e.edits
  BY <1>2, <1>3 DEF StakeUi
<1>5. sUi' = S!Effects(S!CommitClick(f, f.view, f.tx))
  BY DEF AdjustingClick, S!Clicked, e, p
<1> HIDE DEF f
<1>6. /\ f.manager.mounted <=> f.view = "ADJUSTING"
      /\ f.edits.mounted <=> f.view = "ADJUSTING"
      /\ f.queued = S!View(f.seen) /\ f.seenTx = f.tx
  BY <1>2, <1>4 DEF StakePageInv
<1>7. StakeClicked(sUi', f, f.tx)
  BY <1>2, <1>4, <1>5, <1>6, StakeClick
<1>8. /\ sUi' \in StakeUi /\ StakePageInv(sUi') /\ sUi'.due = FALSE /\ sUi'.tx = e.tx /\ sUi'.seenTx = e.tx
      /\ sUi'.next = (IF e.tx = "confirmedOneShot" THEN "idle" ELSE e.next)
      /\ sUi'.provider.hlqtStake = sUi.provider.hlqtStake /\ sUi'.provider.adjusting = b
      /\ sUi'.provider.changePending = e.provider.changePending
      /\ sUi'.manager.mounted = sUi.manager.mounted
  BY <1>1, <1>3, <1>4, <1>7 DEF StakeClicked, StakeSettled, SameStakeForm, StakePageInv
<1>9. StakeWantedInv'
  BY <1>8 DEF StakingInv, StakeWantedInv, NoChange
<1>10. StakeRests(sUi)'
  BY <1>1, <1>2, <1>8, StakeRestsLike
<1> QED
  BY <1>8, <1>9, <1>10, StakeQuietInv DEF StakingInv, StakingTypes, StakeFlightInv

LEMMA StartAdjustingOK ==
    ASSUME StakingInv, S!StartAdjusting
    PROVE  StakingInv'
<1>1. /\ sUi.view = "NONE" \/ sUi.view = "ACTIVE"
      /\ AdjustingClick(TRUE)
      /\ sWanted' = NoChange
      /\ UNCHANGED <<sPool, sStored, sFlight, sMissed>>
  BY SameNames DEF AdjustingClick, S!StartAdjusting, S!startAdjusting
<1>2. ~sUi.manager.mounted
  BY <1>1 DEF StakingInv, StakeUiInv, StakePageInv
<1>3. sWanted' \in StakeChange
  BY <1>1 DEF NoChange, StakeChange
<1> QED
  BY <1>1, <1>2, <1>3, StakeAdjustingOK

LEMMA CancelAdjustingOK ==
    ASSUME StakingInv, S!CancelAdjusting
    PROVE  StakingInv'
<1>1. /\ AdjustingClick(FALSE)
      /\ UNCHANGED <<sPool, sStored, sFlight, sWanted, sMissed>>
  BY DEF AdjustingClick, S!CancelAdjusting, S!cancelAdjusting
<1>2. sWanted' \in StakeChange
  BY <1>1 DEF StakingInv, StakingTypes
<1> QED
  BY <1>1, <1>2, StakeAdjustingOK

LEMMA SetStakeOK ==
    ASSUME StakingInv, NEW newValue \in Nat, S!SetStake(newValue)
    PROVE  StakingInv'
<1> DEFINE e == S!Effects(sUi)
           m == [e.manager EXCEPT !.editedLQTY = newValue]
           f == [e EXCEPT !.manager = m]
<1>1. StakeSettled(e, sUi) /\ StakeRests(e)
  BY StakeEndedWell
<1>2. /\ sUi.view = "ADJUSTING" /\ sUi' = S!Effects(S!CommitClick(f, f.view, f.tx))
      /\ sWanted' = S!whatChanged(e.manager.originalStake, newValue)
      /\ UNCHANGED <<sPool, sStored, sFlight, sMissed>>
  BY DEF S!SetStake, S!setStake, S!Clicked
<1> HIDE DEF e
<1>3. /\ e \in StakeUi /\ StakePageInv(e) /\ e.due = FALSE /\ e.view = "ADJUSTING" /\ sStored \in StakePool
      /\ e.manager \in AnyStakeManager /\ e.manager.mounted /\ e.seenTx = e.tx
  BY <1>1, <1>2 DEF StakeSettled, StakeUi, StakePageInv, StakingInv, StakingTypes
<1>4. e.manager \in StakeManager /\ e.manager.originalStake \in Stake
  BY <1>3, StakeManagerFields
<1>5. m \in StakeManager /\ m.mounted /\ m.originalStake = e.manager.originalStake /\ m.editedLQTY = newValue
  BY <1>4 DEF StakeManager
<1> HIDE DEF m
<1>6. /\ f \in StakeUi /\ f.view = e.view /\ f.queued = e.queued /\ f.tx = e.tx /\ f.next = e.next
      /\ f.seenTx = e.seenTx /\ f.seen = e.seen /\ f.provider = e.provider /\ f.manager = m /\ f.edits = e.edits
  BY <1>3, <1>5 DEF StakeUi, AnyStakeManager
<1> HIDE DEF f
<1>7. /\ f.manager.mounted <=> f.view = "ADJUSTING"
      /\ f.edits.mounted <=> f.view = "ADJUSTING"
      /\ f.queued = S!View(f.seen) /\ f.seenTx = f.tx
  BY <1>3, <1>5, <1>6 DEF StakePageInv
<1>8. StakeClicked(sUi', f, f.tx)
  BY <1>2, <1>3, <1>6, <1>7, StakeClick
<1>9. /\ sUi' \in StakeUi /\ StakePageInv(sUi') /\ sUi'.due = FALSE /\ sUi'.tx = e.tx /\ sUi'.seenTx = e.tx
      /\ sUi'.next = (IF e.tx = "confirmedOneShot" THEN "idle" ELSE e.next)
      /\ sUi'.provider.hlqtStake = sUi.provider.hlqtStake /\ sUi'.provider.adjusting = sUi.provider.adjusting
      /\ sUi'.provider.changePending = e.provider.changePending
      /\ sUi'.manager.mounted /\ sUi.manager.mounted
      /\ sUi'.manager.originalStake = sUi.manager.originalStake /\ sUi'.manager.editedLQTY = newValue
      /\ e.manager.originalStake = sUi.manager.originalStake
  BY <1>1, <1>3, <1>5, <1>6, <1>8 DEF StakeClicked, StakeSettled, SameStakeForm, StakePageInv
<1>10. sWanted' \in StakeChange
  BY <1>2, <1>4, StakeChanges
<1>11. StakeWantedInv'
  <2>1. sUi'.provider.hlqtStake = sStored'.stake
    BY <1>2, <1>9 DEF StakingInv, StakeWantedInv
  <2>2. sUi'.provider.adjusting => sUi'.manager.originalStake = sStored'.stake
    BY <1>2, <1>9 DEF StakingInv, StakeWantedInv
  <2>3. sWanted' = S!whatChanged(sUi'.manager.originalStake, sUi'.manager.editedLQTY)
    BY <1>2, <1>9
  <2> QED
    BY <1>9, <2>1, <2>2, <2>3 DEF StakeWantedInv, S!whatChanged, S!NoChange
<1>12. StakeRests(sUi)'
  BY <1>1, <1>2, <1>3, <1>9, StakeRestsLike
<1> QED
  BY <1>2, <1>9, <1>10, <1>11, <1>12, StakeQuietInv DEF StakingInv, StakingTypes, StakeFlightInv

LEMMA StakeSentOK ==
    ASSUME StakingInv, NEW change \in StakeChange, S!Sent(change)
    PROVE  StakingInv'
<1> DEFINE u == [sUi EXCEPT !.next = "waitingForApproval"]
           e == S!Effects(u)
<1>1. /\ sFlight = NoFlight /\ sUi.tx \notin waiting /\ sUi.next \notin waiting
      /\ sFlight' = [change |-> change, fate |-> "sent", signed |-> FALSE]
      /\ sUi' = S!Effects(S!CommitClick(e, e.view, "waitingForApproval"))
      /\ sMissed' = FALSE
      /\ UNCHANGED <<sPool, sStored, sWanted>>
  BY SameNames DEF S!Sent
<1>2. /\ u \in StakeUi /\ u.provider = sUi.provider /\ u.shown = sUi.shown /\ u.seen = sUi.seen
      /\ u.view = sUi.view /\ u.queued = sUi.queued /\ u.tx = sUi.tx /\ u.next = "waitingForApproval"
      /\ u.seenTx = sUi.seenTx /\ u.due = sUi.due /\ u.manager = sUi.manager /\ u.edits = sUi.edits
  BY DEF StakingInv, StakingTypes, StakeUi, TxType, waiting
<1> HIDE DEF u
<1>3. StakePageInv(u)
  BY <1>2 DEF StakingInv, StakeUiInv, StakePageInv
<1>4. StakeSettled(e, u)
  BY <1>2, <1>3, StakeSettle
<1> HIDE DEF e
<1>5. /\ e \in StakeUi /\ StakePageInv(e) /\ e.due = FALSE /\ e.seenTx = e.tx
      /\ e.next \in {"waitingForApproval", "idle"} /\ sStored \in StakePool
  BY <1>2, <1>4 DEF StakeSettled, StakePageInv, StakingInv, StakingTypes
<1>6. StakeClicked(sUi', e, "waitingForApproval")
  BY <1>1, <1>5, StakeClick DEF StakePageInv
<1>7. /\ sUi' \in StakeUi /\ StakePageInv(sUi') /\ sUi'.due = FALSE /\ sUi'.tx = "waitingForApproval"
      /\ sUi'.next \in {"waitingForApproval", "idle"}
      /\ sUi'.provider.hlqtStake = sUi.provider.hlqtStake /\ sUi'.provider.adjusting = sUi.provider.adjusting
      /\ SameStakeForm(sUi'.manager, sUi.manager)
  BY <1>2, <1>4, <1>5, <1>6 DEF StakeClicked, StakeSettled, SameStakeForm
<1>8. StakeWantedInv'
  BY <1>1, <1>7 DEF StakingInv, StakeWantedInv, SameStakeForm, S!whatChanged, S!NoChange, NoChange
<1>9. sFlight' \in StakeFlight /\ sFlight'.fate = "sent" /\ sFlight' # NoFlight
  BY <1>1 DEF NoFlight, StakeFlight
<1>10. StakeRests(sUi)'
  <2>1. sUi'.seenTx = "waitingForApproval"
    BY <1>7 DEF StakePageInv
  <2> QED
    BY <1>7, <1>9, <2>1 DEF StakeRests, StakeTxInv, waiting
<1> QED
  BY <1>1, <1>7, <1>8, <1>9, <1>10, StakeQuietInv DEF StakingInv, StakingTypes, StakeFlightInv

LEMMA StakeSendOK ==
    ASSUME StakingInv, S!Send \/ S!Claim
    PROVE  StakingInv'
<1>1. CASE S!Claim
  <2>1. S!NoChange \in StakeChange
    BY DEF S!NoChange, StakeChange
  <2> QED
    BY <1>1, <2>1, StakeSentOK DEF S!Claim
<1>2. CASE S!Send
  <2> DEFINE change == S!whatChanged(sUi.edits.originalStake, sUi.edits.editedLQTY)
  <2>1. S!Sent(change) /\ sUi.view = "ADJUSTING"
    BY <1>2 DEF S!Send
  <2>2. sUi.edits \in AnyStakeManager /\ sUi.edits.mounted
    BY <2>1 DEF StakingInv, StakingTypes, StakeUi, StakeUiInv, StakePageInv
  <2>3. change \in StakeChange
    BY <2>2, StakeManagerFields, StakeChanges
  <2> QED
    BY <2>1, <2>3, StakeSentOK
<1> QED
  BY <1>1, <1>2

LEMMA OthersPayOK ==
    ASSUME StakingInv, S!OthersPay
    PROVE  StakingInv'
<1>1. sPool \in StakePool /\ UNCHANGED <<sStored, sUi, sFlight, sWanted, sMissed>>
  BY DEF StakingInv, StakingTypes, S!OthersPay
<1>2. sPool.stake \in Stake /\ sPool.stake.collateralGain + 1 \in Nat /\ sPool.stake.hchfGain + 1 \in Nat
  BY <1>1, StakeFields
<1> DEFINE c(n) == [sPool.stake EXCEPT !.collateralGain = n]
           h(n) == [sPool.stake EXCEPT !.hchfGain = n]
<1>3. \A n \in Nat : c(n) \in Stake /\ h(n) \in Stake
  BY <1>2 DEF Stake
<1>4. \/ sPool' = [sPool EXCEPT !.stake = c(sPool.stake.collateralGain + 1)]
      \/ sPool' = [sPool EXCEPT !.stake = h(sPool.stake.hchfGain + 1)]
  BY DEF S!OthersPay
<1>5. PICK s \in Stake : sPool' = [sPool EXCEPT !.stake = s]
  <2> HIDE DEF c, h
  <2> QED
    BY <1>2, <1>3, <1>4
<1>6. sPool' \in StakePool /\ sPool'.executed = sPool.executed
  BY <1>1, <1>5 DEF StakePool
<1>7. StakingTypes' /\ StakeUiInv(sUi)' /\ StakeFlightInv' /\ StakeWantedInv' /\ PendingInv'
  BY <1>1, <1>6 DEF StakingInv, StakingTypes, StakeUiInv, StakePageInv, StakeTxInv, StakeFlightInv, StakeWantedInv, PendingInv,
                    S!View, S!isEmpty, S!whatChanged, S!NoChange
<1> QED
  BY <1>7 DEF StakingInv

\* What the store's report makes of the provider and the form.
LEMMA StakeUpdates ==
    ASSUME NEW p \in Provider, NEW new \in Stake
    PROVE  LET q == S!updateStore(p, new)
           IN  /\ q \in Provider /\ q.hlqtStake = new /\ q.adjusting = FALSE
               /\ q.changePending = (p.changePending /\ ~S!changeCommitted(p.hlqtStake, new))
<1> DEFINE b == p.changePending /\ ~S!changeCommitted(p.hlqtStake, new)
<1>1. b \in BOOLEAN
  OBVIOUS
<1>2. S!updateStore(p, new) = [p EXCEPT !.hlqtStake = new, !.adjusting = FALSE, !.changePending = b]
  BY DEF S!updateStore
<1> HIDE DEF b
<1> DEFINE q == [p EXCEPT !.hlqtStake = new, !.adjusting = FALSE, !.changePending = b]
<1>3. q \in Provider /\ q.hlqtStake = new /\ q.adjusting = FALSE /\ q.changePending = b
  BY <1>1 DEF Provider
<1> QED
  BY <1>2, <1>3 DEF b

LEMMA ManagerUpdates ==
    ASSUME NEW m \in StakeManager, NEW new \in Stake
    PROVE  S!managerUpdateStore(m, new) \in StakeManager
<1> DEFINE x == S!apply(new, S!whatChanged(m.originalStake, m.editedLQTY))
<1>1. m.originalStake \in Stake /\ m.editedLQTY \in Nat
  BY DEF StakeManager
<1>2. x \in Nat
  BY <1>1, StakeChanges, StakeApplies
<1>3. S!managerUpdateStore(m, new) = [m EXCEPT !.originalStake = new, !.editedLQTY = x]
  BY DEF S!managerUpdateStore
<1> HIDE DEF x
<1> QED
  BY <1>2, <1>3 DEF StakeManager

\* The form's balance.
LEMMA StakeHeard ==
    ASSUME sPool \in StakePool, NEW m \in StakeManager
    PROVE  S!Heard(m) \in StakeManager /\ SameStakeForm(S!Heard(m), m) /\ S!Heard(m).mounted
BY DEF S!Heard, StakeManager, SameStakeForm, StakePool

LEMMA StakeReportOK ==
    ASSUME StakingInv, S!Report
    PROVE  StakingInv'
<1> DEFINE old == sStored.stake
           new == sPool.stake
           heard == IF sUi.manager.subscribed THEN S!Heard(sUi.manager) ELSE sUi.manager
           p == S!updateStore(sUi.provider, new)
           m == IF sUi.manager.subscribed THEN S!Heard(S!managerUpdateStore(sUi.manager, new)) ELSE sUi.manager
<1>1. /\ sStored' = [sPool EXCEPT !.executed = FALSE] /\ sPool' = sStored' /\ UNCHANGED sFlight
      /\ sMissed' = (\/ sMissed
                     \/ sPool.executed /\ sFlight # NoFlight /\ sUi.seenTx # "waitingForConfirmation"
                     \/ sPool.executed /\ ~S!changeCommitted(old, new))
      /\ new = old => sUi' = [sUi EXCEPT !.manager = heard] /\ sWanted' = sWanted
      /\ new # old => /\ sUi' = [sUi EXCEPT !.provider = p, !.manager = m]
                      /\ sWanted' = (IF sUi'.provider.adjusting THEN sWanted ELSE NoChange)
  BY SameNames DEF S!Report
<1>2. /\ sUi \in StakeUi /\ StakeUiInv(sUi) /\ StakeFlightInv /\ StakeWantedInv /\ PendingInv
      /\ sPool \in StakePool /\ sStored \in StakePool /\ sMissed \in BOOLEAN /\ sWanted \in StakeChange
  BY DEF StakingInv, StakingTypes
<1>3. old \in Stake /\ new \in Stake /\ sUi.provider \in Provider /\ sUi.manager \in AnyStakeManager
  BY <1>2, StakeFields DEF StakeUi
<1>4. sStored' \in StakePool /\ sStored'.stake = new /\ sStored'.executed = FALSE /\ sMissed' \in BOOLEAN
  BY <1>1, <1>2 DEF StakePool
<1>5. ASSUME ~sMissed'
      PROVE  /\ ~sMissed
             /\ sPool.executed =>
                  /\ sFlight # NoFlight => sUi.seenTx = "waitingForConfirmation"
                  /\ S!changeCommitted(old, new)
  BY <1>1, <1>5
<1>6. ~S!changeCommitted(old, old)
  BY <1>3 DEF S!changeCommitted, Stake
<1>7. ~sMissed' /\ sFlight.fate = "executed" => sUi.seenTx = "waitingForConfirmation"
  BY <1>2, <1>5 DEF PendingInv, StakeFlightInv
<1>8. sUi.manager.subscribed => sUi.manager \in StakeManager
  BY <1>3, StakeManagerFields
<1>9. CASE new = old
  <2>1. heard \in AnyStakeManager /\ SameStakeForm(heard, sUi.manager)
    BY <1>2, <1>3, <1>8, StakeHeard DEF AnyStakeManager, SameStakeForm
  <2> HIDE DEF heard
  <2>2. /\ sUi' \in StakeUi /\ sUi'.provider = sUi.provider /\ sUi'.shown = sUi.shown /\ sUi'.seen = sUi.seen
        /\ sUi'.view = sUi.view /\ sUi'.queued = sUi.queued /\ sUi'.tx = sUi.tx /\ sUi'.next = sUi.next
        /\ sUi'.seenTx = sUi.seenTx /\ sUi'.due = sUi.due /\ sUi'.manager = heard /\ sUi'.edits = sUi.edits
    BY <1>1, <1>2, <1>9, <2>1 DEF StakeUi
  <2>3. ~sMissed' => ~sPool.executed
    BY <1>5, <1>6, <1>9
  <2>4. StakingTypes' /\ StakeFlightInv'
    BY <1>1, <1>4, <1>9, <2>2 DEF StakingInv, StakingTypes, StakeFlightInv
  <2>5. StakeUiInv(sUi)'
    <3>1. StakeUiInv(sUi')
      BY <1>2, <2>1, <2>2 DEF StakeUiInv, StakePageInv, StakeTxInv, SameStakeForm
    <3> QED
      BY <3>1 DEF StakeUiInv, StakePageInv, StakeTxInv, S!View, S!isEmpty
  <2>6. StakeWantedInv'
    BY <1>1, <1>2, <1>4, <1>9, <2>1, <2>2 DEF StakeWantedInv, SameStakeForm, S!whatChanged, S!NoChange, NoChange
  <2>7. PendingInv'
    BY <1>1, <1>2, <1>4, <1>5, <1>7, <2>2, <2>3 DEF PendingInv
  <2> QED
    BY <2>4, <2>5, <2>6, <2>7 DEF StakingInv
<1>10. CASE new # old
  <2>1. /\ sUi' = [sUi EXCEPT !.provider = p, !.manager = m]
        /\ sWanted' = (IF sUi'.provider.adjusting THEN sWanted ELSE NoChange)
    BY <1>1, <1>10
  <2>2. /\ p \in Provider /\ p.hlqtStake = new /\ p.adjusting = FALSE
        /\ p.changePending = (sUi.provider.changePending /\ ~S!changeCommitted(old, new))
    BY <1>2, <1>3, StakeUpdates DEF StakeWantedInv
  <2>3. m \in AnyStakeManager /\ m.mounted = sUi.manager.mounted
    <3>1. CASE ~sUi.manager.subscribed
      BY <1>3, <3>1
    <3>2. CASE sUi.manager.subscribed
      <4>1. sUi.manager \in StakeManager /\ sUi.manager.mounted = TRUE
        BY <1>8, <3>2 DEF StakeManager
      <4>2. S!managerUpdateStore(sUi.manager, new) \in StakeManager
        BY <1>3, <4>1, ManagerUpdates
      <4>3. m \in StakeManager
        BY <1>2, <3>2, <4>2, StakeHeard
      <4> QED
        BY <4>1, <4>3 DEF AnyStakeManager, StakeManager
    <3> QED
      BY <3>1, <3>2
  <2> HIDE DEF p, m
  <2>4. /\ sUi' \in StakeUi /\ sUi'.provider = p /\ sUi'.shown = sUi.shown /\ sUi'.seen = sUi.seen
        /\ sUi'.view = sUi.view /\ sUi'.queued = sUi.queued /\ sUi'.tx = sUi.tx /\ sUi'.next = sUi.next
        /\ sUi'.seenTx = sUi.seenTx /\ sUi'.due = sUi.due /\ sUi'.manager = m /\ sUi'.edits = sUi.edits
    BY <1>2, <2>1, <2>2, <2>3 DEF StakeUi
  <2>5. sWanted' = NoChange /\ sWanted' \in StakeChange
    BY <2>1, <2>2, <2>4 DEF NoChange, StakeChange
  <2>6. StakeUiInv(sUi)'
    <3>1. StakeUiInv(sUi')
      BY <1>2, <2>2, <2>3, <2>4 DEF StakeUiInv, StakePageInv, StakeTxInv
    <3> QED
      BY <3>1 DEF StakeUiInv, StakePageInv, StakeTxInv, S!View, S!isEmpty
  <2>7. StakingTypes' /\ StakeFlightInv'
    BY <1>1, <1>4, <2>4, <2>5 DEF StakingInv, StakingTypes, StakeFlightInv
  <2>8. StakeWantedInv'
    BY <1>4, <2>2, <2>4 DEF StakeWantedInv
  <2>9. PendingInv'
    BY <1>1, <1>2, <1>4, <1>5, <1>7, <2>2, <2>4 DEF PendingInv
  <2> QED
    BY <2>6, <2>7, <2>8, <2>9 DEF StakingInv
<1> QED
  BY <1>9, <1>10

LEMMA StakeRenderOK ==
    ASSUME StakingInv, S!Render
    PROVE  StakingInv'
<1>1. /\ ~sUi.due /\ sUi' = S!Commit(sUi, sUi.queued, sUi.next)
      /\ UNCHANGED <<sPool, sStored, sFlight, sWanted, sMissed>>
  BY DEF S!Render
<1>2. /\ sUi \in StakeUi /\ StakeUiInv(sUi) /\ StakeFlightInv /\ StakeWantedInv /\ PendingInv
      /\ sStored \in StakePool /\ sUi.queued \in StakeView /\ sUi.next \in TxType
      /\ sUi.provider \in Provider /\ sUi.seen \in Provider /\ sUi.provider.adjusting \in BOOLEAN
  BY DEF StakingInv, StakingTypes, StakeUi, Provider
<1>3. StakeCommitted(sUi', sUi, sUi.queued, sUi.next)
  BY <1>1, <1>2, StakeCommit DEF StakeUiInv, StakePageInv
<1>4. /\ sUi' \in StakeUi /\ sUi'.view = sUi.queued /\ sUi'.queued = sUi.queued /\ sUi'.tx = sUi.next
      /\ sUi'.next = sUi.next /\ sUi'.seenTx = sUi.seenTx /\ sUi'.due = TRUE
      /\ sUi'.provider = sUi.provider /\ sUi'.shown = sUi.provider
      /\ sUi'.seen = sUi.seen /\ sUi'.manager = StakeManagerIn(sUi, sUi.queued)
      /\ sUi'.manager.mounted <=> sUi.queued = "ADJUSTING"
      /\ sUi'.edits.mounted <=> sUi.queued = "ADJUSTING"
  BY <1>3 DEF StakeCommitted
<1>5. sUi.seenTx = sUi.tx
  BY <1>1, <1>2 DEF StakeUiInv, StakePageInv
<1>6. StakeUiInv(sUi)'
  <2>1. StakeUiInv(sUi')
    BY <1>1, <1>2, <1>4, <1>5 DEF StakeUiInv, StakePageInv, StakeTxInv
  <2> QED
    BY <2>1 DEF StakeUiInv, StakePageInv, StakeTxInv, S!View, S!isEmpty
<1>7. StakingTypes' /\ StakeFlightInv'
  <2>1. sFlight.fate # "none" /\ sUi.seenTx = "waitingForConfirmation" => sUi.next = "waitingForConfirmation"
    BY <1>2, <1>5 DEF StakeUiInv, StakeTxInv, StakeFlightInv, TxType, waiting
  <2> QED
    BY <1>1, <1>4, <2>1 DEF StakingInv, StakingTypes, StakeFlightInv
<1>8. StakeWantedInv'
  <2>1. sUi'.provider.hlqtStake = sStored'.stake
    BY <1>1, <1>2, <1>4 DEF StakeWantedInv
  <2>2. CASE ~sUi.provider.adjusting
    BY <1>4, <2>1, <2>2 DEF StakeWantedInv
  <2>3. CASE sUi.provider.adjusting
    <3>1. sUi.queued = "ADJUSTING"
      BY <1>2, <2>3, ViewOf DEF StakeUiInv, StakePageInv
    <3>2. CASE sUi.view = "ADJUSTING"
      <4>1. sUi'.manager = sUi.manager /\ sUi.manager.mounted
        BY <1>2, <1>4, <3>1, <3>2 DEF StakeManagerIn, StakeUiInv, StakePageInv
      <4> QED
        BY <1>1, <1>2, <1>4, <2>1, <2>3, <4>1 DEF StakeWantedInv, S!whatChanged, S!NoChange
    <3>3. CASE sUi.view # "ADJUSTING"
      <4>1. sUi'.manager = S!managerInit(sStored) /\ ~sUi.manager.mounted /\ sStored.stake \in Stake
        BY <1>2, <1>4, <3>1, <3>3, StakeFields DEF StakeManagerIn, StakeUiInv, StakePageInv
      <4>2. /\ sUi'.manager.mounted /\ sUi'.manager.originalStake = sStored.stake
            /\ sUi'.manager.editedLQTY = sStored.stake.stakedHLQT /\ sUi'.manager.editedLQTY \in Nat
        BY <1>2, <4>1, ManagerInitFields DEF Stake
      <4>3. S!whatChanged(sUi'.manager.originalStake, sUi'.manager.editedLQTY) = NoChange
        BY <4>1, <4>2, StakeChanges
      <4>4. sWanted' = NoChange
        BY <1>1, <1>2, <2>3, <4>1 DEF StakeWantedInv
      <4>5. sUi'.manager.originalStake = sStored'.stake
        BY <1>1, <4>2
      <4> QED
        BY <2>1, <4>2, <4>3, <4>4, <4>5 DEF StakeWantedInv, S!whatChanged, S!NoChange, NoChange
    <3> QED
      BY <3>2, <3>3
  <2> QED
    BY <1>2, <2>2, <2>3
<1>9. PendingInv'
  BY <1>1, <1>2, <1>4, <1>5 DEF PendingInv
<1> QED
  BY <1>6, <1>7, <1>8, <1>9 DEF StakingInv

LEMMA StakeExecuteOK ==
    ASSUME StakingInv, S!Execute
    PROVE  StakingInv'
<1> DEFINE s == sPool.stake
           new == S!apply(s, sFlight.change)
<1>1. sFlight.fate = "sent" /\ UNCHANGED <<sStored, sUi, sWanted, sMissed>>
  BY DEF S!Execute
<1>2. /\ sPool \in StakePool /\ s \in Stake /\ s.stakedHLQT \in Nat /\ sPool.hlqtBalance \in Nat
      /\ sFlight \in StakeFlight /\ sFlight.change \in StakeChange
  BY StakeFields DEF StakingInv, StakingTypes, StakeFlight
<1>3. StakeUiInv(sUi)' /\ StakeWantedInv'
  BY <1>1 DEF StakingInv, StakeUiInv, StakePageInv, StakeTxInv, StakeWantedInv, S!View, S!isEmpty, S!whatChanged, S!NoChange
<1>4. /\ sFlight' = [sFlight EXCEPT !.fate = "reverted"] \/ sFlight' = [sFlight EXCEPT !.fate = "executed"]
      /\ sFlight' = [sFlight EXCEPT !.fate = "reverted"] => UNCHANGED sPool
      /\ sFlight' = [sFlight EXCEPT !.fate = "executed"] =>
           /\ ~(sFlight.change.kind = "stake" /\ sFlight.change.amount > sPool.hlqtBalance)
           /\ sPool' = [stake |-> [stakedHLQT |-> new, collateralGain |-> 0, hchfGain |-> 0],
                        hlqtBalance |-> sPool.hlqtBalance + s.stakedHLQT - new, executed |-> TRUE]
  <2>1. [sFlight EXCEPT !.fate = "reverted"] # [sFlight EXCEPT !.fate = "executed"]
    BY <1>2 DEF StakeFlight
  <2> QED
    BY <2>1 DEF S!Execute
<1>5. CASE sFlight' = [sFlight EXCEPT !.fate = "reverted"]
  <2>1. sFlight' \in StakeFlight /\ sFlight'.fate = "reverted" /\ sFlight' # NoFlight
    BY <1>2, <1>5 DEF NoFlight, StakeFlight
  <2>2. StakingTypes' /\ StakeFlightInv' /\ PendingInv'
    BY <1>1, <1>3, <1>4, <1>5, <2>1 DEF StakingInv, StakingTypes, StakeFlightInv, PendingInv, waiting
  <2> QED
    BY <1>3, <2>2 DEF StakingInv
<1>6. CASE sFlight' = [sFlight EXCEPT !.fate = "executed"]
  <2>1. sFlight' \in StakeFlight /\ sFlight'.fate = "executed" /\ sFlight' # NoFlight
    BY <1>2, <1>6 DEF NoFlight, StakeFlight
  <2>2. /\ new \in Nat
        /\ sFlight.change.kind = "stake" => new = s.stakedHLQT + sFlight.change.amount
        /\ sFlight.change.kind # "stake" => new <= s.stakedHLQT
    BY <1>2, StakeApplies
  <2>3. sFlight.change.amount \in Nat
    BY <1>2 DEF StakeChange
  <2>4. sPool' = [stake |-> [stakedHLQT |-> new, collateralGain |-> 0, hchfGain |-> 0],
                  hlqtBalance |-> sPool.hlqtBalance + s.stakedHLQT - new, executed |-> TRUE]
    BY <1>4, <1>6
  <2> HIDE DEF new
  <2> DEFINE b == sPool.hlqtBalance + s.stakedHLQT - new
  <2>5. b \in Nat
    BY <1>2, <1>4, <1>6, <2>2, <2>3
  <2>6. sPool' = [stake |-> [stakedHLQT |-> new, collateralGain |-> 0, hchfGain |-> 0],
                  hlqtBalance |-> b, executed |-> TRUE]
    BY <2>4
  <2> HIDE DEF b
  <2>7. sPool' \in StakePool /\ sPool'.executed
    BY <2>2, <2>5, <2>6 DEF StakePool, Stake
  <2>8. StakingTypes' /\ StakeFlightInv' /\ PendingInv'
    BY <1>1, <1>3, <2>1, <2>7 DEF StakingInv, StakingTypes, StakeFlightInv, PendingInv, waiting
  <2> QED
    BY <1>3, <2>8 DEF StakingInv
<1> QED
  BY <1>4, <1>5, <1>6

\* Only `next` changes.
LEMMA StakeBecomes ==
    ASSUME sUi \in StakeUi, NEW t \in TxType, S!Becomes(t)
    PROVE  /\ sUi' \in StakeUi /\ sUi'.provider = sUi.provider /\ sUi'.shown = sUi.shown /\ sUi'.seen = sUi.seen
           /\ sUi'.view = sUi.view /\ sUi'.queued = sUi.queued /\ sUi'.tx = sUi.tx /\ sUi'.next = t
           /\ sUi'.seenTx = sUi.seenTx /\ sUi'.due = sUi.due /\ sUi'.manager = sUi.manager /\ sUi'.edits = sUi.edits
BY DEF StakeUi, S!Becomes

LEMMA StakeBecomesOK ==
    ASSUME StakingInv, NEW t \in TxType \ {"waitingForApproval"}, S!Becomes(t),
           t = "confirmedOneShot" => sUi.tx = "waitingForConfirmation" /\ sUi.seenTx = "waitingForConfirmation",
           t = "failed" => sUi.tx # "confirmedOneShot",
           t = "idle" => sUi.tx # "waitingForConfirmation",
           UNCHANGED <<sPool, sStored, sWanted, sMissed>>
    PROVE  StakeUiInv(sUi)' /\ StakeWantedInv'
<1>1. /\ sUi' \in StakeUi /\ sUi'.provider = sUi.provider /\ sUi'.shown = sUi.shown /\ sUi'.seen = sUi.seen
      /\ sUi'.view = sUi.view /\ sUi'.queued = sUi.queued /\ sUi'.tx = sUi.tx /\ sUi'.next = t
      /\ sUi'.seenTx = sUi.seenTx /\ sUi'.due = sUi.due /\ sUi'.manager = sUi.manager /\ sUi'.edits = sUi.edits
  BY StakeBecomes DEF StakingInv, StakingTypes
<1>2. StakeUiInv(sUi')
  BY <1>1 DEF StakingInv, StakeUiInv, StakePageInv, StakeTxInv
<1>3. StakeUiInv(sUi)'
  BY <1>2 DEF StakeUiInv, StakePageInv, StakeTxInv, S!View, S!isEmpty
<1>4. StakeWantedInv'
  BY <1>1 DEF StakingInv, StakeWantedInv, S!whatChanged, S!NoChange, NoChange
<1> QED
  BY <1>3, <1>4

LEMMA StakeApprovedOK ==
    ASSUME StakingInv, S!Approved
    PROVE  StakingInv'
<1>1. /\ sFlight # NoFlight /\ sFlight' = [sFlight EXCEPT !.signed = TRUE] /\ S!Becomes("waitingForConfirmation")
      /\ UNCHANGED <<sPool, sStored, sWanted, sMissed>>
  BY SameNames DEF S!Approved
<1>2. /\ sUi \in StakeUi /\ sFlight \in StakeFlight /\ sFlight.fate # "none"
      /\ sUi.next \notin {"failed", "confirmedOneShot"} /\ sUi.tx \notin {"failed", "confirmedOneShot"}
  BY <1>1 DEF StakingInv, StakingTypes, StakeFlightInv
<1>3. sFlight' \in StakeFlight /\ sFlight'.fate = sFlight.fate /\ sFlight' # NoFlight
  BY <1>1, <1>2 DEF StakeFlight, NoFlight
<1>4. StakeUiInv(sUi)' /\ StakeWantedInv'
  BY <1>1, <1>2, StakeBecomesOK DEF TxType, waiting
<1>5. /\ sUi' \in StakeUi /\ sUi'.provider = sUi.provider /\ sUi'.tx = sUi.tx /\ sUi'.next = "waitingForConfirmation"
      /\ sUi'.seenTx = sUi.seenTx /\ sUi'.due = sUi.due
  BY <1>1, <1>2, StakeBecomes DEF TxType, waiting
<1>6. StakingTypes' /\ StakeFlightInv' /\ PendingInv'
  BY <1>1, <1>2, <1>3, <1>5 DEF StakingInv, StakingTypes, StakeFlightInv, PendingInv
<1> QED
  BY <1>4, <1>6 DEF StakingInv

\* A transaction that is over, and shown as failed or as confirmed.
LEMMA StakeOverOK ==
    ASSUME StakingInv, sFlight # NoFlight, NEW t \in {"failed", "confirmedOneShot"}, S!Becomes(t),
           t = "confirmedOneShot" => sUi.seenTx = "waitingForConfirmation" /\ sFlight.fate = "executed",
           sFlight' = NoFlight, UNCHANGED <<sPool, sStored, sWanted, sMissed>>
    PROVE  StakingInv'
<1>1. /\ sUi \in StakeUi /\ t \in TxType /\ sFlight.fate # "none"
      /\ sUi.next \notin {"failed", "confirmedOneShot"} /\ sUi.tx \notin {"failed", "confirmedOneShot"}
      /\ sUi.seenTx = "waitingForConfirmation" => sUi.tx = "waitingForConfirmation"
  BY DEF StakingInv, StakingTypes, StakeFlightInv, TxType
<1>2. StakeUiInv(sUi)' /\ StakeWantedInv'
  BY <1>1, StakeBecomesOK
<1>3. /\ sUi' \in StakeUi /\ sUi'.provider = sUi.provider /\ sUi'.tx = sUi.tx /\ sUi'.next = t
      /\ sUi'.seenTx = sUi.seenTx /\ sUi'.due = sUi.due
  BY <1>1, StakeBecomes
<1>4. sFlight'.fate = "none" /\ sFlight' \in StakeFlight
  BY DEF NoFlight, NoChange, StakeChange, StakeFlight
<1>5. StakingTypes' /\ StakeFlightInv'
  BY <1>1, <1>3, <1>4 DEF StakingInv, StakingTypes, StakeFlightInv, waiting
<1>6. PendingInv'
  BY <1>1, <1>3, <1>4 DEF StakingInv, PendingInv
<1> QED
  BY <1>2, <1>5, <1>6 DEF StakingInv

LEMMA StakeRejectedOK ==
    ASSUME StakingInv, S!Rejected
    PROVE  StakingInv'
<1>1. /\ sFlight # NoFlight /\ sFlight' = NoFlight /\ S!Becomes("failed")
      /\ UNCHANGED <<sPool, sStored, sWanted, sMissed>>
  BY SameNames DEF S!Rejected
<1> QED
  BY <1>1, StakeOverOK

LEMMA StakeReceiptOK ==
    ASSUME StakingInv, S!Receipt
    PROVE  StakingInv'
<1>1. /\ sUi.seenTx = "waitingForConfirmation" /\ sFlight.fate \in {"executed", "reverted"}
      /\ sFlight' = NoFlight /\ UNCHANGED <<sPool, sStored, sWanted, sMissed>>
      /\ (sFlight.fate = "executed" /\ S!Becomes("confirmedOneShot")) \/ S!Becomes("failed")
  BY SameNames DEF S!Receipt
<1>2. sFlight # NoFlight
  BY <1>1 DEF NoFlight
<1> QED
  BY <1>1, <1>2, StakeOverOK

LEMMA StakeExpireOK ==
    ASSUME StakingInv, S!Expire
    PROVE  StakingInv'
<1>1. /\ sUi.next = "failed" /\ sUi.next = sUi.tx /\ S!Becomes("idle")
      /\ UNCHANGED <<sPool, sStored, sFlight, sWanted, sMissed>>
  BY DEF S!Expire
<1>2. sUi \in StakeUi /\ sFlight.fate = "none"
  BY <1>1 DEF StakingInv, StakingTypes, StakeFlightInv
<1>3. StakeUiInv(sUi)' /\ StakeWantedInv'
  BY <1>1, <1>2, StakeBecomesOK DEF TxType
<1>4. /\ sUi' \in StakeUi /\ sUi'.provider = sUi.provider /\ sUi'.tx = sUi.tx /\ sUi'.next = "idle"
      /\ sUi'.seenTx = sUi.seenTx /\ sUi'.due = sUi.due
  BY <1>1, <1>2, StakeBecomes DEF TxType
<1>5. StakingTypes' /\ StakeFlightInv' /\ PendingInv'
  BY <1>1, <1>2, <1>4 DEF StakingInv, StakingTypes, StakeFlightInv, PendingInv, waiting
<1> QED
  BY <1>3, <1>5 DEF StakingInv

LEMMA StakeInitOK ==
    ASSUME S!Init
    PROVE  StakingInv
<1>1. PICK n \in 0 .. Balance :
        sPool = [stake |-> [stakedHLQT |-> n, collateralGain |-> 0, hchfGain |-> 0],
                 hlqtBalance |-> Balance - n, executed |-> FALSE]
  BY DEF S!Init
<1>2. n \in Nat /\ Balance - n \in Nat
  BY StabilityAssumption
<1>3. sPool \in StakePool /\ sPool.stake \in Stake /\ ~sPool.executed
  BY <1>1, <1>2 DEF StakePool, Stake
<1> DEFINE p == S!init(sPool.stake)
           v == S!View(p)
<1>4. p \in Provider /\ p.hlqtStake = sPool.stake /\ p.changePending = FALSE /\ p.adjusting = FALSE
  BY <1>3 DEF S!init, Provider
<1>5. v \in StakeView /\ v # "ADJUSTING" /\ v = S!View(p)
  BY <1>4, ViewOf
<1>6. /\ sStored = sPool /\ sFlight = NoFlight /\ sWanted = NoChange /\ sMissed = FALSE
      /\ sUi = [provider |-> p, shown |-> p, seen |-> p, view |-> v, queued |-> v,
                tx |-> "idle", next |-> "idle", seenTx |-> "idle", due |-> FALSE,
                manager |-> S!NoManager, edits |-> S!NoManager]
  BY SameNames DEF S!Init
<1> HIDE DEF p, v
<1>7. /\ sUi \in StakeUi /\ sUi.provider = p /\ sUi.shown = p /\ sUi.seen = p /\ sUi.view = v /\ sUi.queued = v
      /\ sUi.tx = "idle" /\ sUi.next = "idle" /\ sUi.seenTx = "idle" /\ sUi.due = FALSE
      /\ sUi.manager = S!NoManager /\ sUi.edits = S!NoManager
  BY <1>4, <1>5, <1>6 DEF StakeUi, TxType, AnyStakeManager
<1>8. ~S!NoManager.mounted
  BY DEF S!NoManager
<1>12. p = [p EXCEPT !.changePending = FALSE]
  BY <1>4 DEF Provider
<1>9. StakingTypes /\ StakeFlightInv
  BY <1>3, <1>6, <1>7 DEF StakingTypes, StakeFlightInv, NoFlight, NoChange, StakeChange, StakeFlight, waiting
<1>10. StakeUiInv(sUi)
  BY <1>4, <1>5, <1>7, <1>8, <1>12 DEF StakeUiInv, StakePageInv, StakeTxInv
<1>11. StakeWantedInv /\ PendingInv
  BY <1>4, <1>6, <1>7, <1>9 DEF StakeWantedInv, PendingInv, NoFlight
<1> QED
  BY <1>9, <1>10, <1>11 DEF StakingInv

LEMMA StakingStep ==
    ASSUME StakingInv, [S!Next]_stakeVars
    PROVE  StakingInv'
<1>1. CASE UNCHANGED stakeVars
  BY <1>1 DEF stakeVars, StakingInv, StakingTypes, StakeUiInv, StakePageInv, StakeTxInv, StakeFlightInv, StakeWantedInv, PendingInv,
              S!View, S!isEmpty, S!whatChanged, S!NoChange
<1>2. ASSUME NEW newValue \in 0 .. Balance, S!SetStake(newValue)
      PROVE  StakingInv'
  <2>1. newValue \in Nat
    BY StabilityAssumption
  <2> QED
    BY <1>2, <2>1, SetStakeOK
<1> QED
  BY <1>1, <1>2, OthersPayOK, StakeReportOK, StakeRenderOK, StakeRunEffectsOK, StartAdjustingOK, CancelAdjustingOK,
     StakeSendOK, StakeExecuteOK, StakeApprovedOK, StakeRejectedOK, StakeReceiptOK, StakeExpireOK DEF S!Next

LEMMA StakeProperties ==
    ASSUME StakingInv
    PROVE  StakeOfferedOnce /\ StakeChangeEnds
<1>1. /\ sUi \in StakeUi /\ StakeUiInv(sUi) /\ StakeFlightInv /\ StakeWantedInv /\ PendingInv
      /\ sUi.shown \in Provider
  BY DEF StakingInv, StakingTypes, StakeUi
<1>2. ASSUME S!Settled
      PROVE  /\ ~sUi.due /\ sUi.queued = sUi.view /\ sUi.next = sUi.tx
             /\ sUi.manager = sUi.edits /\ sUi.provider = sUi.shown /\ sStored = sPool
  BY <1>2 DEF S!Settled
<1>3. StakeOfferedOnce
  <2> SUFFICES ASSUME S!Settled, sUi.view = "ADJUSTING"
               PROVE  /\ sUi.edits.originalStake = sStored.stake
                      /\ S!whatChanged(sUi.edits.originalStake, sUi.edits.editedLQTY) = sWanted
    BY DEF StakeOfferedOnce, S!StakeOfferedOnce
  <2>1. S!View([sUi.shown EXCEPT !.changePending = FALSE]) = "ADJUSTING"
    BY <1>1, <1>2 DEF StakeUiInv, StakePageInv
  <2>2. sUi.provider.adjusting
    BY <1>1, <1>2, <2>1, ViewOf
  <2> QED
    BY <1>1, <1>2, <2>2 DEF StakeWantedInv, StakeUiInv, StakePageInv
<1>4. StakeChangeEnds
  <2> SUFFICES ASSUME S!Settled, sUi.tx = "idle", sFlight = NoFlight, ~sMissed
               PROVE  ~sUi.shown.changePending
    BY SameNames DEF StakeChangeEnds, S!StakeChangeEnds
  <2>1. sFlight.fate = "none" /\ ~sPool.executed
    BY <1>1, <1>2 DEF StakeFlightInv
  <2> QED
    BY <1>1, <1>2, <2>1 DEF PendingInv
<1> QED
  BY <1>3, <1>4

LEMMA StakePages == PagesSpec => []StakingInv
<1>1. PagesInit => StakingInv
  BY StakeInitOK DEF PagesInit
<1>2. StakingInv /\ [PagesNext]_allVars => StakingInv'
  BY StakingStep DEF PagesNext, allVars
<1> QED
  BY <1>1, <1>2, PTL DEF PagesSpec

\* StakingManager offers, of the stake that the store knows, what was typed
\* since the store last told of a stake: updateStore() of the provider closes
\* the form with every new stake, though the form may have missed the report.
THEOREM StakeOfferedOnceHolds == PagesSpec => []StakeOfferedOnce
BY StakePages, StakeProperties, PTL

\* StakingViewProvider's changePending ends with its transaction.  The exceptions
\* are those of `missed`: a report of the execution that comes before the
\* provider has seen waitingForConfirmation, which makes the change pending once
\* more, and one that changeCommitted() does not recognise.
THEOREM StakeChangeEndsHolds == PagesSpec => []StakeChangeEnds
BY StakePages, StakeProperties, PTL
====
