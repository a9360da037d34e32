------------------------- MODULE HLiquityStoreProofs -------------------------
(***************************************************************************)
(* Theorems about HLiquityStore, for every set of fields, calls and        *)
(* listeners and every bound on versions.                                  *)
(*                                                                         *)
(* None of the properties is inductive by itself.  What the store shows is *)
(* real only because what the reads in flight may return is, and because   *)
(* the amount an approval carries is: ChainInv.  A listener is up to date  *)
(* between rounds only because within a round those already called, and    *)
(* those that subscribed in it, are: ListenerInv.                          *)
(***************************************************************************)
EXTENDS HLiquityStore, TLAPS

Approving == {"receipt", "approveRefresh", "optimistic"}

\* The relay lags the ledger; reads in flight and pending approvals carry values
\* the ledger has reached.
ChainInv ==
    /\ \A f \in Association : ledger[f] \in {0, 1}
    /\ \A f \in BaseField \ Association :
        /\ mirror[f] \in 1..ledger[f]
        /\ \A r \in Request : cand[r][f] \subseteq 1..ledger[f]
    /\ \A r \in Request : pc[r] \in Approving => amount[r] \in 1..ledger[target[r]]

\* The listeners a round has passed, and those it does not concern, have the
\* state of the store; those it still concerns are behind by the stateChange.
ListenerInv ==
    /\ ~loaded => base = DefaultState
    /\ derived = Derive(base)
    /\ \A l \in subscribed \ toNotify : seen[l] = Whole(base)
    /\ StateChangeSuffices

\* The part of the invariant about the store and its listeners alone.
StoreType ==
    /\ loaded \in BOOLEAN
    /\ onLoadedCalls \in Nat
    /\ base \in BaseState
    /\ derived \in {Derive(b) : b \in BaseState}
    /\ subscribed \subseteq Listener
    /\ toNotify \subseteq Listener
    /\ change \subseteq BaseField \cup DerivedField
    /\ seen \in [Listener -> {Whole(b) : b \in BaseState}]

StoreInv == StoreType /\ OnLoadedOnce /\ ListenerInv

\* The part about the network and the calls.
CallType ==
    /\ ledger \in BaseState
    /\ mirror \in BaseState
    /\ pc \in [Request -> Pc]
    /\ cand \in [Request -> [BaseField -> SUBSET Version]]
    /\ target \in [Request -> Allowance]
    /\ amount \in [Request -> Version]

IInv == TypeOK /\ ChainInv /\ ShowsRealValues /\ OnLoadedOnce /\ ListenerInv

LEMMA IInvParts == IInv <=> StoreInv /\ CallType /\ ChainInv /\ ShowsRealValues
  BY Zenon DEF IInv, StoreInv, StoreType, CallType, TypeOK

------------------------------------------------------------------------------
\* The values after _reduce(): the update's on its keys, the old ones elsewhere.
LEMMA ReduceValue ==
    ASSUME NEW b \in BaseState, NEW S \in SUBSET BaseField, NEW u \in [S -> Version]
    PROVE  /\ Reduce(b, u) \in BaseState
           /\ \A f \in BaseField : Reduce(b, u)[f] = IF f \in S THEN u[f] ELSE b[f]
           /\ Difference(b, u) \subseteq BaseField
           /\ \A f \in BaseField : Reduce(b, u)[f] # b[f] => f \in Difference(b, u)
  BY DEF Reduce, Replaces, Difference, BaseState

\* _update() keeps the store's invariant.
LEMMA UpdateStep ==
    ASSUME StoreInv, Idle, loaded, NEW S \in SUBSET BaseField, NEW u \in [S -> Version], Update(u)
    PROVE  StoreInv'
  <1>1. /\ base' \in BaseState
        /\ \A f \in BaseField : base'[f] # base[f] => f \in change'
        /\ Difference(base, u) \subseteq BaseField
    BY ReduceValue DEF Update, StoreInv, StoreType
  <1>2. StoreType'
    BY <1>1 DEF StoreInv, StoreType, Update, DerivedDifference
  <1>3. OnLoadedOnce'
    BY DEF StoreInv, OnLoadedOnce, Update
  <1>4. derived' = Derive(base') /\ derived = Derive(base)
    BY DEF Update, StoreInv, ListenerInv
  <1>5. \A l \in subscribed : seen[l] = Whole(base)
    BY DEF StoreInv, ListenerInv, Idle
  <1>6. ASSUME NEW l \in subscribed
        PROVE  Differs(seen[l], State') \subseteq change'
    BY <1>1, <1>4, <1>5 DEF Differs, State, Whole, Update, DerivedDifference
  <1>7. StateChangeSuffices'
    BY <1>6 DEF StateChangeSuffices, Update, State, Differs
  <1>8. QED
    BY <1>2, <1>3, <1>4, <1>7 DEF StoreInv, ListenerInv, Update

\* The first load keeps it too: whoever subscribes in onLoaded() is given the
\* loaded state, and everybody is notified of it.
LEMMA LoadStep ==
    ASSUME StoreInv, Idle, ~loaded, NEW state \in BaseState, Load(state)
    PROVE  StoreInv'
  <1>1. PICK mounted \in SUBSET (Listener \ subscribed) :
            /\ subscribed' = subscribed \cup mounted
            /\ seen' = [l \in Listener |-> IF l \in mounted THEN State' ELSE seen[l]]
    BY DEF Load
  <1>2. base' = state /\ derived' = Derive(state) /\ State' = Whole(state)
    BY DEF Load, State, Whole
  <1>3. \A l \in subscribed : seen[l] = Whole(base)
    BY DEF StoreInv, ListenerInv, Idle
  <1>4. StoreType'
    BY <1>1, <1>2 DEF StoreInv, StoreType, Load
  <1>5. OnLoadedOnce'
    BY DEF StoreInv, OnLoadedOnce, Load
  <1>6. StateChangeSuffices'
    <2> SUFFICES ASSUME NEW l \in toNotify' \cap subscribed',
                        seen'[l] # Whole(DefaultState)
                 PROVE  Differs(seen'[l], State') \subseteq change'
      BY DEF StateChangeSuffices, DefaultState, Whole, Derive, Differs
    \* before the load a subscribed listener has seen the defaults only
    <2>1. l \notin subscribed
      BY <1>1, <1>3 DEF StoreInv, StoreType, ListenerInv
    <2>2. seen'[l] = State'
      BY <1>1, <2>1
    <2>3. QED
      BY <2>2 DEF Differs
  <1>7. QED
    BY <1>2, <1>4, <1>5, <1>6 DEF StoreInv, ListenerInv, Load

LEMMA ApplyStep ==
    ASSUME StoreInv, Idle, NEW state \in BaseState, Apply(state)
    PROVE  StoreInv' /\ base' = state
  <1>1. CASE loaded
    <2>1. Update(state)
      BY <1>1 DEF Apply
    <2>2. base' = state
      <3>1. base \in BaseState /\ state \in [BaseField -> Version]
        BY DEF StoreInv, StoreType, BaseState
      <3>2. /\ Reduce(base, state) \in BaseState
            /\ \A f \in BaseField : Reduce(base, state)[f] = state[f]
        BY <3>1, ReduceValue
      <3>3. QED
        BY <2>1, <3>1, <3>2 DEF Update, BaseState
    <2>3. QED
      BY <1>1, <2>1, <2>2, UpdateStep DEF BaseState
  <1>2. CASE ~loaded
    BY <1>2, LoadStep DEF Apply, Load
  <1>3. QED
    BY <1>1, <1>2

LEMMA NotifyStep ==
    ASSUME StoreInv, NEW l \in Listener, Notify(l)
    PROVE  StoreInv'
  <1>1. CASE l \in subscribed
    <2>1. PICK gone \in SUBSET subscribed, new \in SUBSET (Listener \ (subscribed \cup toNotify)) :
            /\ subscribed' = (subscribed \ gone) \cup new
            /\ seen' = [k \in Listener |-> IF k \in new \cup {l} THEN State ELSE seen[k]]
      BY <1>1 DEF Notify
    <2>2. State = Whole(base) /\ toNotify' = toNotify \ {l} /\ UNCHANGED storeVars
      BY DEF State, Whole, StoreInv, ListenerInv, Notify
    <2>3. StoreType' /\ OnLoadedOnce'
      BY <2>1, <2>2 DEF StoreInv, StoreType, OnLoadedOnce, storeVars
    <2>4. \A k \in (subscribed \ toNotify)' : seen'[k] = Whole(base)
      BY <2>1, <2>2 DEF StoreInv, StoreType, ListenerInv
    <2>5. ASSUME NEW k \in toNotify' \cap subscribed'
          PROVE  k \in toNotify \cap subscribed /\ seen'[k] = seen[k]
      BY <2>1, <2>2 DEF StoreInv, StoreType
    <2>6. StateChangeSuffices'
      BY <2>2, <2>5 DEF StoreInv, ListenerInv, StateChangeSuffices, Differs, State, storeVars
    <2>7. QED
      BY <2>2, <2>3, <2>4, <2>6 DEF StoreInv, ListenerInv, storeVars
  <1>2. CASE l \notin subscribed
    BY <1>2 DEF Notify, StoreInv, StoreType, ListenerInv, OnLoadedOnce, storeVars,
                StateChangeSuffices, Differs, State
  <1>3. QED
    BY <1>1, <1>2

LEMMA SubscribeStep ==
    ASSUME StoreInv, NEW l \in Listener, Subscribe(l) \/ Unsubscribe(l)
    PROVE  StoreInv'
  <1>1. CASE Subscribe(l)
    <2>1. State = Whole(base)
      BY DEF State, Whole, StoreInv, ListenerInv
    <2>2. StateChangeSuffices'
      BY <1>1 DEF Subscribe, Idle, StateChangeSuffices
    <2>3. QED
      BY <1>1, <2>1, <2>2 DEF Subscribe, StoreInv, StoreType, ListenerInv, OnLoadedOnce, storeVars
  <1>2. CASE Unsubscribe(l)
    BY <1>2 DEF Unsubscribe, Idle, StoreInv, StoreType, ListenerInv, OnLoadedOnce, storeVars,
                StateChangeSuffices
  <1>3. QED
    BY <1>1, <1>2

\* The store's invariant does not depend on the network or the calls.
LEMMA StoreUnchanged ==
    ASSUME StoreInv, UNCHANGED <<storeVars, listenerVars>>
    PROVE  StoreInv'
  BY DEF StoreInv, StoreType, ListenerInv, OnLoadedOnce, storeVars, listenerVars,
         StateChangeSuffices, Differs, State

------------------------------------------------------------------------------
LEMMA InitInv == Init => IInv
  <1> SUFFICES ASSUME Init PROVE IInv
    OBVIOUS
  <1>1. DefaultState \in BaseState /\ ledger \in BaseState
    BY VersionAssumption DEF Init, DefaultState, BaseState, Version
  <1>2. StoreInv
    BY <1>1 DEF Init, StoreInv, StoreType, OnLoadedOnce, ListenerInv, StateChangeSuffices
  <1>3. CallType
    BY <1>1, VersionAssumption DEF Init, CallType, Pc, Version
  <1>4. ChainInv
    BY FieldAssumption DEF Init, ChainInv, Approving
  <1>5. QED
    BY <1>2, <1>3, <1>4, IInvParts DEF Init, ShowsRealValues

\* What the reads of a call can return.
LEMMA AnswersReal ==
    ASSUME CallType, ChainInv, NEW r \in Request, NEW s \in Answers(r)
    PROVE  /\ s \in BaseState
           /\ \A f \in BaseField \ Association : s[f] \in 1..ledger[f]
  BY DEF Answers, CallType, ChainInv

\* Leaving the reads behind disturbs neither the ledger nor a pending amount.
LEMMA EndReadsStep ==
    ASSUME CallType, ChainInv, NEW r \in Request, pc[r] \in Fetching, EndReads(r)
    PROVE  CallType' /\ ChainInv' /\ ledger' = ledger
  <1>1. AfterReads(r) \in Pc /\ (AfterReads(r) \in Approving => pc[r] \in Approving)
    BY DEF AfterReads, Pc, Approving
  <1>2. CallType' /\ ledger' = ledger
    BY <1>1 DEF EndReads, CallType, chainVars
  <1>3. ChainInv'
    BY <1>1, <1>2 DEF EndReads, CallType, ChainInv, chainVars
  <1>4. QED
    BY <1>2, <1>3

LEMMA BeginReadsStep ==
    ASSUME CallType, ChainInv, NEW r \in Request, NEW at \in Pc, BeginReads(r, at),
           at \in Approving => pc[r] \in Approving,
           UNCHANGED <<chainVars, target, amount>>
    PROVE  CallType' /\ ChainInv'
  <1>1. CallType'
    BY DEF BeginReads, CallType, chainVars, BaseState
  <1>2. ChainInv'
    BY DEF BeginReads, CallType, ChainInv, chainVars
  <1>3. QED
    BY <1>1, <1>2

\* A field of the ledger that grows by one leaves everything real.
LEMMA LedgerGrows ==
    ASSUME CallType, ChainInv, ShowsRealValues, NEW f \in BaseField \ Association,
           ledger[f] < MaxVersion, ledger' = [ledger EXCEPT ![f] = ledger[f] + 1]
    PROVE  /\ ledger' \in BaseState
           /\ \A g \in Association : ledger'[g] \in {0, 1}
           /\ \A g \in BaseField \ Association : 1..ledger[g] \subseteq 1..ledger'[g]
           /\ ledger[f] + 1 \in Version /\ ledger[f] + 1 \in 1..ledger'[f]
  BY VersionAssumption, FieldAssumption DEF CallType, ChainInv, BaseState, Version

\* Every step keeps the invariant.
LEMMA NextInv == IInv /\ [Next]_vars => IInv'
  <1> SUFFICES ASSUME IInv, [Next]_vars PROVE IInv'
    OBVIOUS
  <1>0. StoreInv /\ CallType /\ ChainInv /\ ShowsRealValues
    BY IInvParts
  <1> SUFFICES StoreInv' /\ CallType' /\ ChainInv' /\ ShowsRealValues'
    BY IInvParts DEF IInv, StoreInv, StoreType, CallType, TypeOK
  <1>1. ASSUME NEW f \in BaseField, LedgerWrite(f)
        PROVE  StoreInv' /\ CallType' /\ ChainInv' /\ ShowsRealValues'
    <2>1. StoreInv'
      BY <1>0, <1>1, StoreUnchanged DEF LedgerWrite
    <2>2. CASE f \in Association
      <3>1. ledger' = [ledger EXCEPT ![f] = 1 - ledger[f]] /\ ledger[f] \in {0, 1}
        BY <1>0, <1>1, <2>2 DEF LedgerWrite, ChainInv
      <3>2. ledger' \in BaseState /\ \A g \in BaseField \ Association : ledger'[g] = ledger[g]
        BY <1>0, <3>1, <2>2, VersionAssumption DEF CallType, BaseState, Version
      <3>3. \A g \in Association : ledger'[g] \in {0, 1}
        BY <1>0, <3>1, FieldAssumption DEF CallType, ChainInv, BaseState
      <3>4. CallType'
        BY <1>0, <1>1, <3>2 DEF LedgerWrite, CallType, callVars
      <3>5. ChainInv'
        BY <1>0, <1>1, <3>2, <3>3, FieldAssumption DEF LedgerWrite, CallType, ChainInv, callVars
      <3>6. ShowsRealValues'
        BY <1>0, <1>1, <3>2 DEF LedgerWrite, ShowsRealValues, storeVars
      <3>7. QED
        BY <2>1, <3>4, <3>5, <3>6
    <2>3. CASE f \notin Association
      <3>1. /\ ledger' \in BaseState
            /\ \A g \in Association : ledger'[g] \in {0, 1}
            /\ \A g \in BaseField \ Association : 1..ledger[g] \subseteq 1..ledger'[g]
        BY <1>0, <1>1, <2>3, LedgerGrows DEF LedgerWrite
      <3>2. CallType'
        BY <1>0, <1>1, <3>1 DEF LedgerWrite, CallType, callVars
      <3>3. ChainInv'
        BY <1>0, <1>1, <3>1, FieldAssumption DEF LedgerWrite, CallType, ChainInv, callVars
      <3>4. ShowsRealValues'
        BY <1>0, <1>1, <3>1 DEF LedgerWrite, ShowsRealValues, storeVars
      <3>5. QED
        BY <2>1, <3>2, <3>3, <3>4
    <2>4. QED
      BY <2>2, <2>3
  <1>2. CASE MirrorPublish
    <2>1. StoreInv' /\ ShowsRealValues'
      BY <1>0, <1>2, StoreUnchanged DEF MirrorPublish, ShowsRealValues, storeVars
    <2>2. CallType'
      BY <1>0, <1>2 DEF MirrorPublish, CallType, BaseState
    <2>3. \A f \in BaseField \ Association : ledger[f] \in 1..ledger[f]
      BY <1>0, VersionAssumption DEF ChainInv, CallType, BaseState, Version
    <2>4. ChainInv'
      BY <1>0, <1>2, <2>3 DEF MirrorPublish, CallType, ChainInv
    <2>5. QED
      BY <2>1, <2>2, <2>4
  <1>3. ASSUME NEW l \in Listener, Subscribe(l) \/ Unsubscribe(l) \/ Notify(l)
        PROVE  StoreInv' /\ CallType' /\ ChainInv' /\ ShowsRealValues'
    <2>1. StoreInv'
      BY <1>0, <1>3, SubscribeStep, NotifyStep
    <2>2. UNCHANGED <<chainVars, callVars, storeVars>>
      BY <1>3 DEF Subscribe, Unsubscribe, Notify
    <2>3. QED
      BY <1>0, <2>1, <2>2 DEF chainVars, callVars, storeVars, CallType, ChainInv, ShowsRealValues
  <1>4. ASSUME NEW r \in Request, Start(r) \/ Refresh(r) \/ ApproveReceipt(r)
        PROVE  StoreInv' /\ CallType' /\ ChainInv' /\ ShowsRealValues'
    <2>1. StoreInv' /\ ShowsRealValues'
      BY <1>0, <1>4, StoreUnchanged
         DEF Start, Refresh, Begin, ApproveReceipt, ShowsRealValues, storeVars, chainVars
    <2>2. CallType' /\ ChainInv'
      BY <1>0, <1>4, BeginReadsStep DEF Start, Refresh, Begin, ApproveReceipt, Approving, Pc
    <2>3. QED
      BY <2>1, <2>2
  <1>5. ASSUME NEW r \in Request, ReadsAnswered(r)
        PROVE  StoreInv' /\ CallType' /\ ChainInv' /\ ShowsRealValues'
    <2>1. PICK state \in Answers(r) : Apply(state)
      BY <1>5 DEF ReadsAnswered
    <2>2. StoreInv' /\ base' = state
      BY <1>0, <1>5, <2>1, AnswersReal, ApplyStep DEF ReadsAnswered
    <2>3. CallType' /\ ChainInv' /\ ledger' = ledger
      BY <1>0, <1>5, EndReadsStep DEF ReadsAnswered
    <2>4. ShowsRealValues'
      BY <1>0, <2>2, <2>3, AnswersReal DEF ShowsRealValues
    <2>5. QED
      BY <2>2, <2>3, <2>4
  <1>6. ASSUME NEW r \in Request, ReadsFail(r)
        PROVE  StoreInv' /\ CallType' /\ ChainInv' /\ ShowsRealValues'
    <2>1. StoreInv'
      BY <1>0, <1>6, StoreUnchanged DEF ReadsFail
    <2>2. CallType' /\ ChainInv' /\ ledger' = ledger
      BY <1>0, <1>6, EndReadsStep DEF ReadsFail
    <2>3. QED
      BY <1>0, <1>6, <2>1, <2>2 DEF ReadsFail, ShowsRealValues, storeVars
  <1>7. ASSUME NEW r \in Request, NEW f \in Allowance, Approve(r, f)
        PROVE  StoreInv' /\ CallType' /\ ChainInv' /\ ShowsRealValues'
    <2>1. StoreInv'
      BY <1>0, <1>7, StoreUnchanged DEF Approve
    <2>2. /\ ledger' \in BaseState
          /\ \A g \in Association : ledger'[g] \in {0, 1}
          /\ \A g \in BaseField \ Association : 1..ledger[g] \subseteq 1..ledger'[g]
          /\ ledger[f] + 1 \in Version /\ ledger[f] + 1 \in 1..ledger'[f]
      BY <1>0, <1>7, LedgerGrows, FieldAssumption DEF Approve
    <2>3. CallType'
      BY <1>0, <1>7, <2>2 DEF Approve, CallType, Pc
    <2>4. ChainInv'
      BY <1>0, <1>7, <2>2, FieldAssumption DEF Approve, CallType, ChainInv, Approving
    <2>5. ShowsRealValues'
      BY <1>0, <1>7, <2>2 DEF Approve, ShowsRealValues, storeVars
    <2>6. QED
      BY <2>1, <2>3, <2>4, <2>5
  <1>8. ASSUME NEW r \in Request, OptimisticUpdate(r)
        PROVE  StoreInv' /\ CallType' /\ ChainInv' /\ ShowsRealValues'
    <2>1. CallType' /\ ChainInv' /\ ledger' = ledger
      <3>1. CallType' /\ ledger' = ledger
        BY <1>0, <1>8 DEF OptimisticUpdate, CallType, Pc, chainVars
      <3>2. ChainInv'
        BY <1>0, <1>8 DEF OptimisticUpdate, CallType, ChainInv, Approving, chainVars
      <3>3. QED
        BY <3>1, <3>2
    <2>2. CASE ~loaded
      <3>1. StoreInv'
        BY <1>0, <1>8, <2>2, StoreUnchanged DEF OptimisticUpdate
      <3>2. QED
        BY <1>0, <1>8, <2>1, <2>2, <3>1 DEF OptimisticUpdate, ShowsRealValues, storeVars
    <2>3. CASE loaded
      <3> DEFINE u == [f \in {target[r]} |-> amount[r]]
      <3>1. Update(u)
        BY <1>8, <2>3 DEF OptimisticUpdate
      <3>2. {target[r]} \in SUBSET BaseField /\ u \in [{target[r]} -> Version]
        BY <1>0, FieldAssumption DEF CallType
      <3>3. StoreInv'
        BY <1>0, <1>8, <2>3, <3>1, <3>2, UpdateStep DEF OptimisticUpdate
      <3>4. amount[r] \in 1..ledger[target[r]]
        BY <1>0, <1>8 DEF OptimisticUpdate, ChainInv, Approving
      <3>5. base \in BaseState
        BY <1>0 DEF StoreInv, StoreType
      <3>6. \A f \in BaseField : base'[f] = IF f = target[r] THEN amount[r] ELSE base[f]
        <4> HIDE DEF u
        <4>1. \A f \in BaseField :
                base'[f] = IF f \in {target[r]} THEN u[f] ELSE base[f]
          BY <3>1, <3>2, <3>5, ReduceValue DEF Update
        <4>2. QED
          BY <4>1 DEF u
      <3>7. ShowsRealValues'
        BY <1>0, <2>1, <2>3, <3>4, <3>6 DEF ShowsRealValues
      <3>8. QED
        BY <2>1, <3>3, <3>7
    <2>4. QED
      BY <2>2, <2>3
  <1>9. CASE UNCHANGED vars
    BY <1>0, <1>9, StoreUnchanged
       DEF vars, chainVars, callVars, storeVars, CallType, ChainInv, ShowsRealValues
  <1>10. QED
    BY <1>1, <1>2, <1>3, <1>4, <1>5, <1>6, <1>7, <1>8, <1>9 DEF Next

LEMMA InvariantHolds == Spec => []IInv
  BY InitInv, NextInv, PTL DEF Spec

------------------------------------------------------------------------------
\* The variables keep their types: in particular every value a read or an
\* approval brings to the store is a version the field can have.
THEOREM TypeCorrect == Spec => []TypeOK
  <1>1. IInv => TypeOK
    BY DEF IInv
  <1>2. QED
    BY <1>1, InvariantHolds, PTL

\* However many calls overlap and in whatever order their reads are answered, a
\* loaded store shows values of the ledger only.
THEOREM StoreShowsRealValues == Spec => []ShowsRealValues
  <1>1. IInv => ShowsRealValues
    BY DEF IInv
  <1>2. QED
    BY <1>1, InvariantHolds, PTL

\* start(), refresh() and approvals that overlap before the first answer load
\* the store once.
THEOREM StoreLoadsOnce == Spec => []OnLoadedOnce
  <1>1. IInv => OnLoadedOnce
    BY DEF IInv
  <1>2. QED
    BY <1>1, InvariantHolds, PTL

\* No subscribed listener is left behind when a turn is over.
THEOREM NoListenerLeftBehind == Spec => []ListenersUpToDate
  <1>1. IInv => ListenersUpToDate
    BY DEF IInv, ListenerInv, ListenersUpToDate, Idle
  <1>2. QED
    BY <1>1, InvariantHolds, PTL

\* A listener can rely on stateChange alone.
THEOREM StateChangeIsEnough == Spec => []StateChangeSuffices
  <1>1. IInv => StateChangeSuffices
    BY DEF IInv, ListenerInv
  <1>2. QED
    BY <1>1, InvariantHolds, PTL

\* An unsubscribed listener is not called again, whoever unsubscribed it and
\* however far the current round has come.
THEOREM UnsubscribedStaysSilent == Spec => UnsubscribedNotCalled
  <1>1. ASSUME IInv, [Next]_vars, NEW l \in Listener, l \notin subscribed, l \notin subscribed'
        PROVE  seen'[l] = seen[l]
    <2>0. seen \in [Listener -> {Whole(b) : b \in BaseState}]
      BY <1>1 DEF IInv, TypeOK
    <2>1. ASSUME NEW k \in Listener, Subscribe(k)
          PROVE  seen'[l] = seen[l]
      BY <1>1, <2>0, <2>1 DEF Subscribe
    <2>2. ASSUME NEW k \in Listener, Notify(k)
          PROVE  seen'[l] = seen[l]
      BY <1>1, <2>0, <2>2 DEF Notify
    <2>3. ASSUME NEW state, Apply(state)
          PROVE  seen'[l] = seen[l]
      BY <1>1, <2>0, <2>3 DEF Apply, Update, Load
    <2>4. ASSUME NEW r \in Request, ReadsAnswered(r) \/ OptimisticUpdate(r)
          PROVE  seen'[l] = seen[l]
      BY <2>3, <2>4 DEF ReadsAnswered, OptimisticUpdate, Update, listenerVars
    <2>5. QED
      BY <1>1, <2>1, <2>2, <2>4
         DEF Next, vars, listenerVars, LedgerWrite, MirrorPublish, Unsubscribe, Start, Refresh,
             Begin, ReadsFail, Approve, ApproveReceipt
  <1>2. IInv /\ [Next]_vars =>
            [\A l \in Listener :
                l \notin subscribed /\ l \notin subscribed' => seen'[l] = seen[l]]_vars
    BY <1>1
  <1>3. QED
    BY <1>2, InvariantHolds, PTL DEF Spec, UnsubscribedNotCalled

\* approve...() returns with the approved allowance on display.
THEOREM ApprovalIsShown == Spec => ApprovalShownOnReturn
  <1>1. ASSUME IInv, [Next]_vars, NEW r \in Request, loaded,
               pc[r] \in Approving, pc'[r] = "idle"
        PROVE  base'[target[r]] = amount[r]
    <2>0. CallType /\ StoreInv
      BY <1>1, IInvParts
    <2>1. OptimisticUpdate(r)
      <3>1. ASSUME NEW q \in Request, pc' = [pc EXCEPT ![q] = AfterReads(q)]
            PROVE  pc[r] = "approveRefresh" => pc'[r] # "idle"
        BY <2>0, <3>1 DEF AfterReads, CallType
      <3>2. ASSUME NEW q \in Request, ReadsAnswered(q) \/ ReadsFail(q)
            PROVE  FALSE
        BY <1>1, <2>0, <3>1, <3>2
           DEF ReadsAnswered, ReadsFail, EndReads, CallType, Approving, Fetching
      <3>3. ASSUME NEW q \in Request, OptimisticUpdate(q), q # r
            PROVE  FALSE
        BY <1>1, <2>0, <3>3 DEF OptimisticUpdate, CallType, Approving
      <3>4. ASSUME NEW q \in Request, Start(q) \/ Refresh(q) \/ ApproveReceipt(q)
            PROVE  FALSE
        BY <1>1, <2>0, <3>4
           DEF Start, Refresh, Begin, ApproveReceipt, BeginReads, CallType, Approving
      <3>5. ASSUME NEW q \in Request, NEW f \in Allowance, Approve(q, f)
            PROVE  FALSE
        BY <1>1, <2>0, <3>5 DEF Approve, CallType, Approving
      <3>6. QED
        BY <1>1, <3>2, <3>3, <3>4, <3>5
           DEF Next, vars, callVars, LedgerWrite, MirrorPublish, Subscribe, Unsubscribe, Notify,
               Approving
    <2>2. Update([f \in {target[r]} |-> amount[r]])
      BY <1>1, <2>1 DEF OptimisticUpdate
    <2>3. target[r] \in BaseField /\ amount[r] \in Version /\ base \in BaseState
      BY <2>0, FieldAssumption DEF CallType, StoreInv, StoreType
    <2>4. QED
      BY <2>2, <2>3 DEF Update, Reduce, Replaces
  <1>2. IInv /\ [Next]_vars =>
            [\A r \in Request :
                loaded /\ pc[r] \in {"receipt", "approveRefresh", "optimistic"} /\ pc'[r] = "idle"
                    => base'[target[r]] = amount[r]]_vars
    BY <1>1 DEF Approving
  <1>3. QED
    BY <1>2, InvariantHolds, PTL DEF Spec, ApprovalShownOnReturn

------------------------------------------------------------------------------
\* A step changes the ledger under a store that stays as it is, or changes the
\* store, which is loaded then, over a ledger that stays as it is.
LEMMA StoreOrLedger ==
    ASSUME IInv, [Next]_vars
    PROVE  \/ /\ UNCHANGED <<loaded, base>>
              /\ \A f \in Shared : ledger'[f] >= ledger[f]
           \/ loaded' /\ UNCHANGED ledger
  <1>0. CallType
    BY IInvParts
  <1>1. \A f \in Shared : ledger[f] \in Nat
    BY <1>0, VersionAssumption DEF CallType, BaseState, Version, Shared
  <1>2. ASSUME NEW f \in BaseField, LedgerWrite(f)
        PROVE  UNCHANGED <<loaded, base>> /\ \A g \in Shared : ledger'[g] >= ledger[g]
    BY <1>0, <1>1, <1>2 DEF LedgerWrite, storeVars, Shared, CallType, BaseState
  <1>3. ASSUME NEW r \in Request, NEW f \in Allowance, Approve(r, f)
        PROVE  UNCHANGED <<loaded, base>> /\ \A g \in Shared : ledger'[g] >= ledger[g]
    BY <1>0, <1>1, <1>3, FieldAssumption DEF Approve, storeVars, Shared, CallType, BaseState
  <1>4. ASSUME NEW r \in Request, ReadsAnswered(r)
        PROVE  loaded' /\ UNCHANGED ledger
    BY <1>4 DEF ReadsAnswered, EndReads, chainVars, Apply, Update, Load
  <1>5. ASSUME NEW r \in Request, OptimisticUpdate(r)
        PROVE  (loaded' \/ UNCHANGED <<loaded, base>>) /\ UNCHANGED ledger
    BY <1>5 DEF OptimisticUpdate, chainVars, Update, storeVars
  <1>6. ASSUME UNCHANGED <<ledger, loaded, base>>
        PROVE  UNCHANGED <<loaded, base>> /\ \A f \in Shared : ledger'[f] >= ledger[f]
    BY <1>1, <1>6
  <1>7. ASSUME \/ UNCHANGED vars
               \/ MirrorPublish
               \/ \E l \in Listener : Subscribe(l) \/ Unsubscribe(l) \/ Notify(l)
               \/ \E r \in Request : Start(r) \/ Refresh(r) \/ ReadsFail(r) \/ ApproveReceipt(r)
        PROVE  UNCHANGED <<ledger, loaded, base>>
    BY <1>7 DEF vars, chainVars, storeVars, MirrorPublish, Subscribe, Unsubscribe, Notify,
                Start, Refresh, Begin, ReadsFail, EndReads, ApproveReceipt
  <1>8. QED
    BY <1>2, <1>3, <1>4, <1>5, <1>6, <1>7 DEF Next

\* The store implements what a store promises: it is loaded for good, and every
\* property it shows is one that the network had agreed on.
THEOREM StoreImplementsDataStore == Spec => ImplementsDataStore
  <1>1. Init => Abstract!Init
    BY DEF Init, Abstract!Init, DefaultState, Shared
  <1>2. IInv /\ IInv' /\ [Next]_vars => [Abstract!Next]_(Abstract!storeVars)
    <2> SUFFICES ASSUME IInv, IInv', [Next]_vars
                 PROVE  [Abstract!Next]_(Abstract!storeVars)
      OBVIOUS
    <2>1. CASE UNCHANGED <<loaded, base>> /\ \A f \in Shared : ledger'[f] >= ledger[f]
      BY <2>1 DEF Abstract!Next, Abstract!Write, IInv, OnLoadedOnce
    <2>2. CASE loaded' /\ UNCHANGED ledger
      <3>1. \A f \in Shared : base'[f] \in 1 .. ledger[f]
        BY <2>2 DEF IInv, ShowsRealValues, Shared
      <3>2. QED
        BY <2>2, <3>1 DEF Abstract!Next, Abstract!Show, IInv, TypeOK, OnLoadedOnce
    <2>3. QED
      BY <2>1, <2>2, StoreOrLedger
  <1>3. QED
    BY <1>1, <1>2, InvariantHolds, PTL DEF Spec, ImplementsDataStore, Abstract!Spec

==============================================================================
