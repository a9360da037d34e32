---------------------------- MODULE HLiquityStore ----------------------------
(***************************************************************************)
(* The data store of lib-base (abstract class HLiquityStore) as lib-hashgraph *)
(* (class HashgraphLiquity) runs it.  The store caches what the chain says *)
(* about the protocol and the user, derives more from it and calls its     *)
(* listeners.  It is filled by fetchStoreValues(), some forty independent  *)
(* reads at "latest", which any number of overlapping calls may have in    *)
(* flight: start(), refresh() and the approve...() calls.  Nothing orders  *)
(* their answers.                                                          *)
(*                                                                         *)
(* Data abstraction.  A field's value is the number of times the ledger    *)
(* changed it: a greater version is a later value, equal versions are equal *)
(* values.  Version 0 is the value the `state` getter shows before the     *)
(* first load.  An association flag is 0 (false) or 1 (true).  A field is  *)
(* what one contract function returns: a property read from several, such  *)
(* as the total of the two pools, may mix their values of several blocks.  *)
(*                                                                         *)
(* JavaScript runs one turn at a time.  A turn that updates the store      *)
(* calls the listeners one by one and nothing else runs until the last     *)
(* has returned: `toNotify` holds those still to call and every other      *)
(* action waits until it is empty.                                         *)
(***************************************************************************)
EXTENDS Naturals, FiniteSets

CONSTANTS
    BaseField,      \* the properties of LiquityStoreBaseState
    DerivedField,   \* the properties of LiquityStoreDerivedState
    DerivedFrom,    \* DerivedFrom[d]: the base properties _derive() reads for d
    ByIdentity,     \* base properties whose objects are compared with ===
    Allowance,      \* base properties an approve...() call sets by itself
    Association,    \* the userHasAssociatedWith... flags
    Request,        \* calls that may be in flight together
    Listener,       \* functions made by wrap(), one per subscribe()
    MaxVersion      \* bound on the changes of one field

ASSUME FieldAssumption ==
    /\ DerivedFrom \in [DerivedField -> SUBSET BaseField]
    /\ ByIdentity \subseteq BaseField
    /\ Allowance \subseteq BaseField \ Association
    /\ Association \subseteq BaseField

ASSUME VersionAssumption == MaxVersion \in Nat \ {0}

VARIABLES
    ledger,         \* consensus state of the network
    mirror,         \* the part of it the JSON-RPC relay serves
    pc,             \* pc[r]: what call r awaits
    cand,           \* cand[r][f]: the values mirror[f] had since r began reading
    target,         \* target[r]: the allowance an approve...() call sets
    amount,         \* amount[r]: the version it sets it to
    loaded,         \* _loaded
    onLoadedCalls,  \* how often onLoaded() ran
    base,           \* _baseState, or the defaults of the `state` getter
    derived,        \* _derivedState
    subscribed,     \* _listeners
    toNotify,       \* _notify()'s copy of _listeners, less those done
    change,         \* keys of the last stateChange
    seen            \* seen[l]: the newState listener l was last called with

chainVars == <<ledger, mirror>>
callVars == <<pc, cand, target, amount>>
storeVars == <<loaded, onLoadedCalls, base, derived, change>>
listenerVars == <<subscribed, toNotify, seen>>
vars == <<chainVars, callVars, storeVars, listenerVars>>

Version == 0..MaxVersion
BaseState == [BaseField -> Version]

\* What a call awaits: nothing; the reads of start() or of refresh(); the
\* receipt of an approval; its refresh(); the microtask after that refresh().
Pc == {"idle", "start", "refresh", "receipt", "approveRefresh", "optimistic"}
Fetching == {"start", "refresh", "approveRefresh"}

DefaultState == [f \in BaseField |-> 0]

\* _derive(): each derived property is a function of the base properties it
\* reads; the function is taken to be injective.
Derive(b) == [d \in DerivedField |-> [f \in DerivedFrom[d] |-> b[f]]]

\* The state a listener is given when the base state is b.
Whole(b) == [base |-> b, derived |-> Derive(b)]
State == [base |-> base, derived |-> derived]

\* Broken: a comparison the wrong way round.
ReplacesEqual(f, prev, next) == f \in ByIdentity \/ prev = next

\* The equality _reduce() uses for a property.  Fresh reads are fresh objects,
\* so a property compared with === on objects is always replaced.
Replaces(f, prev, next) == f \in ByIdentity \/ prev # next

\* _reduce(): keep the old object unless the update brings a different one.
Reduce(b, update) ==
    [f \in BaseField |->
        IF f \in DOMAIN update /\ Replaces(f, b[f], update[f])
        THEN update[f] ELSE b[f]]

\* difference(): the keys whose objects differ (!==) after _reduce().
Difference(b, update) ==
    {f \in DOMAIN update : Replaces(f, b[f], update[f])}

\* Broken: stateChange leaves out the derived properties.
NoDerivedDifference(d, next) == {}

DerivedDifference(d, next) == {x \in DerivedField : d[x] # next[x]}

TypeOK ==
    /\ ledger \in BaseState
    /\ mirror \in BaseState
    /\ pc \in [Request -> Pc]
    /\ cand \in [Request -> [BaseField -> SUBSET Version]]
    /\ target \in [Request -> Allowance]
    /\ amount \in [Request -> Version]
    /\ loaded \in BOOLEAN
    /\ onLoadedCalls \in Nat
    /\ base \in BaseState
    /\ derived \in {Derive(b) : b \in BaseState}
    /\ subscribed \subseteq Listener
    /\ toNotify \subseteq Listener
    /\ change \subseteq BaseField \cup DerivedField
    /\ seen \in [Listener -> {Whole(b) : b \in BaseState}]

Init ==
    /\ ledger = [f \in BaseField |-> IF f \in Association THEN 0 ELSE 1]
    /\ mirror = ledger
    /\ pc = [r \in Request |-> "idle"]
    /\ cand = [r \in Request |-> [f \in BaseField |-> {}]]
    /\ target \in [Request -> Allowance]
    /\ amount = [r \in Request |-> 0]
    /\ loaded = FALSE
    /\ onLoadedCalls = 0
    /\ base = DefaultState
    /\ derived = Derive(DefaultState)
    /\ subscribed = {}
    /\ toNotify = {}
    /\ change = {}
    /\ seen = [l \in Listener |-> Whole(DefaultState)]

Idle == toNotify = {}

------------------------------------------------------------------------------
(* The network (external).                                                 *)

\* Any transaction of anybody changes a field; associating and dissociating
\* flip a flag.
LedgerWrite(f) ==
    /\ Idle
    /\ f \notin Association => ledger[f] < MaxVersion
    /\ ledger' = [ledger EXCEPT ![f] =
                    IF f \in Association THEN 1 - ledger[f] ELSE ledger[f] + 1]
    /\ UNCHANGED <<mirror, callVars, storeVars, listenerVars>>

\* The relay starts to serve a later block.  A read in flight may have been
\* answered before or after.
MirrorPublish ==
    /\ Idle
    /\ mirror # ledger
    /\ mirror' = ledger
    /\ cand' = [r \in Request |-> [f \in BaseField |->
                    IF pc[r] \in Fetching THEN cand[r][f] \cup {ledger[f]}
                                          ELSE cand[r][f]]]
    /\ UNCHANGED <<ledger, pc, target, amount, storeVars, listenerVars>>

------------------------------------------------------------------------------
(* The store: _load(), _update(), subscribe() and _notify().               *)

\* _update(update): reduce, always derive again, then notify a copy of the
\* listeners.
Update(update) ==
    /\ base' = Reduce(base, update)
    /\ derived' = Derive(base')
    /\ change' = Difference(base, update) \cup DerivedDifference(derived, derived')
    /\ toNotify' = subscribed
    /\ UNCHANGED <<loaded, onLoadedCalls, subscribed, seen>>

\* Broken: _load() without its trailing _update().
LoadSilently(state) ==
    /\ base' = state
    /\ derived' = Derive(state)
    /\ loaded' = TRUE
    /\ onLoadedCalls' = onLoadedCalls + 1
    /\ change' = {}
    /\ UNCHANGED listenerVars

\* _load(state): the onLoaded() callback may subscribe listeners, which are
\* called at once; then _update() without an update notifies everybody.
Load(state) ==
    /\ base' = state
    /\ derived' = Derive(state)
    /\ loaded' = TRUE
    /\ onLoadedCalls' = onLoadedCalls + 1
    /\ change' = {}
    /\ \E mounted \in SUBSET (Listener \ subscribed) :
        /\ subscribed' = subscribed \cup mounted
        /\ seen' = [l \in Listener |-> IF l \in mounted THEN State' ELSE seen[l]]
    /\ toNotify' = subscribed'

\* Broken: what _loaded was before the reads decides.
ApplyLoadedBefore(state) == (loaded /\ Update(state)) \/ Load(state)

\* The second half of start() and refresh(): _update() when the store is
\* loaded by now, _load() otherwise.
Apply(state) == IF loaded THEN Update(state) ELSE Load(state)

\* subscribe(): wrap() makes a new function, so it is in no current round.
Subscribe(l) ==
    /\ Idle
    /\ l \notin subscribed
    /\ subscribed' = subscribed \cup {l}
    /\ seen' = [seen EXCEPT ![l] = State]
    /\ UNCHANGED <<toNotify, chainVars, callVars, storeVars>>

\* The function subscribe() returned.
Unsubscribe(l) ==
    /\ Idle
    /\ subscribed' = subscribed \ {l}
    /\ l \in subscribed
    /\ UNCHANGED <<toNotify, seen, chainVars, callVars, storeVars>>

\* _notify() reaches listener l of its copy.  If it is still subscribed it is
\* called, and while it runs it may unsubscribe a listener (itself, say) and
\* subscribe a new one; otherwise it is passed over.
Notify(l) ==
    /\ l \in toNotify
    /\ toNotify' = toNotify \ {l}
    /\ IF l \in subscribed
       THEN \E gone \in SUBSET subscribed, new \in SUBSET (Listener \ (subscribed \cup toNotify)) :
                /\ Cardinality(gone) <= 1 /\ Cardinality(new) <= 1
                /\ subscribed' = (subscribed \ gone) \cup new
                /\ seen' = [k \in Listener |-> IF k \in new \cup {l} THEN State ELSE seen[k]]
       ELSE UNCHANGED <<subscribed, seen>>
    /\ UNCHANGED <<chainVars, callVars, storeVars>>

------------------------------------------------------------------------------
(* The calls: start(), refresh() and approve...().                         *)

\* fetchStoreValues() is called: its reads go out, none is answered.
BeginReads(r, at) ==
    /\ pc' = [pc EXCEPT ![r] = at]
    /\ cand' = [cand EXCEPT ![r] = [f \in BaseField |-> {mirror[f]}]]

\* start() calls _doStart(); refresh() begins with the same reads.
Begin(r, at) ==
    /\ Idle
    /\ pc[r] = "idle"
    /\ BeginReads(r, at)
    /\ UNCHANGED <<chainVars, target, amount, storeVars, listenerVars>>

Start(r) == Begin(r, "start")
Refresh(r) == Begin(r, "refresh")

\* Broken: every failed read is caught and defaulted, as the associations are.
AnswersDefaulted(r) ==
    {s \in BaseState : \A f \in BaseField : s[f] \in cand[r][f] \cup {0}}

\* The answers of fetchStoreValues(): each read returns a value its field had
\* since the call began.  A failed request to the mirror node's REST interface
\* is caught and every association reads as false.
Answers(r) ==
    {s \in BaseState :
        \/ \A f \in BaseField : s[f] \in cand[r][f]
        \/ \A f \in BaseField : IF f \in Association THEN s[f] = 0 ELSE s[f] \in cand[r][f]}

\* Broken: an approval returns after its refresh().
AfterReadsReturn(r) == "idle"

\* What follows the reads: an approval still has its optimistic update to do.
AfterReads(r) == IF pc[r] = "approveRefresh" THEN "optimistic" ELSE "idle"

\* Leave the call's reads behind.
EndReads(r) ==
    /\ pc' = [pc EXCEPT ![r] = AfterReads(r)]
    /\ cand' = [cand EXCEPT ![r] = [f \in BaseField |-> {}]]
    /\ UNCHANGED <<target, amount, chainVars>>

\* All the reads are answered.
ReadsAnswered(r) ==
    /\ Idle
    /\ pc[r] \in Fetching
    /\ \E state \in Answers(r) : Apply(state)
    /\ EndReads(r)

\* One of the reads fails: start()'s promise is rejected, refresh() logs a
\* warning and returns; the store keeps what it has.
ReadsFail(r) ==
    /\ Idle
    /\ pc[r] \in Fetching
    /\ EndReads(r)
    /\ UNCHANGED <<storeVars, listenerVars>>

\* approve...(amount): the network executes the approval.
Approve(r, f) ==
    /\ Idle
    /\ pc[r] = "idle"
    /\ ledger[f] < MaxVersion
    /\ ledger' = [ledger EXCEPT ![f] = ledger[f] + 1]
    /\ pc' = [pc EXCEPT ![r] = "receipt"]
    /\ target' = [target EXCEPT ![r] = f]
    /\ amount' = [amount EXCEPT ![r] = ledger[f] + 1]
    /\ UNCHANGED <<mirror, cand, storeVars, listenerVars>>

\* sendTransaction() resolves and the approval awaits refresh().
ApproveReceipt(r) ==
    /\ Idle
    /\ pc[r] = "receipt"
    /\ BeginReads(r, "approveRefresh")
    /\ UNCHANGED <<chainVars, target, amount, storeVars, listenerVars>>

\* The optimistic update.  _update() asserts that the store is loaded; when it
\* is not, the approval's promise is rejected.
OptimisticUpdate(r) ==
    /\ Idle
    /\ pc[r] = "optimistic"
    /\ pc' = [pc EXCEPT ![r] = "idle"]
    /\ IF loaded THEN Update([f \in {target[r]} |-> amount[r]])
                 ELSE UNCHANGED <<storeVars, listenerVars>>
    /\ UNCHANGED <<cand, target, amount, chainVars>>

------------------------------------------------------------------------------
Next ==
    \/ \E f \in BaseField : LedgerWrite(f)
    \/ MirrorPublish
    \/ \E l \in Listener : Subscribe(l) \/ Unsubscribe(l) \/ Notify(l)
    \/ \E r \in Request :
        \/ Start(r)
        \/ Refresh(r)
        \/ ReadsAnswered(r)
        \/ ReadsFail(r)
        \/ \E f \in Allowance : Approve(r, f)
        \/ ApproveReceipt(r)
        \/ OptimisticUpdate(r)

Spec == Init /\ [][Next]_vars

\* Fairness.  A turn that began runs to its end, since JavaScript does not
\* preempt it.  Every read is answered or fails (HTTP requests time out), and
\* the event loop runs its tasks in order, so the continuation of a call is
\* not passed over forever by other calls' turns (hence SF).  The relay
\* eventually serves the latest block.
Fairness ==
    /\ WF_vars(MirrorPublish)
    /\ \A l \in Listener : WF_vars(Notify(l))
    /\ \A r \in Request :
        SF_vars(ReadsAnswered(r) \/ ReadsFail(r) \/ ApproveReceipt(r) \/ OptimisticUpdate(r))

FairSpec == Spec /\ Fairness

------------------------------------------------------------------------------
(* Properties.                                                             *)

\* Keys on which two whole states differ in value.
Differs(s, t) ==
    {f \in BaseField : s.base[f] # t.base[f]}
        \cup {d \in DerivedField : s.derived[d] # t.derived[d]}

\* However start(), refresh() and approvals overlap, the state is loaded once:
\* onLoaded() runs exactly once and _load()'s assertion !_loaded never fails.
OnLoadedOnce == onLoadedCalls = IF loaded THEN 1 ELSE 0

\* After the load the store shows no default and nothing the network has not
\* agreed on: each value is one its field really had, though fetched in
\* separate reads, out of order, or set optimistically ahead of the relay.
ShowsRealValues ==
    loaded => \A f \in BaseField \ Association : base[f] \in 1..ledger[f]

\* With overlapping calls, failed reads, a relay that lags and approvals shown
\* ahead of it, the store implements DataStore: it is loaded once, though several
\* calls may be waiting for their reads when it is, it stays loaded, and each
\* update shows values that the network had agreed on.
Shared == BaseField \ Association
Abstract == INSTANCE DataStore WITH
    Field <- Shared,
    truth <- [f \in Shared |-> ledger[f]],
    loads <- onLoadedCalls,
    shown <- [f \in Shared |-> {base[f]}]
ImplementsDataStore == Abstract!Spec

\* When a turn is over, every subscribed listener was last called with the
\* state the store now has, derived part included: no update is missed by a
\* listener subscribed before the load, in onLoaded() or in mid-round.
ListenersUpToDate ==
    Idle => \A l \in subscribed : seen[l] = Whole(base)

\* A listener subscribed since the load that merges each stateChange into what
\* it was last given never misses a value: stateChange has every key whose
\* value differs from the listener's last newState.
StateChangeSuffices ==
    \A l \in toNotify \cap subscribed :
        seen[l] # Whole(DefaultState) => Differs(seen[l], State) \subseteq change

\* A listener that was unsubscribed, by another listener of the same round too,
\* is not called any more.
UnsubscribedNotCalled ==
    [][\A l \in Listener :
        l \notin subscribed /\ l \notin subscribed' => seen'[l] = seen[l]]_vars

\* When approve...() returns, a loaded store shows the approved allowance: its
\* own refresh(), answered by a relay that lags, does not undo it.
ApprovalShownOnReturn ==
    [][\A r \in Request :
        loaded /\ pc[r] \in {"receipt", "approveRefresh", "optimistic"} /\ pc'[r] = "idle"
            => base'[target[r]] = amount[r]]_vars

\* A call that began after the last block was served and reads without error.
CurrentAnswer ==
    \E r \in Request :
        /\ \A f \in BaseField : cand[r][f] = {ledger[f]}
        /\ ReadsAnswered(r)

\* Out-of-order answers do lasting harm only for want of a later refresh: when
\* up-to-date answers keep coming, the store ends up showing the ledger.
EventuallyCurrent ==
    []<><<CurrentAnswer>>_vars
        => <>[](\A f \in BaseField \ Association : base[f] = ledger[f])

==============================================================================
