-------------------------- MODULE TransactionProofs --------------------------
(***************************************************************************)
(* Proofs about transactions of the user: that the one TransactionState is *)
(* true to those in flight (TransactionFlow), and that associateWith...()  *)
(* returns with the association shown (TokenAssociation).                  *)
(***************************************************************************)
EXTENDS TransactionFlow, TokenAssociation, TLAPS

------------------------------------------------------------------------------
(* TransactionFlow.                                                        *)

\* The id a state shows with a tx is the id the tx was sent with.
TxHasItsId ==
    /\ state.tx # NoTx => state.id = of[state.tx]
    /\ shown.tx # NoTx => shown.id = of[shown.tx]

\* ConfirmedSucceeded, for what is queued too.
ConfirmedQueued ==
    state.type \in {"confirmedOneShot", "confirmed"} => state.id \in succeeded

\* The inductive invariant.
IInv ==
    /\ TypeOK
    /\ TxHasItsId
    /\ WatchesWhatIsShown
    /\ TimerOfShownOutcome
    /\ ApprovalIsAwaited
    /\ ConfirmedSucceeded
    /\ ConfirmedQueued

\* What the steps set is a TransactionState.
LEMMA StatesAreTyped ==
    /\ Idle \in TransactionState
    /\ \A id \in Id, type \in Ended \cup {"waitingForApproval", "confirmedOneShot"} :
            At(type, id) \in TransactionState
    /\ \A id \in Id, tx \in Send : Confirming(id, tx) \in TransactionState
  BY IdAssumption DEF Idle, At, Confirming, TransactionState, Waiting, Ended

LEMMA InitOK == Init => IInv
  <1> SUFFICES ASSUME Init PROVE IInv
    OBVIOUS
  <1>1. TypeOK
    BY StatesAreTyped DEF Init, TypeOK
  <1>2. TimerOfShownOutcome
    BY Zenon DEF Init, TimerOfShownOutcome
  <1>3. TxHasItsId /\ WatchesWhatIsShown
    BY DEF Init, TxHasItsId, WatchesWhatIsShown, Idle
  <1>4. ApprovalIsAwaited /\ ConfirmedSucceeded /\ ConfirmedQueued
    BY DEF Init, ApprovalIsAwaited, ConfirmedSucceeded, ConfirmedQueued, Idle
  <1> QED BY <1>1, <1>2, <1>3, <1>4 DEF IInv

\* A commit, of the queued value or of a click's, keeps the variables typed,
\* watches the tx it shows and leaves the timer to the outcome it shows.
LEMMA CommitOK ==
    ASSUME IInv, NEW next \in TransactionState, Commit(next)
    PROVE  /\ shown' = next
           /\ state' \in {next, Idle, At("confirmed", next.id)}
           /\ state' = At("confirmed", next.id) => next.type = "confirmedOneShot" \/ state' = next
           /\ state' \in TransactionState
           /\ watching' \in Send \cup {NoTx}
           /\ watching' # NoTx => next.tx = watching' /\ next.type = "waitingForConfirmation"
           /\ timer' \in BOOLEAN
           /\ timer' => next.type \in Ended
  <1> USE DEF IInv
  <1>1. next.type = "confirmedOneShot" => next.id \in Id
    BY DEF TransactionState
  <1>2. state' \in {next, Idle, At("confirmed", next.id)}
    BY DEF Commit
  <1>3. state' = At("confirmed", next.id) => next.type = "confirmedOneShot" \/ state' = next
    BY DEF Commit, Idle, At
  <1>4. state' \in TransactionState
    BY <1>1, StatesAreTyped DEF Commit, Ended
  <1>5. watching' # NoTx => next.tx = watching' /\ next.type = "waitingForConfirmation"
    BY DEF Commit, WatchDeps, WatchesWhatIsShown, Confirming, TransactionState
  <1>6. watching' \in Send \cup {NoTx}
    BY DEF Commit, TransactionState, TypeOK
  <1>7. timer' \in BOOLEAN /\ (timer' => next.type \in Ended)
    <2>1. CASE EndDeps(next) # EndDeps(shown)
      <3>1. timer' = (next.type \in Ended)
        BY <2>1 DEF Commit
      <3>2. CASE next.type \in Ended
        BY <3>1, <3>2, Zenon
      <3>3. CASE next.type \notin Ended
        <4>1. (next.type \in Ended) = FALSE
          BY <3>3
        <4>2. timer' = FALSE
          BY <3>1, <4>1, Zenon
        <4> QED BY <4>2
      <3> QED BY <3>2, <3>3
    <2>2. CASE EndDeps(next) = EndDeps(shown)
      <3>1. timer' = timer /\ next.type = shown.type
        BY <2>2 DEF Commit, EndDeps
      <3>2. timer \in BOOLEAN /\ (timer => shown.type \in Ended)
        BY DEF TypeOK, TimerOfShownOutcome
      <3> QED BY <3>1, <3>2, Zenon
    <2> QED BY <2>1, <2>2
  <1> QED BY <1>2, <1>3, <1>4, <1>5, <1>6, <1>7 DEF Commit

LEMMA StepOK == IInv /\ [Next]_vars => IInv'
  <1> SUFFICES ASSUME IInv, [Next]_vars PROVE IInv'
    OBVIOUS
  <1> USE IdAssumption
  <1>1. CASE Render
    <2>1. state \in TransactionState /\ Commit(state) /\ UNCHANGED <<signing, of, succeeded, direct>>
      BY <1>1 DEF Render, IInv, TypeOK
    <2> HIDE DEF IInv
    <2>2. /\ shown' = state
          /\ state' \in {state, Idle, At("confirmed", state.id)}
          /\ state' = At("confirmed", state.id) => state.type = "confirmedOneShot" \/ state' = state
          /\ state' \in TransactionState
          /\ watching' \in Send \cup {NoTx}
          /\ watching' # NoTx => state.tx = watching' /\ state.type = "waitingForConfirmation"
          /\ timer' \in BOOLEAN
          /\ timer' => state.type \in Ended
      BY <2>1, CommitOK
    <2>3. TypeOK'
      BY <2>1, <2>2 DEF IInv, TypeOK
    <2>4. TxHasItsId'
      BY <2>1, <2>2 DEF IInv, TxHasItsId, Idle, At
    <2>5. WatchesWhatIsShown'
      BY <2>1, <2>2 DEF IInv, WatchesWhatIsShown, TxHasItsId, Confirming, TransactionState
    <2>6. TimerOfShownOutcome'
      BY <2>2 DEF TimerOfShownOutcome
    <2>7. ApprovalIsAwaited'
      BY <2>1, <2>2 DEF IInv, ApprovalIsAwaited, Idle, At
    <2>8. ConfirmedSucceeded' /\ ConfirmedQueued'
      BY <2>1, <2>2 DEF IInv, ConfirmedSucceeded, ConfirmedQueued, Idle, At
    <2> QED BY <2>3, <2>4, <2>5, <2>6, <2>7, <2>8 DEF IInv
  <1>2. ASSUME NEW s \in Send, NEW id \in Id, Click(s, id) PROVE IInv'
    <2> DEFINE next == At("waitingForApproval", id)
    <2>1. /\ next \in TransactionState /\ Commit(next) /\ Free(s)
          /\ signing' = signing \cup {s} /\ of' = [of EXCEPT ![s] = id]
          /\ succeeded' = succeeded \ {id}
          /\ direct' = (direct \/ id \notin Guarded)
      BY <1>2, StatesAreTyped DEF Click
    <2>2. /\ next.type = "waitingForApproval" /\ next.id = id /\ next.tx = NoTx
      BY DEF At
    <2> HIDE DEF next
    <2>3. /\ shown' = next
          /\ state' \in {next, Idle}
          /\ state' \in TransactionState
          /\ watching' = NoTx
          /\ timer' = FALSE
      BY <2>1, <2>2, CommitOK DEF Ended
    <2>4. TypeOK'
      BY <2>1, <2>3 DEF IInv, TypeOK
    <2>5. TxHasItsId' /\ WatchesWhatIsShown' /\ TimerOfShownOutcome'
      BY <2>2, <2>3 DEF TxHasItsId, WatchesWhatIsShown, TimerOfShownOutcome, Idle
    <2>6. ApprovalIsAwaited'
      BY <2>1, <2>2, <2>3 DEF IInv, TypeOK, ApprovalIsAwaited, Idle
    <2>7. ConfirmedSucceeded' /\ ConfirmedQueued'
      BY <2>2, <2>3 DEF ConfirmedSucceeded, ConfirmedQueued, Idle
    <2> QED BY <2>4, <2>5, <2>6, <2>7 DEF IInv
  <1>3. ASSUME NEW s \in Send, SendResolves(s) PROVE IInv'
    BY <1>3, StatesAreTyped
    DEF SendResolves, IInv, TypeOK, TxHasItsId, WatchesWhatIsShown, TimerOfShownOutcome,
        ApprovalIsAwaited, ConfirmedSucceeded, ConfirmedQueued, Confirming
  <1>4. ASSUME NEW s \in Send, SendRejects(s) PROVE IInv'
    <2>1. PICK type \in {"cancelled", "failed"} : state' = At(type, of[s])
      BY <1>4 DEF SendRejects
    <2>2. state' \in TransactionState
      BY <2>1, StatesAreTyped DEF IInv, TypeOK, Ended
    <2>3. state'.type \in {"cancelled", "failed"} /\ state'.tx = NoTx
      BY <2>1 DEF At
    <2> QED BY <1>4, <2>2, <2>3
      DEF SendRejects, IInv, TypeOK, TxHasItsId, WatchesWhatIsShown, TimerOfShownOutcome,
          ApprovalIsAwaited, ConfirmedSucceeded, ConfirmedQueued
  <1>5. CASE ReceiptSucceeds
    BY <1>5, StatesAreTyped
    DEF ReceiptSucceeds, IInv, TypeOK, TxHasItsId, WatchesWhatIsShown, TimerOfShownOutcome,
        ApprovalIsAwaited, ConfirmedSucceeded, ConfirmedQueued, At
  <1>6. CASE ReceiptFails
    <2>1. PICK type \in {"cancelled", "failed"} : state' = At(type, of[watching])
      BY <1>6 DEF ReceiptFails
    <2>2. state' \in TransactionState
      BY <1>6, <2>1, StatesAreTyped DEF ReceiptFails, IInv, TypeOK, Ended
    <2>3. state'.type \in {"cancelled", "failed"} /\ state'.tx = NoTx
      BY <2>1 DEF At
    <2> QED BY <1>6, <2>2, <2>3
      DEF ReceiptFails, IInv, TypeOK, TxHasItsId, WatchesWhatIsShown, TimerOfShownOutcome,
          ApprovalIsAwaited, ConfirmedSucceeded, ConfirmedQueued
  <1>7. CASE TimerFires
    BY <1>7, StatesAreTyped
    DEF TimerFires, IInv, TypeOK, TxHasItsId, WatchesWhatIsShown, TimerOfShownOutcome,
        ApprovalIsAwaited, ConfirmedSucceeded, ConfirmedQueued, Idle
  <1>8. CASE UNCHANGED vars
    BY <1>8
    DEF vars, IInv, TypeOK, TxHasItsId, WatchesWhatIsShown, TimerOfShownOutcome,
        ApprovalIsAwaited, ConfirmedSucceeded, ConfirmedQueued
  <1> QED BY <1>1, <1>2, <1>3, <1>4, <1>5, <1>6, <1>7, <1>8 DEF Next

\* The inductive invariant holds in every reachable state.
THEOREM Invariance == Spec => []IInv
  BY InitOK, StepOK, PTL DEF Spec

\* For any number of ids, guarded or not, and of sends in flight: the monitor
\* waits for the receipt of the transaction it shows.
THEOREM WatchedIsShown == Spec => []WatchesWhatIsShown
  <1>1. IInv => WatchesWhatIsShown
    BY DEF IInv
  <1> QED BY <1>1, Invariance, PTL

\* The timer that resets the state belongs to the outcome that is shown.
THEOREM TimerIsShownOutcomes == Spec => []TimerOfShownOutcome
  <1>1. IInv => TimerOfShownOutcome
    BY DEF IInv
  <1> QED BY <1>1, Invariance, PTL

\* The state waits for an approval only while one is asked for.
THEOREM AwaitsRealApproval == Spec => []ApprovalIsAwaited
  <1>1. IInv => ApprovalIsAwaited
    BY DEF IInv
  <1> QED BY <1>1, Invariance, PTL

\* A confirmation is shown only for an id whose transaction succeeded.
THEOREM ConfirmationsAreTrue == Spec => []ConfirmedSucceeded
  <1>1. IInv => ConfirmedSucceeded
    BY DEF IInv
  <1> QED BY <1>1, Invariance, PTL

------------------------------------------------------------------------------
(* While only <Transaction> buttons are pressed.                           *)

\* Then at most one send is in flight, and the state that is queued is either
\* shown already or about that send.
GuardedInv ==
    /\ signing # {} =>
        /\ watching = NoTx
        /\ state = shown
        /\ shown.type = "waitingForApproval"
        /\ \E s \in Send : signing = {s}
    /\ watching # NoTx => state = shown
    /\ state.type = "waitingForConfirmation" => shown.type \in Waiting

LEMMA GuardedStep ==
    ASSUME IInv, ~direct => GuardedInv, [Next]_vars, ~direct'
    PROVE  GuardedInv'
  <1>0. GuardedInv
    BY DEF Next, vars, Render, Click, SendResolves, SendRejects, ReceiptSucceeds, ReceiptFails,
           TimerFires
  <1> USE <1>0, IdAssumption DEF GuardedInv
  <1>1. CASE Render
    <2>1. signing = {} /\ signing' = {} /\ watching = NoTx /\ state \in TransactionState
      BY <1>1 DEF Render, IInv, TypeOK
    <2>2. shown' = state /\ (state' = state \/ state'.type = "confirmed")
      BY <1>1, <2>1 DEF Render, Commit, At
    <2>3. state'.type = "confirmed" => state.type \notin Waiting \/ state' = state
      BY <1>1, <2>1 DEF Render, Commit, At, Waiting
    <2>4. watching' # NoTx => state.type = "waitingForConfirmation"
      BY <1>1, <2>1 DEF Render, Commit, TransactionState
    <2> QED BY <2>1, <2>2, <2>3, <2>4 DEF Waiting
  <1>2. ASSUME NEW s \in Send, NEW id \in Id, Click(s, id) PROVE GuardedInv'
    <2>1. shown.type \notin Waiting
      BY <1>2 DEF Click, Disabled
    <2>2. signing = {} /\ watching = NoTx
      BY <2>1 DEF IInv, WatchesWhatIsShown, Confirming, Waiting
    <2>3. state' = At("waitingForApproval", id) /\ shown' = state' /\ watching' = NoTx
      BY <1>2, <2>2 DEF Click, Commit, At
    <2> QED BY <1>2, <2>2, <2>3 DEF Click, At
  <1>3. ASSUME NEW s \in Send, SendResolves(s) PROVE GuardedInv'
    BY <1>3 DEF SendResolves, Waiting, Confirming
  <1>4. ASSUME NEW s \in Send, SendRejects(s) PROVE GuardedInv'
    BY <1>4 DEF SendRejects, At
  <1>5. CASE ReceiptSucceeds
    BY <1>5 DEF ReceiptSucceeds, At
  <1>6. CASE ReceiptFails
    BY <1>6 DEF ReceiptFails, At
  <1>7. CASE TimerFires
    BY <1>7 DEF TimerFires, Idle, IInv, TimerOfShownOutcome, WatchesWhatIsShown, Confirming, Ended
  <1>8. CASE UNCHANGED vars
    BY <1>8 DEF vars
  <1> QED BY <1>1, <1>2, <1>3, <1>4, <1>5, <1>6, <1>7, <1>8 DEF Next

\* As long as only <Transaction> buttons are pressed, none can be pressed while
\* any transaction is in flight, whatever the timing of wallet, receipts, timers
\* and renders.
THEOREM GuardedButtonsWait == Spec => []GuardedWaits
  <1> DEFINE GInv == ~direct => GuardedInv
  <1>1. Init => GInv
    BY DEF Init, GuardedInv, Idle
  <1>2. IInv /\ GInv /\ [Next]_vars => GInv'
    BY GuardedStep
  <1>3. IInv /\ GInv => GuardedWaits
    BY IdAssumption
    DEF IInv, GuardedInv, GuardedWaits, ButtonsWait, InFlight, Disabled, TypeOK,
        TransactionState, WatchesWhatIsShown, Confirming, Waiting
  <1> HIDE DEF GInv
  <1> QED BY <1>1, <1>2, <1>3, Invariance, PTL DEF Spec

------------------------------------------------------------------------------
(* TokenAssociation.                                                       *)

\* The mirror node has nothing the network has not agreed on.
MirrorBehind == \A t \in Token : mirror[t] <= ledger[t]

\* A call whose transaction was executed and that has not returned.
Pending(c) ==
    op[c] = "associate" /\ pc[c] \in {"waiting", "answered", "refreshing", "refreshed", "unread"}

\* Its token is associated in the version it made, and since then neither the
\* ledger nor the mirror node has gone back.
ExecutedInv ==
    \A c \in Request :
        Pending(c) =>
            /\ Associated(at[c])
            /\ at[c] <= ledger[token[c]]
            /\ before[c] <= mirror[token[c]]

\* What an undisturbed call knows: once it has seen its token in an answer, the
\* mirror node has the version it made, and goes on having it.
KnownInv ==
    \A c \in Request :
        Pending(c) /\ Undisturbed(c) =>
            /\ pc[c] \in {"waiting", "answered"} /\ token[c] \in tokens[c] => mirror[token[c]] = at[c]
            /\ pc[c] = "answered" /\ token[c] \in answer[c] => mirror[token[c]] = at[c]
            /\ pc[c] \in {"refreshing", "refreshed", "unread"} => mirror[token[c]] = at[c]
            /\ pc[c] = "refreshed" => token[c] \in answer[c]

\* The inductive invariant.
AssociationInv == AssociationTypeOK /\ MirrorBehind /\ ExecutedInv /\ KnownInv

LEMMA Parity ==
    \A v \in Nat : Associated(v) <=> ~Associated(v + 1)
  BY DEF Associated

LEMMA AssociationInitOK == AssociationInit => AssociationInv
  <1> SUFFICES ASSUME AssociationInit PROVE AssociationInv
    OBVIOUS
  <1>1. AssociationTypeOK
    BY VersionAssumption DEF AssociationInit, AssociationTypeOK, Version, Pc, Op
  <1>2. MirrorBehind
    BY <1>1 DEF AssociationInit, MirrorBehind, AssociationTypeOK, Version
  <1>3. ExecutedInv /\ KnownInv
    BY DEF AssociationInit, ExecutedInv, KnownInv, Pending
  <1> QED BY <1>1, <1>2, <1>3 DEF AssociationInv

\* A token in an answer read now from the mirror node is there in the version
\* the call made: the version before it was a dissociation.
LEMMA SeenIsCurrent ==
    ASSUME AssociationInv, NEW c \in Request, Pending(c), Undisturbed(c), Associated(mirror[token[c]])
    PROVE  mirror[token[c]] = at[c]
  <1> DEFINE t == token[c]
  <1>1. /\ t \in Token /\ mirror[t] \in Nat /\ at[c] \in Nat /\ before[c] \in Nat
    BY VersionAssumption DEF AssociationInv, AssociationTypeOK, Version
  <1>2. before[c] <= mirror[t] /\ mirror[t] <= at[c] /\ before[c] + 1 = at[c]
    BY <1>1 DEF AssociationInv, ExecutedInv, MirrorBehind, Undisturbed
  <1>3. mirror[t] = before[c] \/ mirror[t] = at[c]
    BY <1>1, <1>2
  <1>4. mirror[t] # before[c]
    BY <1>1, <1>2, Parity DEF AssociationInv, ExecutedInv
  <1> QED BY <1>3, <1>4

LEMMA AssociationStepOK == AssociationInv /\ [AssociationNext]_associationVars => AssociationInv'
  <1> SUFFICES ASSUME AssociationInv, [AssociationNext]_associationVars PROVE AssociationInv'
    OBVIOUS
  <1> USE VersionAssumption
  <1>1. ASSUME NEW t \in Token, LedgerWrite(t) PROVE AssociationInv'
    <2>1. AssociationTypeOK' /\ MirrorBehind' /\ ExecutedInv'
      BY <1>1 DEF LedgerWrite, AssociationInv, AssociationTypeOK, MirrorBehind, ExecutedInv, Pending, Version, callVars
    <2>2. \A c \in Request : Undisturbed(c)' /\ Pending(c) => Undisturbed(c)
      BY <1>1 DEF LedgerWrite, AssociationInv, AssociationTypeOK, ExecutedInv, Undisturbed, Version, callVars
    <2>3. KnownInv'
      BY <1>1, <2>2 DEF LedgerWrite, AssociationInv, KnownInv, Pending, callVars
    <2> QED BY <2>1, <2>3 DEF AssociationInv
  <1>2. ASSUME NEW t \in Token, MirrorPublish(t) PROVE AssociationInv'
    <2>1. AssociationTypeOK' /\ MirrorBehind' /\ ExecutedInv'
      BY <1>2 DEF MirrorPublish, AssociationInv, AssociationTypeOK, MirrorBehind, ExecutedInv, Pending, Version, callVars
    <2>2. \A c \in Request :
            Pending(c) /\ Undisturbed(c) /\ mirror[token[c]] = at[c] => mirror'[token[c]] = at[c]
      BY <1>2 DEF MirrorPublish, AssociationInv, AssociationTypeOK, Undisturbed, Version, callVars
    <2>3. KnownInv'
      BY <1>2, <2>2 DEF MirrorPublish, AssociationInv, KnownInv, Pending, Undisturbed, callVars
    <2> QED BY <2>1, <2>3 DEF AssociationInv
  <1>3. ASSUME NEW c \in Request, NEW o \in {"associate", "dissociate"}, NEW t \in Token, Call(c, o, t)
        PROVE  AssociationInv'
    <2>1. AssociationTypeOK' /\ MirrorBehind'
      BY <1>3 DEF Call, AssociationInv, AssociationTypeOK, MirrorBehind, Pc, Op, chainVars
    <2>2. \A d \in Request : Pending(d)' => d # c /\ Pending(d)
      BY <1>3 DEF Call, AssociationInv, AssociationTypeOK, Pending
    <2>3. ExecutedInv' /\ KnownInv'
      BY <1>3, <2>2 DEF Call, AssociationInv, AssociationTypeOK, ExecutedInv, KnownInv, Undisturbed, chainVars
    <2> QED BY <2>1, <2>3 DEF AssociationInv
  <1>4. ASSUME NEW c \in Request, CallFails(c) PROVE AssociationInv'
    <2>1. AssociationTypeOK' /\ MirrorBehind'
      BY <1>4 DEF CallFails, AssociationInv, AssociationTypeOK, MirrorBehind, Pc, chainVars
    <2>2. \A d \in Request : Pending(d)' => d # c /\ Pending(d)
      BY <1>4 DEF CallFails, AssociationInv, AssociationTypeOK, Pending
    <2>3. ExecutedInv' /\ KnownInv'
      BY <1>4, <2>2 DEF CallFails, AssociationInv, AssociationTypeOK, ExecutedInv, KnownInv, Undisturbed, chainVars
    <2> QED BY <2>1, <2>3 DEF AssociationInv
  <1>5. ASSUME NEW c \in Request, Executed(c) PROVE AssociationInv'
    <2> DEFINE t == token[c]
    <2>1. /\ t \in Token /\ ledger[t] \in Nat /\ ledger[t] < MaxVersion /\ pc[c] = "sending"
          /\ ledger' = [ledger EXCEPT ![t] = ledger[t] + 1]
          /\ Associated(ledger[t]) <=> op[c] = "dissociate"
      BY <1>5 DEF Executed, AssociationInv, AssociationTypeOK, Version
    <2>2. /\ pc' = [pc EXCEPT ![c] = "waiting"] /\ tokens' = [tokens EXCEPT ![c] = {}]
          /\ at' = [at EXCEPT ![c] = ledger[t] + 1] /\ before' = [before EXCEPT ![c] = mirror[t]]
          /\ UNCHANGED <<op, token, answer, mirror, userHasAssociated>>
      BY <1>5 DEF Executed
    <2>3. AssociationTypeOK' /\ MirrorBehind'
      BY <2>1, <2>2 DEF AssociationInv, AssociationTypeOK, MirrorBehind, Version, Pc
    <2>4. \A d \in Request : d # c /\ Pending(d)' => Pending(d)
      BY <2>2 DEF AssociationInv, AssociationTypeOK, Pending
    <2>5. ExecutedInv'
      <3> SUFFICES ASSUME NEW d \in Request, Pending(d)'
                   PROVE  (/\ Associated(at[d])
                           /\ at[d] <= ledger[token[d]]
                           /\ before[d] <= mirror[token[d]])'
        BY DEF ExecutedInv
      <3>1. CASE d = c
        <4>1. at'[c] = ledger[t] + 1 /\ ledger'[t] = ledger[t] + 1 /\ before'[c] = mirror[t]
          BY <2>1, <2>2 DEF AssociationInv, AssociationTypeOK
        <4>2. Associated(ledger[t] + 1)
          BY <2>1, <2>2, <3>1, Parity DEF Pending
        <4>3. Associated(at'[c])
          BY <4>1, <4>2
        <4>4. mirror[t] \in Nat
          BY <2>1 DEF AssociationInv, AssociationTypeOK, Version
        <4> QED BY <2>1, <2>2, <3>1, <4>1, <4>3, <4>4 DEF Associated
      <3>2. CASE d # c
        BY <2>1, <2>2, <2>4, <3>2 DEF AssociationInv, AssociationTypeOK, ExecutedInv, Version, Associated
      <3> QED BY <3>1, <3>2
    <2>6. \A d \in Request : d # c /\ Pending(d)' /\ Undisturbed(d)' => Undisturbed(d)
      BY <2>1, <2>2, <2>4 DEF AssociationInv, AssociationTypeOK, ExecutedInv, Undisturbed, Version
    <2>7. KnownInv'
      BY <2>2, <2>4, <2>6 DEF AssociationInv, AssociationTypeOK, KnownInv
    <2> QED BY <2>3, <2>5, <2>7 DEF AssociationInv
  <1>6. ASSUME NEW c \in Request, FetchServed(c) PROVE AssociationInv'
    <2>1. AssociationTypeOK' /\ MirrorBehind'
      BY <1>6 DEF FetchServed, AssociationInv, AssociationTypeOK, MirrorBehind, Pc, chainVars, TokensIn
    <2>2. \A d \in Request : Pending(d)' => Pending(d)
      BY <1>6 DEF FetchServed, AssociationInv, AssociationTypeOK, Pending
    <2>3. ExecutedInv'
      BY <1>6, <2>2 DEF FetchServed, AssociationInv, ExecutedInv, chainVars
    <2>4. ASSUME Pending(c), Undisturbed(c), token[c] \in answer'[c] PROVE mirror[token[c]] = at[c]
      <3>1. Associated(mirror[token[c]])
        BY <1>6, <2>4 DEF FetchServed, AssociationInv, AssociationTypeOK, TokensIn
      <3> QED BY <2>4, <3>1, SeenIsCurrent
    <2>5. KnownInv'
      BY <1>6, <2>2, <2>4 DEF FetchServed, AssociationInv, AssociationTypeOK, KnownInv, Undisturbed, chainVars
    <2> QED BY <2>1, <2>3, <2>5 DEF AssociationInv
  <1>7. ASSUME NEW c \in Request, NEW set \in SUBSET Token, CheckTokens(c, set),
               pc[c] \in {"waiting", "answered"},
               Pending(c) /\ Undisturbed(c) /\ token[c] \in set => mirror[token[c]] = at[c]
        PROVE  AssociationInv'
    <2>1. AssociationTypeOK' /\ MirrorBehind'
      BY <1>7 DEF CheckTokens, AssociationInv, AssociationTypeOK, MirrorBehind, Pc, chainVars
    <2>2. \A d \in Request : Pending(d)' => Pending(d)
      BY <1>7 DEF CheckTokens, AssociationInv, AssociationTypeOK, Pending
    <2>3. ExecutedInv'
      BY <1>7, <2>2 DEF CheckTokens, AssociationInv, ExecutedInv, chainVars
    <2>4. KnownInv'
      BY <1>7, <2>2 DEF CheckTokens, AssociationInv, AssociationTypeOK, KnownInv, Undisturbed, Satisfied, Pending, chainVars
    <2> QED BY <2>1, <2>3, <2>4 DEF AssociationInv
  <1>8. ASSUME NEW c \in Request, FetchArrives(c) PROVE AssociationInv'
    BY <1>7, <1>8 DEF FetchArrives, AssociationInv, AssociationTypeOK, KnownInv
  <1>9. ASSUME NEW c \in Request, FetchFails(c) PROVE AssociationInv'
    BY <1>7, <1>9 DEF FetchFails, AssociationInv, AssociationTypeOK, KnownInv
  <1>10. ASSUME NEW c \in Request, Refresh(c) PROVE AssociationInv'
    <2>1. AssociationTypeOK' /\ MirrorBehind'
      BY <1>10 DEF Refresh, AssociationInv, AssociationTypeOK, MirrorBehind, Pc, Op, chainVars
    <2>2. \A d \in Request : Pending(d)' => d # c /\ Pending(d)
      BY <1>10 DEF Refresh, AssociationInv, AssociationTypeOK, Pending
    <2>3. ExecutedInv' /\ KnownInv'
      BY <1>10, <2>2 DEF Refresh, AssociationInv, AssociationTypeOK, ExecutedInv, KnownInv, Undisturbed, chainVars
    <2> QED BY <2>1, <2>3 DEF AssociationInv
  <1>11. ASSUME NEW c \in Request, RefreshServed(c) PROVE AssociationInv'
    <2>1. AssociationTypeOK' /\ MirrorBehind'
      BY <1>11 DEF RefreshServed, AssociationInv, AssociationTypeOK, MirrorBehind, Pc, chainVars, TokensIn
    <2>2. \A d \in Request : Pending(d)' => Pending(d)
      BY <1>11 DEF RefreshServed, AssociationInv, AssociationTypeOK, Pending
    <2>3. ExecutedInv'
      BY <1>11, <2>2 DEF RefreshServed, AssociationInv, ExecutedInv, chainVars
    <2>4. ASSUME Pending(c), Undisturbed(c) PROVE token[c] \in answer'[c]
      <3>1. mirror[token[c]] = at[c] /\ Associated(at[c])
        BY <1>11, <2>4 DEF RefreshServed, AssociationInv, KnownInv, ExecutedInv
      <3> QED BY <1>11, <3>1 DEF RefreshServed, AssociationInv, AssociationTypeOK, TokensIn
    <2>5. KnownInv'
      BY <1>11, <2>2, <2>4 DEF RefreshServed, AssociationInv, AssociationTypeOK, KnownInv, Undisturbed, chainVars
    <2> QED BY <2>1, <2>3, <2>5 DEF AssociationInv
  <1>12. ASSUME NEW c \in Request, NEW set \in SUBSET Token, Return(c, set) PROVE AssociationInv'
    <2>1. AssociationTypeOK' /\ MirrorBehind'
      BY <1>12 DEF Return, AssociationInv, AssociationTypeOK, MirrorBehind, Pc, chainVars
    <2>2. \A d \in Request : Pending(d)' => d # c /\ Pending(d)
      BY <1>12 DEF Return, AssociationInv, AssociationTypeOK, Pending
    <2>3. ExecutedInv' /\ KnownInv'
      BY <1>12, <2>2 DEF Return, AssociationInv, AssociationTypeOK, ExecutedInv, KnownInv, Undisturbed, chainVars
    <2> QED BY <2>1, <2>3 DEF AssociationInv
  <1>13. ASSUME NEW c \in Request, RefreshArrives(c) \/ RefreshArrivesUnread(c) \/ RefreshFails(c)
         PROVE  AssociationInv'
    BY <1>12, <1>13 DEF RefreshArrives, RefreshArrivesUnread, RefreshFails, AssociationInv, AssociationTypeOK
  <1>14. ASSUME NEW c \in Request, RefreshUnserved(c) PROVE AssociationInv'
    <2>1. AssociationTypeOK' /\ MirrorBehind'
      BY <1>14 DEF RefreshUnserved, AssociationInv, AssociationTypeOK, MirrorBehind, Pc, chainVars
    <2>2. \A d \in Request : Pending(d)' => Pending(d)
      BY <1>14 DEF RefreshUnserved, AssociationInv, AssociationTypeOK, Pending
    <2>3. ExecutedInv' /\ KnownInv'
      BY <1>14, <2>2 DEF RefreshUnserved, AssociationInv, AssociationTypeOK, ExecutedInv, KnownInv, Undisturbed, chainVars
    <2> QED BY <2>1, <2>3 DEF AssociationInv
  <1>15. CASE UNCHANGED associationVars
    BY <1>15 DEF associationVars, chainVars, callVars, AssociationInv, AssociationTypeOK, MirrorBehind, ExecutedInv, KnownInv,
                 Pending, Undisturbed
  <1> QED BY <1>1, <1>2, <1>3, <1>4, <1>5, <1>6, <1>8, <1>9, <1>10, <1>11, <1>13, <1>14, <1>15 DEF AssociationNext

\* The inductive invariant holds in every reachable state.
THEOREM AssociationInvariance == AssociationSpec => []AssociationInv
  BY AssociationInitOK, AssociationStepOK, PTL DEF AssociationSpec

\* Type correctness, for any tokens and any number of overlapping calls.
THEOREM AssociationTypeCorrect == AssociationSpec => []AssociationTypeOK
  <1>1. AssociationInv => AssociationTypeOK
    BY DEF AssociationInv
  <1> QED BY <1>1, AssociationInvariance, PTL

\* For any tokens, any number of overlapping calls and any delay of the mirror
\* node: when an undisturbed associateWith...() ends, even by a refresh() that
\* failed or could not read the mirror node, the mirror node has the association;
\* the store shows it if that refresh() was answered by the mirror node.
THEOREM AssociatedOnReturn == AssociationSpec => AssociationShown
  <1>1. AssociationInv /\ [AssociationNext]_associationVars => [ShownOnReturn("associate")]_associationVars
    <2> SUFFICES ASSUME AssociationInv, NEW c \in Request, Returns(c), op[c] = "associate", Undisturbed(c)
                 PROVE  /\ Satisfied(c, TokensIn(mirror))
                        /\ RefreshArrives(c) => Satisfied(c, userHasAssociated')
      BY DEF ShownOnReturn
    <2>1. Pending(c) /\ pc[c] \in {"refreshing", "refreshed", "unread"}
      BY DEF Returns, RefreshArrives, RefreshArrivesUnread, RefreshFails, Pending
    <2>2. mirror[token[c]] = at[c] /\ Associated(at[c])
      BY <2>1 DEF AssociationInv, KnownInv, ExecutedInv
    <2>3. Satisfied(c, TokensIn(mirror))
      BY <2>2 DEF Satisfied, TokensIn, AssociationInv, AssociationTypeOK
    <2>4. ASSUME RefreshArrives(c) PROVE Satisfied(c, userHasAssociated')
      BY <2>1, <2>4 DEF RefreshArrives, Return, Satisfied, AssociationInv, KnownInv
    <2> QED BY <2>3, <2>4
  <1> QED BY <1>1, AssociationInvariance, PTL DEF AssociationSpec, AssociationShown

==============================================================================
