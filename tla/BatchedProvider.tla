--------------------------- MODULE BatchedProvider ---------------------------
(***************************************************************************)
(* The provider mixin of @liquity/providers that gathers the calls of the  *)
(* next 10 ms for the same block into one call of the Multicall contract,  *)
(* on top of the WebSocket-augmented provider: Batched(WebSocketAugmented).*)
(* BatchingProvider.ts of the user interface is the same machine over      *)
(* another provider.                                                       *)
(*                                                                         *)
(* A caller's request is named after the caller.  The super.call() made    *)
(* for a batch goes under the name of the first caller in it.              *)
(***************************************************************************)
EXTENDS WebSocketAugmentedProvider, SequencesExt

VARIABLES multicall,   \* _multicall is there: the chain has a Multicall contract
          batched,     \* _batched: the block and the callers, in order
          timer,       \* the timer of _timeoutId: none, running or due
          flying,      \* the callbacks of each super.call() under way, in order
          read         \* where each caller is, and what it has been answered

batchVars == <<multicall, batched, timer, flying, read>>
allVars == <<vars, batchVars>>

emptyBatch == [tag |-> 0, calls |-> <<>>]
\* 0 stands for no answer: a caller that has not asked, or that got an error.
NoRead == [pc |-> "idle", tag |-> 0, answer |-> 0]

\* set chainId: of a chain that has a Multicall contract, and only once.
SetChainId ==
  /\ ~multicall /\ clients \cap Calls # {}
  /\ multicall' = TRUE
  /\ UNCHANGED <<vars, batched, timer, flying, read>>

\* Calls for any block join the batch.
NoConflict(tag) == FALSE

_alreadyBatchedCallsConflictWith(tag) == batched.calls # <<>> /\ tag # batched.tag

\* super.call(): the call goes on by itself.
SuperCall(k, tag) ==
  /\ Call(k, tag)
  /\ flying' = [flying EXCEPT ![k] = <<k>>]
  /\ UNCHANGED <<batched, timer>>

\* Only the first call of the batch starts the timer, though each clears it.
EnqueueStartsOnce(k, tag) ==
  /\ batched' = [tag |-> IF batched.calls = <<>> THEN tag ELSE batched.tag,
                 calls |-> Append(batched.calls, k)]
  /\ timer' = IF batched.calls = <<>> THEN "running" ELSE "none"
  /\ UNCHANGED <<vars, flying>>

\* Every call of the batch starts its timer anew.
_enqueueCall(k, tag) ==
  /\ batched' = [tag |-> IF batched.calls = <<>> THEN tag ELSE batched.tag,
                 calls |-> Append(batched.calls, k)]
  /\ timer' = "running"
  /\ UNCHANGED <<vars, flying>>

\* call(), and getBalance() of an address, once the request and the block are
\* known.  A caller asks again only when it has got its answer.
BatchedCall(k, tag, batchable) ==
  /\ k \in Calls \cap clients /\ read[k].pc = "idle"
  /\ read' = [read EXCEPT ![k] = [pc |-> "waiting", tag |-> tag, answer |-> 0]]
  /\ IF ~multicall \/ ~batchable \/ _alreadyBatchedCallsConflictWith(tag)
     THEN SuperCall(k, tag)
     ELSE _enqueueCall(k, tag)
  /\ UNCHANGED multicall

\* A call that nobody here waits for joins the batch: one of the many that a
\* store or a page makes at a time, and there may always be another.
OthersJoin ==
  /\ multicall /\ batched.calls # <<>>
  /\ timer' = "running"
  /\ UNCHANGED <<vars, multicall, batched, flying, read>>

TimerDue ==
  /\ timer = "running"
  /\ timer' = "due"
  /\ UNCHANGED <<vars, multicall, batched, flying, read>>

\* The batch is taken and emptied before its call is made.
_dispatchCalls ==
  /\ timer = "due"
  /\ timer' = "none"
  /\ batched' = emptyBatch
  /\ Call(Head(batched.calls), batched.tag)
  /\ flying' = [flying EXCEPT ![Head(batched.calls)] = batched.calls]
  /\ UNCHANGED <<multicall, read>>

SuperAnswered(c) == CallAnswered(c) /\ UNCHANGED batchVars

\* The callbacks of the batch get what the call has returned: an answer of
\* the aggregate each, or the error of the call all of them.
Settle(c) ==
  /\ call[c].pc \in {"answered", "rejected"}
  /\ read' = [k \in DOMAIN read |->
                IF k \in ToSet(flying[c])
                THEN [read[k] EXCEPT !.pc = "idle", !.answer = call[c].at]
                ELSE read[k]]
  /\ flying' = [flying EXCEPT ![c] = <<>>]
  /\ call' = [call EXCEPT ![c] = NoCall]
  /\ UNCHANGED <<chainVars, ws, user, clients, eventVars, fetches, wait,
                 multicall, batched, timer>>

BatchedInit ==
  /\ Init
  /\ multicall = FALSE /\ batched = emptyBatch /\ timer = "none"
  /\ flying = [c \in Calls |-> <<>>]
  /\ read = [c \in Calls |-> NoRead]

BatchedNext ==
  \/ ProviderNext /\ UNCHANGED batchVars
  \/ SetChainId
  \/ \E k \in Calls, tag \in 0 .. head, b \in BOOLEAN : BatchedCall(k, tag, b)
  \/ OthersJoin \/ TimerDue \/ _dispatchCalls
  \/ \E c \in Calls : SuperAnswered(c) \/ Settle(c)

BatchedSpec ==
  /\ BatchedInit /\ [][BatchedNext]_allVars
  /\ Fairness
  /\ WF_allVars(TimerDue) /\ WF_allVars(_dispatchCalls)
  /\ \A c \in Calls : WF_allVars(SuperAnswered(c) \/ Settle(c))

(***************************************************************************)
(* Properties.                                                             *)
(***************************************************************************)
\* A caller that asked for a block is answered from that block, whatever the
\* calls of other callers that its own has been batched with asked for.
AnswersItsBlock ==
  \A k \in Calls : read[k].tag # 0 => read[k].answer \in {0, read[k].tag}

\* Every call that joins a batch puts the batch off for 10 ms, so calls that
\* keep coming put it off forever, and with it the calls that wait in it.  That
\* is the only way to wait forever: any other call settles, or its request went
\* down with a WebSocket.
ReadsSettle ==
  \A k \in Calls :
    \/ read[k].pc = "waiting" ~>
         \/ read[k].pc = "idle"
         \/ \E c \in Calls : k \in ToSet(flying[c]) /\ call[c].pc = "lost"
    \/ []<><<OthersJoin /\ k \in ToSet(batched.calls)>>_allVars
=============================================================================
