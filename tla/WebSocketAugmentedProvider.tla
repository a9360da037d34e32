--------------------- MODULE WebSocketAugmentedProvider ---------------------
(***************************************************************************)
(* The provider mixin of @liquity/providers that takes block events and    *)
(* answers from a WebSocket while one is open, and from the basic provider *)
(* it extends otherwise: opening, losing and reopening the WebSocket, the  *)
(* block listeners of its clients, the receipts they wait for, and the     *)
(* calls that are retried while a node has not got the block yet.          *)
(*                                                                         *)
(* A block is its number; one transaction is waited for.  The nodes behind *)
(* either provider are load-balanced: a request is answered by one that    *)
(* has got some block between synced, which all of them have, and head.    *)
(* MaxBlock stands for every later block, so blocks never cease to come.   *)
(***************************************************************************)
EXTENDS Integers, FiniteSets

CONSTANTS Stores,         \* clients that call on("block") and off("block")
          TxListeners,    \* clients that call once(transactionHash)
          Waits,          \* clients that call waitForTransaction()
          Calls,          \* clients that call call() or getBalance()
          Uses,           \* clients explored together, the block they come at, and a
                          \* bound on calls of openWebSocket() beside them
          MaxBlock,       \* bound on the numbers of blocks
          MaxSockets,     \* bound on WebSockets that exist at a time
          MaxDrops,       \* bound on WebSockets that are lost
          Confirmations   \* the confirmations waitForTransaction() is given

ASSUME ProviderConstants ==
  /\ MaxBlock \in Nat \ {0} /\ MaxSockets \in Nat \ {0}
  /\ MaxDrops \in Nat
  /\ Confirmations \in 1 .. MaxBlock
  /\ \A u \in Uses : /\ u.clients \subseteq Stores \cup TxListeners \cup Waits \cup Calls
                     /\ u.from \in 1 .. MaxBlock /\ u.opens \in Nat

VARIABLES head, synced, mined,   \* the chain
          ws,          \* the WebSockets and what the provider knows of them
          user,        \* what the user of the provider has asked for
          clients,     \* the clients of this behaviour
          seenBlock,   \* _seenBlock
          scheduled,   \* _blockListenerScheduled
          listeners,   \* the keys of _blockListeners
          fetches,     \* receipts that are being fetched
          deferred,    \* listeners a timer is about to call
          told,        \* how often a client of one event has been called
          wait,        \* where waitForTransaction() is
          call         \* where call() is

chainVars == <<head, synced, mined>>
eventVars == <<seenBlock, scheduled, listeners, deferred, told>>
clientVars == <<fetches, wait, call>>
vars == <<chainVars, ws, user, clients, eventVars, clientVars>>

Base == 0
Socket == 1 .. MaxSockets
Block == 0 .. MaxBlock
\* The blocks a node that answers may have got to.
NodeBlock == synced .. head

Min2(a, b) == IF a < b THEN a ELSE b

(***************************************************************************)
(* Block events.  regs[p] is how often _blockListener is registered with   *)
(* provider p, where 2 stands for more than once: on() adds a              *)
(* registration whether there is one or not, and off() takes one away.     *)
(***************************************************************************)
On(n) == Min2(n + 1, 2)
Off(n) == IF n = 2 THEN {1, 2} ELSE {0}

_startBlockEvents(w) == [w EXCEPT !.regs[w.provider] = On(@)]
_stopBlockEvents(w) == {[w EXCEPT !.regs[w.provider] = n] : n \in Off(w.regs[w.provider])}

\* What may become of w: the events move to the provider that is current now.
_switchover(w) ==
  IF listeners = {} THEN {w}
  ELSE IF w.provider # Base
       THEN {_startBlockEvents([w EXCEPT !.regs[Base] = n]) : n \in Off(w.regs[Base])}
       ELSE {_startBlockEvents(w)}

(***************************************************************************)
(* The WebSocket.  timerId is _reconnectTimerId, and orphans counts the    *)
(* timers that run and whose id has been overwritten.                      *)
(***************************************************************************)
FreeSockets(w) == {n \in Socket : w.sock[n] = "none" /\ n # w.provider}

openWebSocket(w) ==
  LET n == CHOOSE m \in FreeSockets(w) : TRUE
  IN _switchover([w EXCEPT !.provider = n, !.sock[n] = "connecting", !.onClose[n] = TRUE,
                           !.regs[n] = 0])

\* The state of a WebSocket that close() has been called on.
Closing(state) == IF state = "none" THEN "none" ELSE "closing"

\* onClose left in place: the user's own close() is taken for a lost connection.
CloseKeepsHandler(w) ==
  IF w.provider = Base THEN {w}
  ELSE LET p == w.provider
       IN {[v EXCEPT !.timerId = "none"] :
             v \in _switchover([w EXCEPT !.sock[p] = Closing(@), !.provider = Base])}

\* The timer whose id is known is cleared, if it still runs.
closeWebSocket(w) ==
  IF w.provider = Base THEN {w}
  ELSE LET p == w.provider
       IN {[v EXCEPT !.timerId = "none"] :
             v \in _switchover([w EXCEPT !.onClose[p] = FALSE, !.sock[p] = Closing(@),
                                         !.provider = Base])}

_onWebSocketClose(w) ==
  {[v EXCEPT !.orphans = IF v.timerId = "pending" THEN @ + 1 ELSE @,
             !.timerId = "pending"] : v \in closeWebSocket(w)}

\* The close event of socket n; requests that went over it are never answered.
Closed(n) ==
  LET w == [ws EXCEPT !.sock[n] = "none", !.regs[n] = 0]
  IN /\ ws' \in IF w.onClose[n] THEN _onWebSocketClose(w) ELSE {w}
     /\ fetches' = {f \in fetches : f.via # n}
     /\ wait' = [k \in DOMAIN wait |->
                   IF \E f \in fetches : f.key = k /\ f.via = n THEN "lost" ELSE wait[k]]
     /\ call' = [c \in DOMAIN call |->
                   IF call[c].via = n THEN [call[c] EXCEPT !.pc = "lost"] ELSE call[c]]

UserOpens ==
  /\ ~user.wanted /\ user.opens > 0 /\ FreeSockets(ws) # {}
  /\ ws' \in openWebSocket(ws)
  /\ user' = [user EXCEPT !.wanted = TRUE, !.opens = @ - 1]
  /\ UNCHANGED <<chainVars, clients, eventVars, clientVars>>

\* raced counts the calls of closeWebSocket() that came while a lost WebSocket
\* had yet to be reopened: they find none, and its timer goes on.
UserCloses ==
  /\ user.wanted
  /\ ws' \in closeWebSocket(ws)
  /\ user' = [user EXCEPT !.wanted = FALSE, !.raced = IF ws.provider = Base THEN @ + 1 ELSE @]
  /\ UNCHANGED <<chainVars, clients, eventVars, clientVars>>

Connected(n) ==
  /\ ws.sock[n] = "connecting"
  /\ ws' = [ws EXCEPT !.sock[n] = "open"]
  /\ UNCHANGED <<chainVars, user, clients, eventVars, clientVars>>

Dropped(n) ==
  /\ ws.sock[n] \in {"connecting", "open"} /\ user.drops < MaxDrops
  /\ Closed(n)
  /\ user' = [user EXCEPT !.drops = @ + 1]
  /\ UNCHANGED <<chainVars, clients, eventVars>>

CloseEvent(n) ==
  /\ ws.sock[n] = "closing"
  /\ Closed(n)
  /\ UNCHANGED <<chainVars, user, clients, eventVars>>

Reconnect ==
  /\ FreeSockets(ws) # {}
  /\ \/ ws.timerId = "pending" /\ ws' \in openWebSocket([ws EXCEPT !.timerId = "fired"])
     \/ ws.orphans > 0 /\ ws' \in openWebSocket([ws EXCEPT !.orphans = @ - 1])
  /\ UNCHANGED <<chainVars, user, clients, eventVars, clientVars>>

(***************************************************************************)
(* The chain.                                                              *)
(***************************************************************************)
\* The transaction is mined early enough for confirmations to be counted.
NewBlock ==
  /\ head < MaxBlock
  /\ head' = head + 1
  /\ \/ mined' = mined
     \/ /\ mined = 0 /\ (clients \cap Waits = {} \/ head + Confirmations <= MaxBlock)
        /\ mined' = head'
  /\ UNCHANGED <<synced, ws, user, clients, eventVars, clientVars>>

NodesSync ==
  /\ synced < head
  /\ synced' = synced + 1
  /\ UNCHANGED <<head, mined, ws, user, clients, eventVars, clientVars>>

Ready == ws.provider # Base /\ ws.sock[ws.provider] = "open"
\* The provider a request goes to.
Via == IF Ready THEN ws.provider ELSE Base

(***************************************************************************)
(* Block events and their listeners.                                       *)
(***************************************************************************)
\* _onBlock(): events of the next 50 ms share one round of the listeners.
_onBlock(p, b) ==
  /\ ws.regs[p] > 0 /\ (p # Base => ws.sock[p] = "open")
  /\ seenBlock' = b
  /\ scheduled' = TRUE
  /\ UNCHANGED <<chainVars, ws, user, clients, listeners, deferred, told, clientVars>>

Fetch(k, b) == [key |-> k, latest |-> b, via |-> Via, pc |-> "receipt"]

\* The round: pass, passOnce and waitFor, by the kind of the listener.
BlockRound ==
  /\ scheduled
  /\ scheduled' = FALSE
  /\ deferred' = deferred \cup {<<k, seenBlock>> : k \in listeners \ TxListeners}
  /\ fetches' = fetches \cup {Fetch(k, seenBlock) : k \in listeners \cap TxListeners}
  /\ listeners' = listeners \ Waits
  /\ UNCHANGED <<chainVars, ws, user, clients, seenBlock, told, wait, call>>

\* Block events start with the first listener and with no other.
_addBlockListener(k) ==
  /\ listeners' = listeners \cup {k}
  /\ ws' = IF listeners = {} THEN _startBlockEvents(ws) ELSE ws

_removeBlockListener(k) ==
  /\ listeners' = listeners \ {k}
  /\ ws' \in IF k \in listeners /\ listeners = {k} THEN _stopBlockEvents(ws) ELSE {ws}

OnBlock(s) ==
  /\ s \in Stores \cap clients /\ s \notin listeners
  /\ _addBlockListener(s)
  /\ UNCHANGED <<chainVars, user, clients, seenBlock, scheduled, deferred, told, clientVars>>

OffBlock(s) ==
  /\ s \in Stores \cap listeners
  /\ _removeBlockListener(s)
  /\ UNCHANGED <<chainVars, user, clients, seenBlock, scheduled, deferred, told, clientVars>>

\* once(transactionHash): a first fetch that waits for no block.
OnceTransaction(k) ==
  /\ k \in TxListeners \cap clients /\ k \notin listeners /\ told[k] = 0
  /\ \A f \in fetches : f.key # k
  /\ \A d \in deferred : d[1] # k
  /\ _addBlockListener(k)
  /\ fetches' = fetches \cup {Fetch(k, 0)}
  /\ UNCHANGED <<chainVars, user, clients, seenBlock, scheduled, deferred, told, wait, call>>

\* The timer of defer(): the listener runs, whether it is still listening or not.
RunDeferred(d) ==
  /\ d \in deferred
  /\ deferred' = deferred \ {d}
  /\ told' = [k \in DOMAIN told |-> IF k = d[1] THEN Min2(told[k] + 1, 2) ELSE told[k]]
  /\ IF d[1] \in Waits /\ wait[d[1]] = "parked"
     THEN /\ wait' = [wait EXCEPT ![d[1]] = "fetching"]
          /\ fetches' = fetches \cup {Fetch(d[1], d[2])}
     ELSE UNCHANGED <<wait, fetches>>
  /\ UNCHANGED <<chainVars, ws, user, clients, seenBlock, scheduled, listeners, call>>

(***************************************************************************)
(* Receipts.  _getTransactionReceiptFromLatest() asks again until the node *)
(* that answers has got the block latest; 0 stands for undefined.          *)
(***************************************************************************)
\* A receipt that lacks confirmations is not waited for with a new listener.
WaitListensOnce(k, found, v) ==
  IF found /\ v - mined + 1 >= Confirmations
  THEN wait' = [wait EXCEPT ![k] = "done"] /\ UNCHANGED <<ws, listeners, deferred>>
  ELSE /\ wait' = [wait EXCEPT ![k] = "parked"]
       /\ IF found THEN UNCHANGED <<ws, listeners>> ELSE _addBlockListener(k)
       /\ UNCHANGED deferred

\* waitForTransaction() goes on with what the fetch has found, at block v.
WaitGoesOn(k, found, v) ==
  IF found /\ v - mined + 1 >= Confirmations
  THEN wait' = [wait EXCEPT ![k] = "done"] /\ UNCHANGED <<ws, listeners, deferred>>
  ELSE wait' = [wait EXCEPT ![k] = "parked"] /\ _addBlockListener(k) /\ UNCHANGED deferred

\* waitFor() and passOnce() of once(transactionHash), if it is still active.
ListenerGoesOn(k, found) ==
  /\ IF found /\ k \in listeners
     THEN listeners' = listeners \ {k} /\ deferred' = deferred \cup {<<k, 0>>}
     ELSE UNCHANGED <<listeners, deferred>>
  /\ UNCHANGED <<ws, wait>>

Fetched(f, found, v) ==
  /\ fetches' = fetches \ {f}
  /\ IF f.key \in Waits THEN WaitGoesOn(f.key, found, v) ELSE ListenerGoesOn(f.key, found)

\* getTransactionReceipt() answers at block v.
ReceiptAnswered(f) ==
  /\ f \in fetches /\ f.pc = "receipt"
  /\ \E v \in NodeBlock :
       LET found == mined # 0 /\ mined <= v
       IN \/ (f.latest = 0 \/ (found /\ v >= f.latest)) /\ Fetched(f, found, v)
          \/ /\ f.latest # 0 /\ ~found
             /\ fetches' = (fetches \ {f}) \cup {[f EXCEPT !.pc = "block", !.via = Via]}
             /\ UNCHANGED <<ws, wait, listeners, deferred>>
          \/ /\ f.latest # 0 /\ found /\ v < f.latest
             /\ fetches' = (fetches \ {f}) \cup {[f EXCEPT !.via = Via]}
             /\ UNCHANGED <<ws, wait, listeners, deferred>>
  /\ UNCHANGED <<chainVars, user, clients, seenBlock, scheduled, told, call>>

\* _blockContainsTx(): asked until a node has got the block.
BlockAnswered(f) ==
  /\ f \in fetches /\ f.pc = "block"
  /\ \E v \in NodeBlock : v >= f.latest
  /\ IF mined = f.latest
     THEN /\ fetches' = (fetches \ {f}) \cup {[f EXCEPT !.pc = "receipt", !.via = Via]}
          /\ UNCHANGED <<ws, wait, listeners, deferred>>
     ELSE Fetched(f, FALSE, 0)
  /\ UNCHANGED <<chainVars, user, clients, seenBlock, scheduled, told, call>>

WaitForTransaction(k) ==
  /\ k \in Waits \cap clients /\ wait[k] = "idle"
  /\ wait' = [wait EXCEPT ![k] = "fetching"]
  /\ fetches' = fetches \cup {Fetch(k, 0)}
  /\ UNCHANGED <<chainVars, ws, user, clients, eventVars, call>>

(***************************************************************************)
(* Calls.  A call at the block seen last is retried for as long as no      *)
(* other block is seen and the node that answers has not got that block.   *)
(***************************************************************************)
NoCall == [pc |-> "idle", tag |-> 0, start |-> 0, via |-> Base, at |-> 0]

\* call() and getBalance() at block tag; 0 stands for the latest block.
Call(c, tag) ==
  /\ c \in Calls \cap clients /\ call[c].pc = "idle"
  /\ call' = [call EXCEPT ![c] =
       [pc |-> "sent", tag |-> tag, start |-> IF tag = seenBlock THEN tag ELSE 0, via |-> Via,
        at |-> 0]]
  /\ UNCHANGED <<chainVars, ws, user, clients, eventVars, fetches, wait>>

\* _retrySeenBlock()
CallAnswered(c) ==
  /\ call[c].pc = "sent"
  /\ \E v \in NodeBlock :
       call' = [call EXCEPT ![c] =
         IF call[c].tag <= v
         THEN [@ EXCEPT !.pc = "answered", !.at = IF call[c].tag = 0 THEN v ELSE call[c].tag]
         ELSE IF call[c].start # 0 /\ seenBlock = call[c].start THEN [@ EXCEPT !.via = Via]
         ELSE [@ EXCEPT !.pc = "rejected"]]
  /\ UNCHANGED <<chainVars, ws, user, clients, eventVars, fetches, wait>>

Init ==
  /\ \E u \in Uses :
       /\ clients = u.clients /\ head = u.from /\ synced = u.from
       /\ user = [wanted |-> FALSE, raced |-> 0, opens |-> u.opens, drops |-> 0]
  /\ mined = 0
  /\ ws = [provider |-> Base, sock |-> [n \in Socket |-> "none"],
           onClose |-> [n \in Socket |-> FALSE], regs |-> [p \in {Base} \cup Socket |-> 0],
           timerId |-> "none", orphans |-> 0]
  /\ seenBlock = 0 /\ scheduled = FALSE
  /\ listeners = {} /\ fetches = {} /\ deferred = {}
  /\ told = [k \in TxListeners |-> 0]
  /\ wait = [k \in Waits |-> "idle"]
  /\ call = [c \in Calls |-> NoCall]

(***************************************************************************)
(* The environment and the timers, which go on whatever the clients do.    *)
(***************************************************************************)
ProviderNext ==
  \/ NewBlock \/ NodesSync
  \/ UserOpens \/ UserCloses \/ Reconnect
  \/ \E n \in Socket : Connected(n) \/ Dropped(n) \/ CloseEvent(n)
  \/ \E p \in {Base} \cup Socket, b \in NodeBlock : _onBlock(p, b)
  \/ BlockRound
  \/ \E s \in Stores : OnBlock(s) \/ OffBlock(s)
  \/ \E k \in TxListeners : OnceTransaction(k)
  \/ \E d \in deferred : RunDeferred(d)
  \/ \E f \in fetches : ReceiptAnswered(f) \/ BlockAnswered(f)
  \/ \E k \in Waits : WaitForTransaction(k)

\* Blocks come and spread, sockets connect or fail, timers fire, nodes answer.
Fairness ==
  /\ WF_vars(NewBlock) /\ WF_vars(NodesSync) /\ WF_vars(Reconnect) /\ WF_vars(BlockRound)
  /\ \A n \in Socket : WF_vars(Connected(n)) /\ WF_vars(CloseEvent(n))
  /\ WF_vars(\E p \in {Base} \cup Socket, b \in NodeBlock : _onBlock(p, b))
  /\ \A k \in TxListeners \cup Waits :
       /\ WF_vars(\E d \in deferred : d[1] = k /\ RunDeferred(d))
       /\ WF_vars(\E f \in fetches : f.key = k /\ (ReceiptAnswered(f) \/ BlockAnswered(f)))

(***************************************************************************)
(* Properties.                                                             *)
(***************************************************************************)
\* The WebSockets that are there and have not been told to close, and the timers
\* that will open one more each.
Alive(w) == {n \in Socket : w.sock[n] \in {"connecting", "open"}}
Coming(w) == (IF w.timerId = "pending" THEN 1 ELSE 0) + w.orphans

\* The user who wants a WebSocket has at most one, open or about to be reopened;
\* after closeWebSocket() no timer, no late close event and no socket brings one
\* back.  This is so but for the calls counted by raced: one that comes during the
\* 10 s in which a lost WebSocket waits to be reopened does not clear the timer
\* (WebSocketAugmentedProvider.ts:110), and the WebSocket comes back and is not
\* closed any more.  Each such call leaves one WebSocket at most, and no other
\* call leaves any.
ClosedIsClosed ==
  Cardinality(Alive(ws)) + Coming(ws) <= (IF user.wanted THEN 1 ELSE 0) + user.raced

\* waitForTransaction() returns once the transaction is mined, whatever
\* happens to the WebSocket, unless its own request went down with one.
WaitsEnd ==
  \A k \in Waits : (mined # 0 /\ wait[k] # "idle") ~> wait[k] \in {"done", "lost"}
=============================================================================
