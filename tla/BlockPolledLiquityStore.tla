----------------------- MODULE BlockPolledLiquityStore -----------------------
(***************************************************************************)
(* The store of lib-ethers: it fetches its state at "latest" when it is    *)
(* started, refreshed or told of an approval, and at the number of the     *)
(* next block whenever 20 seconds have passed; the cache that answers      *)
(* reads from its state; and the consents of EthersLiquity, which send an  *)
(* approval and then refresh the store.                                    *)
(*                                                                         *)
(* A fetch makes one request per contract function.  Each is answered from *)
(* some block that was the latest between the beginning and the end of the *)
(* fetch, or from the block it names: `span` keeps the first and the last  *)
(* of these blocks, and so every combination of answers there may be.      *)
(***************************************************************************)
EXTENDS ReadableEthersLiquity, Integers, FiniteSets, Sequences

CONSTANTS Transaction,    \* kinds of transactions
          Touches,        \* Touches[t]: the contract functions t changes
          Approval,       \* the kind that sets an allowance
          Fetches,        \* fetches and consents that may be under way
          MaxBlock        \* bound on the number of blocks

ASSUME PolledConstants ==
  /\ Approval \in Transaction /\ "hchf.allowance" \in Touches[Approval]
  /\ MaxBlock \in Nat \ {0}

VARIABLES chain,       \* the transactions, one per block, after block 1
          started,     \* the store listens for blocks
          doUpdate,    \* 20 seconds have passed
          fetch,       \* what each call awaits, and since which block
          loaded,      \* _loaded
          span,        \* the blocks that _baseState was answered from
          optimistic,  \* the allowance set by a consent since, or 0
          blockTag     \* state.blockTag, where 0 is undefined

Hashgraph == INSTANCE HashgraphReads
Placeholder == INSTANCE PlaceholderReads

storeVars == <<loaded, span, optimistic, blockTag>>
vars == <<chain, started, doUpdate, fetch, storeVars>>

Property == DOMAIN _get
Function == UNION {_get[p] : p \in Property}
TheAllowance == "hchf.allowance"

head == Len(chain) + 1
\* The value of a function at block b: how often it had been changed.
Value(c, b) == 1 + Cardinality({i \in 1 .. b - 1 : c \in Touches[chain[i]]})

\* The values that the store may be showing for a contract function.
Shown(c) ==
  IF ~loaded THEN {0}
  ELSE IF c = TheAllowance /\ optimistic # 0 THEN {optimistic}
  ELSE {Value(c, b) : b \in span[1] .. span[2]}

NoFetch == [pc |-> "idle", tag |-> 0, from |-> 0, amount |-> 0]

NewBlock(t) ==
  /\ head < MaxBlock /\ t # Approval
  /\ chain' = Append(chain, t)
  /\ UNCHANGED <<started, doUpdate, fetch, storeVars>>

(***************************************************************************)
(* The store.                                                              *)
(***************************************************************************)
Begin(g, pc, tag) ==
  /\ fetch[g].pc = "idle"
  /\ fetch' = [fetch EXCEPT ![g] = [NoFetch EXCEPT !.pc = pc, !.tag = tag, !.from = head]]

\* start(): a first fetch, the interval and the listener for blocks.
Start(g) ==
  /\ ~started
  /\ started' = TRUE /\ doUpdate' = FALSE
  /\ Begin(g, "start", 0)
  /\ UNCHANGED <<chain, storeVars>>

\* The function start() returns: what is under way goes on.
Stop ==
  /\ started
  /\ started' = FALSE /\ doUpdate' = FALSE
  /\ UNCHANGED <<chain, fetch, storeVars>>

IntervalPassed ==
  /\ started /\ ~doUpdate
  /\ doUpdate' = TRUE
  /\ UNCHANGED <<chain, started, fetch, storeVars>>

\* The interval that only ever fires once.
BlockListenerOnce(g) ==
  /\ started /\ doUpdate /\ ~loaded
  /\ doUpdate' = FALSE
  /\ Begin(g, "block", head)
  /\ UNCHANGED <<chain, started, storeVars>>

\* blockListener(), once 20 seconds have passed.
BlockListener(g) ==
  /\ started /\ doUpdate
  /\ doUpdate' = FALSE
  /\ Begin(g, "block", head)
  /\ UNCHANGED <<chain, started, storeVars>>

Refresh(g) ==
  /\ Begin(g, "refresh", 0)
  /\ UNCHANGED <<chain, started, doUpdate, storeVars>>

\* A fetch that names no block leaves the block tag as it is.
_reduceExtra(old, new) == IF new # 0 THEN new ELSE old

\* _load() and _update() with what fetch f has got.
Take(f) ==
  /\ loaded' = TRUE
  /\ span' = IF f.tag = 0 THEN <<f.from, head>> ELSE <<f.tag, f.tag>>
  /\ optimistic' = 0
  /\ blockTag' = IF loaded THEN _reduceExtra(blockTag, f.tag) ELSE f.tag

\* The fetch ends; one of an approval is followed by its optimistic update.
End(g) ==
  fetch' = [fetch EXCEPT ![g] =
    IF @.pc = "approved" THEN [@ EXCEPT !.pc = "optimistic"] ELSE NoFetch]

Fetching == {"start", "block", "refresh", "approved"}

\* All is answered.  The first fetch of start() is dropped if another was faster.
Answered(g) ==
  /\ fetch[g].pc \in Fetching
  /\ IF fetch[g].pc = "start" /\ loaded THEN UNCHANGED storeVars ELSE Take(fetch[g])
  /\ End(g)
  /\ UNCHANGED <<chain, started, doUpdate>>

\* A request fails: start() and blockListener() reject, refresh() warns.
Failed(g) ==
  /\ fetch[g].pc \in Fetching
  /\ End(g)
  /\ UNCHANGED <<chain, started, doUpdate, storeVars>>

(***************************************************************************)
(* Consents: approveHchfToSpendHchf() and its like.                        *)
(***************************************************************************)
\* approveSpender() resolves with the receipt of a transaction in a new block.
Approve(g) ==
  /\ head < MaxBlock /\ fetch[g].pc = "idle"
  /\ chain' = Append(chain, Approval)
  /\ fetch' = [fetch EXCEPT ![g] =
       [pc |-> "approved", tag |-> 0, from |-> head + 1, amount |-> Value(TheAllowance, head) + 1]]
  /\ UNCHANGED <<started, doUpdate, storeVars>>

\* What was approved is added to the allowance the fetch has brought.
OptimisticAdds(g) ==
  /\ fetch[g].pc = "optimistic"
  /\ fetch' = [fetch EXCEPT ![g] = NoFetch]
  /\ \E shown \in Shown(TheAllowance) :
       optimistic' = IF loaded THEN shown + fetch[g].amount ELSE optimistic
  /\ UNCHANGED <<chain, started, doUpdate, loaded, span, blockTag>>

\* _update() asserts that the store is loaded and rejects if it is not.
OptimisticUpdate(g) ==
  /\ fetch[g].pc = "optimistic"
  /\ fetch' = [fetch EXCEPT ![g] = NoFetch]
  /\ optimistic' = IF loaded THEN fetch[g].amount ELSE optimistic
  /\ UNCHANGED <<chain, started, doUpdate, loaded, span, blockTag>>

(***************************************************************************)
(* The cache.  Reads for no block in particular, or for the block of the   *)
(* store's state, are answered from that state.                            *)
(***************************************************************************)
_blockHit(tag) == tag = 0 \/ tag = blockTag

\* What the cache has for a contract function behind a property: the state.
CacheAnswer(c) == Shown(c)

\* What a read of a contract function may return, for block tag.  A read for
\* an address that is not the user's passes the cache by.
CachedRead(c, tag) ==
  IF _blockHit(tag) THEN CacheAnswer(c) ELSE {Value(c, IF tag = 0 THEN head ELSE tag)}

Init ==
  /\ chain = <<>>
  /\ started = FALSE /\ doUpdate = FALSE
  /\ fetch = [g \in Fetches |-> NoFetch]
  /\ loaded = FALSE /\ span = <<0, 0>> /\ optimistic = 0 /\ blockTag = 0

Next ==
  \/ \E t \in Transaction : NewBlock(t)
  \/ Stop \/ IntervalPassed
  \/ \E g \in Fetches :
       \/ Start(g) \/ BlockListener(g) \/ Refresh(g) \/ Answered(g) \/ Failed(g)
       \/ Approve(g) \/ OptimisticUpdate(g)

Spec == Init /\ [][Next]_vars

\* The interval fires and requests end.  A listener that stays subscribed is
\* told of blocks again and again, and not every one of its fetches fails.
Fairness ==
  /\ WF_vars(IntervalPassed)
  /\ SF_vars(\E g \in Fetches : BlockListener(g))
  /\ \A g \in Fetches :
       /\ SF_vars(Answered(g) /\ fetch[g].pc = "block")
       /\ WF_vars(Answered(g) \/ Failed(g) \/ OptimisticUpdate(g))

FairSpec == Spec /\ Fairness

(***************************************************************************)
(* Properties.                                                             *)
(***************************************************************************)
\* However starting, polling, refreshing and consents overlap and fail, the
\* store implements DataStore: it is loaded for good, and what each contract
\* function is shown with is a value that it had.
Abstract == INSTANCE DataStore WITH
  Field <- Function,
  truth <- [c \in Function |-> Value(c, head)],
  loads <- IF loaded THEN 1 ELSE 0,
  shown <- [c \in Function |-> Shown(c)]
ImplementsDataStore == Abstract!Spec

\* A store that is started and not stopped again catches up with the chain,
\* even if fetches overlap, end out of order or fail now and then.
CatchesUp ==
  <>[]started => <>[](\A c \in Function : Shown(c) = {Value(c, head)})

\* What a fetch at block b gets for a property, read from these functions.
At(functions, b) == [c \in functions |-> Value(c, b)]

\* The implementations of the store agree on what a property is: at the same
\* block they get the same for it, or make it up without reading anything.
\* (lib-hashgraph asks for the address of the LP token, lib-ethers knows it;
\* the balance that lib-placeholder makes up depends on the price.)
SameReads ==
  \A p \in Property, b \in 1 .. head :
    LET hashgraph == Hashgraph!fetchStoreValues[p]
        placeholder == Placeholder!fetchStoreValues[p]
    IN  /\ hashgraph # {} => At(hashgraph \ {"uniToken"}, b) = At(_get[p], b)
        /\ placeholder \in {{}, Placeholder!getPrice} \/ At(placeholder, b) = At(hashgraph, b)

=============================================================================
