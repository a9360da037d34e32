-------------------- MODULE BlockPolledLiquityStoreProofs --------------------
(***************************************************************************)
(* The store of lib-ethers implements DataStore, for any number of fetches *)
(* and consents under way, any transactions and any number of blocks.      *)
(***************************************************************************)
EXTENDS BlockPolledLiquityStore, FiniteSetTheorems, SequenceTheorems, TLAPS

\* Value(c, b) on a given chain.
Count(ch, c, b) == 1 + Cardinality({i \in 1 .. b - 1 : c \in Touches[ch[i]]})

LEMMA CountType ==
  ASSUME NEW ch, NEW c, NEW b \in Nat
  PROVE  Count(ch, c, b) \in Nat \ {0}
  <1> DEFINE S == {i \in 1 .. b - 1 : c \in Touches[ch[i]]}
  <1>1. IsFiniteSet(1 .. b - 1)
    BY FS_Interval
  <1>2. IsFiniteSet(S)
    BY <1>1, FS_Subset, S \in SUBSET (1 .. b - 1)
  <1>3. Cardinality(S) \in Nat
    BY <1>2, FS_CardinalityType
  <1> QED
    BY <1>3 DEF Count

\* A function changes more often the longer the chain.
LEMMA CountMonotone ==
  ASSUME NEW ch, NEW c, NEW a \in Nat, NEW b \in Nat, a <= b
  PROVE  Count(ch, c, a) <= Count(ch, c, b)
  <1> DEFINE S == {i \in 1 .. a - 1 : c \in Touches[ch[i]]}
             T == {i \in 1 .. b - 1 : c \in Touches[ch[i]]}
  <1>1. IsFiniteSet(1 .. b - 1)
    BY FS_Interval
  <1>2. IsFiniteSet(T)
    BY <1>1, FS_Subset, T \in SUBSET (1 .. b - 1)
  <1>3. S \in SUBSET T
    OBVIOUS
  <1>4. IsFiniteSet(S) /\ Cardinality(S) <= Cardinality(T)
    BY <1>2, <1>3, FS_Subset
  <1>5. Cardinality(S) \in Nat /\ Cardinality(T) \in Nat
    BY <1>2, <1>4, FS_CardinalityType
  <1> HIDE DEF S, T
  <1>6. 1 + Cardinality(S) <= 1 + Cardinality(T)
    BY <1>4, <1>5
  <1> QED
    BY <1>6 DEF Count, S, T

\* A new block changes nothing of what was at the blocks before it.
LEMMA CountAppend ==
  ASSUME NEW ch \in Seq(Transaction), NEW t \in Transaction, NEW c,
         NEW b \in Nat, b <= Len(ch) + 1
  PROVE  Count(Append(ch, t), c, b) = Count(ch, c, b)
  <1>1. \A i \in 1 .. b - 1 : Append(ch, t)[i] = ch[i]
    BY AppendProperties
  <1>2. {i \in 1 .. b - 1 : c \in Touches[Append(ch, t)[i]]}
        = {i \in 1 .. b - 1 : c \in Touches[ch[i]]}
    BY <1>1
  <1> QED
    BY <1>2 DEF Count

\* A transaction that touches a function changes it once.
LEMMA CountTouched ==
  ASSUME NEW ch \in Seq(Transaction), NEW t \in Transaction, NEW c, c \in Touches[t]
  PROVE  Count(Append(ch, t), c, Len(ch) + 2) = Count(ch, c, Len(ch) + 1) + 1
  <1> DEFINE n == Len(ch)
             S == {i \in 1 .. n : c \in Touches[ch[i]]}
             T == {i \in 1 .. n + 1 : c \in Touches[Append(ch, t)[i]]}
  <1>1. n \in Nat /\ (n + 1) - 1 = n /\ (n + 2) - 1 = n + 1
    BY LenProperties
  <1>2. \A i \in 1 .. n : Append(ch, t)[i] = ch[i]
    BY AppendProperties
  <1>3. Append(ch, t)[n + 1] = t
    BY AppendProperties
  <1> HIDE DEF n
  <1>4. T = S \cup {n + 1}
    <2>1. ASSUME NEW i \in 1 .. n
          PROVE  i \in T <=> i \in S
      <3>1. i \in 1 .. n + 1
        BY <1>1
      <3> QED
        BY <1>2, <3>1
    <2>2. n + 1 \in T
      <3>1. n + 1 \in 1 .. n + 1
        BY <1>1
      <3>2. c \in Touches[Append(ch, t)[n + 1]]
        BY <1>3
      <3> QED
        BY <3>1, <3>2
    <2>3. \A i \in T : i \in 1 .. n \/ i = n + 1
      BY <1>1
    <2> HIDE DEF T
    <2> QED
      BY <2>1, <2>2, <2>3
  <1>5. IsFiniteSet(1 .. n)
    BY <1>1, FS_Interval
  <1>6. IsFiniteSet(S)
    BY <1>5, FS_Subset, S \in SUBSET (1 .. n)
  <1>7. n + 1 \notin S
    BY <1>1
  <1>8. Cardinality(S) \in Nat
    BY <1>6, FS_CardinalityType
  <1>9. Cardinality(T) = Cardinality(S) + 1
    BY <1>4, <1>6, <1>7, FS_AddElement
  <1>10. Count(ch, c, n + 1) = 1 + Cardinality(S)
    BY <1>1 DEF Count
  <1>11. Count(Append(ch, t), c, n + 2) = 1 + Cardinality(T)
    BY <1>1 DEF Count
  <1> HIDE DEF S, T
  <1>12. Count(Append(ch, t), c, n + 2) = Count(ch, c, n + 1) + 1
    BY <1>8, <1>9, <1>10, <1>11
  <1> QED
    BY <1>12 DEF n

-----------------------------------------------------------------------------
(***************************************************************************)
(* The invariant: the blocks and the allowances that fetches, consents and *)
(* the store carry are on the chain.                                       *)
(***************************************************************************)
Allowed(a) == a \in 1 .. Value(TheAllowance, head)

FetchType == [pc : Fetching \cup {"idle", "optimistic"}, tag : Nat, from : Nat, amount : Nat]

FetchInv(f) ==
  /\ f.pc \in Fetching => f.tag \in 0 .. head /\ f.from \in 1 .. head
  /\ f.pc \in {"approved", "optimistic"} => Allowed(f.amount)

StoreInv ==
  /\ loaded \in BOOLEAN
  /\ span \in Nat \X Nat
  /\ optimistic \in Nat
  /\ loaded => 1 <= span[1] /\ span[1] <= span[2] /\ span[2] <= head
  /\ optimistic # 0 => Allowed(optimistic)

Inv ==
  /\ chain \in Seq(Transaction)
  /\ fetch \in [Fetches -> FetchType]
  /\ \A g \in Fetches : FetchInv(fetch[g])
  /\ StoreInv

LEMMA HeadType ==
  ASSUME chain \in Seq(Transaction)
  PROVE  head \in Nat \ {0}
  BY LenProperties DEF head

LEMMA AllowanceType ==
  ASSUME chain \in Seq(Transaction)
  PROVE  Value(TheAllowance, head) \in Nat \ {0}
  <1>1. Count(chain, TheAllowance, head) \in Nat \ {0}
    BY HeadType, CountType
  <1> QED
    BY <1>1 DEF Value, Count

\* What a loaded store shows is real.
Real == \A c : Shown(c) # {} /\ Shown(c) \subseteq 1 .. Value(c, head)

LEMMA ShownIsReal == Inv /\ loaded => Real
  <1> SUFFICES ASSUME Inv, loaded, NEW c
               PROVE  Shown(c) # {} /\ Shown(c) \subseteq 1 .. Value(c, head)
    BY DEF Real
  <1>1. CASE c = TheAllowance /\ optimistic # 0
    BY <1>1 DEF Inv, StoreInv, Allowed, Shown
  <1>2. CASE ~(c = TheAllowance /\ optimistic # 0)
    <2>1. Shown(c) = {Count(chain, c, b) : b \in span[1] .. span[2]}
      BY <1>2 DEF Shown, Value, Count
    <2>2. head \in Nat /\ span[1] \in Nat /\ span[2] \in Nat
          /\ span[1] <= span[2] /\ span[2] <= head
      BY HeadType DEF Inv, StoreInv
    <2>3. span[1] \in span[1] .. span[2]
      BY <2>2
    <2>4. ASSUME NEW b \in span[1] .. span[2]
          PROVE  Count(chain, c, b) \in 1 .. Count(chain, c, head)
      <3>1. b \in Nat /\ b <= head
        BY <2>2
      <3>2. Count(chain, c, b) \in Nat \ {0} /\ Count(chain, c, head) \in Nat \ {0}
        BY <2>2, <3>1, CountType
      <3>3. Count(chain, c, b) <= Count(chain, c, head)
        BY <2>2, <3>1, CountMonotone
      <3> QED
        BY <3>2, <3>3
    <2>5. Value(c, head) = Count(chain, c, head)
      BY DEF Value, Count
    <2> QED
      BY <2>1, <2>3, <2>4, <2>5
  <1> QED
    BY <1>1, <1>2

\* A new block leaves what is on the chain there.
LEMMA BlockStep ==
  ASSUME Inv, NEW t \in Transaction, chain' = Append(chain, t)
  PROVE  /\ chain' \in Seq(Transaction)
         /\ head' = head + 1
         /\ \A c : Value(c, head)' >= Value(c, head)
         /\ \A c : Value(c, head) \in Nat /\ Value(c, head)' \in Nat
         /\ UNCHANGED storeVars => \A c : Shown(c)' = Shown(c)
         /\ t = Approval => Value(TheAllowance, head)' = Value(TheAllowance, head) + 1
  <1>1. chain \in Seq(Transaction) /\ head \in Nat \ {0} /\ Len(chain) \in Nat
    BY HeadType, LenProperties DEF Inv
  <1>2. chain' \in Seq(Transaction) /\ head' = head + 1
    BY <1>1, AppendProperties DEF head
  <1>3. ASSUME NEW c
        PROVE  /\ Value(c, head)' >= Value(c, head)
               /\ Value(c, head) \in Nat /\ Value(c, head)' \in Nat
    <2>1. Value(c, head)' = Count(chain', c, head + 1)
      BY <1>2 DEF Value, Count
    <2>2. Value(c, head) = Count(chain', c, head)
      <3>1. head \in Nat /\ head <= Len(chain) + 1
        BY <1>1 DEF head
      <3>2. Count(chain', c, head) = Count(chain, c, head)
        BY <1>1, <3>1, CountAppend
      <3> QED
        BY <3>2 DEF Value, Count
    <2>3. Count(chain', c, head) <= Count(chain', c, head + 1)
      BY <1>1, CountMonotone
    <2>4. Count(chain', c, head) \in Nat /\ Count(chain', c, head + 1) \in Nat
      BY <1>1, CountType
    <2> QED
      BY <2>1, <2>2, <2>3, <2>4
  <1>4. ASSUME NEW c, UNCHANGED storeVars
        PROVE  Shown(c)' = Shown(c)
    <2>1. CASE ~loaded \/ (c = TheAllowance /\ optimistic # 0)
      BY <1>4, <2>1 DEF Shown, storeVars
    <2>2. CASE loaded /\ ~(c = TheAllowance /\ optimistic # 0)
      <3>1. Shown(c) = {Count(chain, c, b) : b \in span[1] .. span[2]}
        BY <2>2 DEF Shown, Value, Count
      <3>2. Shown(c)' = {Count(chain', c, b) : b \in span[1] .. span[2]}
        BY <1>4, <2>2 DEF Shown, Value, Count, storeVars
      <3>3. ASSUME NEW b \in span[1] .. span[2]
            PROVE  Count(chain', c, b) = Count(chain, c, b)
        <4>1. b \in Nat /\ b <= Len(chain) + 1
          BY <1>1, <2>2 DEF Inv, StoreInv, head
        <4> QED
          BY <1>1, <4>1, CountAppend
      <3> QED
        BY <3>1, <3>2, <3>3
    <2> QED
      BY <2>1, <2>2
  <1>5. ASSUME t = Approval
        PROVE  Value(TheAllowance, head)' = Value(TheAllowance, head) + 1
    <2>1. TheAllowance \in Touches[Approval]
      BY PolledConstants DEF TheAllowance
    <2>2. Count(chain', TheAllowance, Len(chain) + 2) = Count(chain, TheAllowance, Len(chain) + 1) + 1
      BY <1>1, <1>5, <2>1, CountTouched
    <2>3. head' = Len(chain) + 2 /\ head = Len(chain) + 1
      BY <1>1, <1>2 DEF head
    <2>4. Value(TheAllowance, head)' = Count(chain', TheAllowance, Len(chain) + 2)
      BY <2>3 DEF Value, Count
    <2>5. Value(TheAllowance, head) = Count(chain, TheAllowance, Len(chain) + 1)
      BY <2>3 DEF Value, Count
    <2> QED
      BY <2>2, <2>4, <2>5
  <1> QED
    BY <1>2, <1>3, <1>4, <1>5

\* Between blocks nothing on the chain changes.
LEMMA SameChain ==
  ASSUME UNCHANGED chain
  PROVE  /\ head' = head
         /\ \A c, b : Value(c, b)' = Value(c, b)
         /\ \A a : Allowed(a)' <=> Allowed(a)
  BY DEF head, Value, Allowed

\* A call that takes its next step, and the others.
LEMMA FetchStep ==
  ASSUME Inv, UNCHANGED chain, NEW g \in Fetches, NEW f \in FetchType, FetchInv(f),
         fetch' = [fetch EXCEPT ![g] = f]
  PROVE  fetch' \in [Fetches -> FetchType] /\ \A h \in Fetches : FetchInv(fetch[h])'
  <1>1. fetch' \in [Fetches -> FetchType]
    BY DEF Inv
  <1>2. ASSUME NEW h \in Fetches PROVE FetchInv(fetch'[h])
    BY DEF Inv
  <1> QED
    BY <1>1, <1>2, SameChain DEF FetchInv

LEMMA BeginStep ==
  ASSUME Inv, UNCHANGED chain, NEW g \in Fetches, NEW pc \in Fetching \ {"approved"},
         NEW tag \in 0 .. head, Begin(g, pc, tag)
  PROVE  fetch' \in [Fetches -> FetchType] /\ \A h \in Fetches : FetchInv(fetch[h])'
  <1> DEFINE f == [NoFetch EXCEPT !.pc = pc, !.tag = tag, !.from = head]
  <1>1. fetch' = [fetch EXCEPT ![g] = f]
    BY DEF Begin
  <1>2. head \in Nat \ {0}
    BY HeadType DEF Inv
  <1>3. f \in FetchType
    <2>1. NoFetch \in FetchType
      BY DEF NoFetch, FetchType
    <2>2. tag \in Nat /\ head \in Nat /\ pc \in Fetching
      BY <1>2
    <2>3. [NoFetch EXCEPT !.pc = pc] \in FetchType
      BY <2>1, <2>2 DEF FetchType
    <2>4. [[NoFetch EXCEPT !.pc = pc] EXCEPT !.tag = tag] \in FetchType
      BY <2>2, <2>3 DEF FetchType
    <2>5. [[[NoFetch EXCEPT !.pc = pc] EXCEPT !.tag = tag] EXCEPT !.from = head] \in FetchType
      BY <2>2, <2>4 DEF FetchType
    <2> QED
      BY <2>5
  <1>4. FetchInv(f)
    BY <1>2 DEF FetchInv, Fetching, NoFetch
  <1> QED
    BY <1>1, <1>3, <1>4, FetchStep

LEMMA EndStep ==
  ASSUME Inv, UNCHANGED chain, NEW g \in Fetches, End(g)
  PROVE  fetch' \in [Fetches -> FetchType] /\ \A h \in Fetches : FetchInv(fetch[h])'
  <1>1. fetch[g] \in FetchType /\ FetchInv(fetch[g])
    BY DEF Inv
  <1>2. CASE fetch[g].pc = "approved"
    <2> DEFINE f == [fetch[g] EXCEPT !.pc = "optimistic"]
    <2>1. fetch' = [fetch EXCEPT ![g] = f]
      BY <1>2 DEF End, Inv
    <2>2. f \in FetchType
      BY <1>1 DEF FetchType
    <2>3. FetchInv(f)
      BY <1>1, <1>2 DEF FetchInv, FetchType, Fetching
    <2> QED
      BY <2>1, <2>2, <2>3, FetchStep
  <1>3. CASE fetch[g].pc # "approved"
    <2>1. fetch' = [fetch EXCEPT ![g] = NoFetch]
      BY <1>3 DEF End, Inv
    <2>2. NoFetch \in FetchType /\ FetchInv(NoFetch)
      BY DEF NoFetch, FetchType, FetchInv, Fetching
    <2> QED
      BY <2>1, <2>2, FetchStep
  <1> QED
    BY <1>2, <1>3

\* Taking the answers of a fetch.
LEMMA TakeStep ==
  ASSUME Inv, UNCHANGED chain, NEW g \in Fetches, fetch[g].pc \in Fetching, Take(fetch[g])
  PROVE  StoreInv'
  <1>1. fetch[g] \in FetchType /\ fetch[g].tag \in 0 .. head /\ fetch[g].from \in 1 .. head
    BY DEF Inv, FetchInv
  <1>2. head \in Nat \ {0} /\ head' = head
    BY HeadType, SameChain DEF Inv
  <1>3. span' \in Nat \X Nat /\ 1 <= span'[1] /\ span'[1] <= span'[2] /\ span'[2] <= head
    BY <1>1, <1>2 DEF Take
  <1> QED
    BY <1>2, <1>3 DEF Take, StoreInv

LEMMA StoreKept ==
  ASSUME Inv, UNCHANGED chain, UNCHANGED storeVars
  PROVE  StoreInv'
  BY SameChain DEF Inv, StoreInv, storeVars

\* Where a block is added.
LEMMA BlockKeeps ==
  ASSUME Inv, NEW t \in Transaction, chain' = Append(chain, t), UNCHANGED storeVars
  PROVE  StoreInv' /\ \A f \in FetchType : FetchInv(f) => FetchInv(f)'
  <1>1. \A a \in Nat : Allowed(a) => Allowed(a)'
    <2>1. Value(TheAllowance, head)' >= Value(TheAllowance, head)
          /\ Value(TheAllowance, head) \in Nat /\ Value(TheAllowance, head)' \in Nat
      BY BlockStep
    <2> QED
      BY <2>1 DEF Allowed
  <1>2. head' = head + 1 /\ head \in Nat
    BY BlockStep, HeadType DEF Inv
  <1>3. StoreInv'
    BY <1>1, <1>2 DEF Inv, StoreInv, storeVars
  <1>4. ASSUME NEW f \in FetchType, FetchInv(f) PROVE FetchInv(f)'
    BY <1>1, <1>2, <1>4 DEF FetchInv, FetchType
  <1> QED
    BY <1>3, <1>4

\* A step of the store or of the chain is one of what a store promises.
Implements == [Abstract!Next]_(Abstract!storeVars)

LEMMA BlockImplements ==
  ASSUME Inv, NEW t \in Transaction, chain' = Append(chain, t), UNCHANGED storeVars
  PROVE  Implements
  <1>1. \A c : Value(c, head)' >= Value(c, head)
    BY BlockStep
  <1>2. \A c : Shown(c)' = Shown(c)
    BY BlockStep
  <1>3. loaded' = loaded
    BY DEF storeVars
  <1> QED
    BY <1>1, <1>2, <1>3 DEF Implements, Abstract!Next, Abstract!Write

LEMMA KeepImplements ==
  ASSUME UNCHANGED chain, UNCHANGED storeVars
  PROVE  Implements
  <1>1. \A c : Shown(c)' = Shown(c)
    BY SameChain DEF Shown, storeVars
  <1>2. \A c : Value(c, head)' = Value(c, head)
    BY DEF head, Value
  <1>3. loaded' = loaded
    BY DEF storeVars
  <1> QED
    BY <1>1, <1>2, <1>3 DEF Implements, Abstract!storeVars

LEMMA ShowImplements ==
  ASSUME Inv', UNCHANGED chain, loaded' = TRUE
  PROVE  Implements
  <1>1. \A c : Value(c, head)' = Value(c, head)
    BY DEF head, Value
  <1>2. (Inv /\ loaded)' => Real'
    BY ShownIsReal, PTL
  <1>3. Real'
    BY <1>2
  <1> QED
    BY <1>1, <1>3 DEF Implements, Abstract!Next, Abstract!Show, Real

LEMMA Step ==
  ASSUME Inv, [Next]_vars
  PROVE  Inv' /\ Implements
  <1>1. CASE UNCHANGED vars
    <2>1. UNCHANGED <<chain, fetch, storeVars>>
      BY <1>1 DEF vars
    <2>2. Inv'
      BY <2>1, SameChain, StoreKept DEF Inv, FetchInv
    <2> QED
      BY <2>1, <2>2, KeepImplements
  <1>2. ASSUME NEW t \in Transaction, NewBlock(t)
        PROVE  Inv' /\ Implements
    <2>1. chain' = Append(chain, t) /\ UNCHANGED <<fetch, storeVars>>
      BY <1>2 DEF NewBlock
    <2>2. StoreInv' /\ \A f \in FetchType : FetchInv(f) => FetchInv(f)'
      BY <2>1, BlockKeeps
    <2>3. \A h \in Fetches : fetch[h] \in FetchType /\ FetchInv(fetch[h])
      BY DEF Inv
    <2>4. \A h \in Fetches : FetchInv(fetch[h])'
      BY <2>1, <2>2, <2>3 DEF FetchInv
    <2>5. Inv'
      BY <2>1, <2>2, <2>4, BlockStep DEF Inv
    <2> QED
      BY <2>1, <2>5, BlockImplements
  <1>3. CASE Stop \/ IntervalPassed
    <2>1. UNCHANGED <<chain, fetch, storeVars>>
      BY <1>3 DEF Stop, IntervalPassed
    <2>2. Inv'
      BY <2>1, SameChain, StoreKept DEF Inv, FetchInv
    <2> QED
      BY <2>1, <2>2, KeepImplements
  <1>4. ASSUME NEW g \in Fetches, Start(g) \/ BlockListener(g) \/ Refresh(g)
        PROVE  Inv' /\ Implements
    <2>1. UNCHANGED <<chain, storeVars>>
      BY <1>4 DEF Start, BlockListener, Refresh
    <2>2. head \in Nat \ {0}
      BY HeadType DEF Inv
    <2>3. \E pc \in Fetching \ {"approved"}, tag \in 0 .. head : Begin(g, pc, tag)
      BY <1>4, <2>2 DEF Start, BlockListener, Refresh, Fetching
    <2>4. fetch' \in [Fetches -> FetchType] /\ \A h \in Fetches : FetchInv(fetch[h])'
      BY <2>1, <2>3, BeginStep
    <2>5. Inv'
      BY <2>1, <2>4, StoreKept DEF Inv
    <2> QED
      BY <2>1, <2>5, KeepImplements
  <1>5. ASSUME NEW g \in Fetches, Answered(g) \/ Failed(g)
        PROVE  Inv' /\ Implements
    <2>1. fetch[g].pc \in Fetching /\ UNCHANGED chain /\ End(g)
          /\ (UNCHANGED storeVars \/ Take(fetch[g]))
      BY <1>5 DEF Answered, Failed
    <2>2. fetch' \in [Fetches -> FetchType] /\ \A h \in Fetches : FetchInv(fetch[h])'
      BY <2>1, EndStep
    <2>3. StoreInv'
      BY <2>1, StoreKept, TakeStep
    <2>4. Inv'
      BY <2>1, <2>2, <2>3 DEF Inv
    <2>5. UNCHANGED storeVars \/ loaded' = TRUE
      BY <2>1 DEF Take
    <2> QED
      BY <2>1, <2>4, <2>5, KeepImplements, ShowImplements
  <1>6. ASSUME NEW g \in Fetches, Approve(g)
        PROVE  Inv' /\ Implements
    <2> DEFINE f == [pc |-> "approved", tag |-> 0, from |-> head + 1,
                     amount |-> Value(TheAllowance, head) + 1]
    <2>1. chain' = Append(chain, Approval) /\ UNCHANGED storeVars
          /\ fetch' = [fetch EXCEPT ![g] = f] /\ Approval \in Transaction
      BY <1>6, PolledConstants DEF Approve
    <2>2. head \in Nat \ {0} /\ head' = head + 1 /\ Value(TheAllowance, head) \in Nat
          /\ Value(TheAllowance, head)' = Value(TheAllowance, head) + 1
      BY <2>1, HeadType, BlockStep DEF Inv
    <2>3. f \in FetchType
      BY <2>2 DEF FetchType, Fetching
    <2>5. StoreInv' /\ \A x \in FetchType : FetchInv(x) => FetchInv(x)'
      BY <2>1, BlockKeeps
    <2>6. fetch' \in [Fetches -> FetchType]
      BY <2>1, <2>3 DEF Inv
    <2>7. ASSUME NEW h \in Fetches PROVE FetchInv(fetch[h])'
      <3>1. CASE h = g
        <4>1. fetch'[h].pc = "approved" /\ fetch'[h].tag = 0 /\ fetch'[h].from = head'
              /\ fetch'[h].amount = Value(TheAllowance, head)'
          BY <2>1, <2>2, <3>1 DEF Inv
        <4> QED
          BY <2>2, <4>1 DEF FetchInv, Allowed
      <3>2. CASE h # g
        <4>1. fetch'[h] = fetch[h] /\ fetch[h] \in FetchType /\ FetchInv(fetch[h])
          BY <2>1, <3>2 DEF Inv
        <4> QED
          BY <2>5, <4>1 DEF FetchInv
      <3> QED
        BY <3>1, <3>2
    <2>8. Inv'
      BY <2>1, <2>5, <2>6, <2>7, BlockStep DEF Inv
    <2> QED
      BY <2>1, <2>8, BlockImplements
  <1>7. ASSUME NEW g \in Fetches, OptimisticUpdate(g)
        PROVE  Inv' /\ Implements
    <2>1. fetch[g].pc = "optimistic" /\ fetch' = [fetch EXCEPT ![g] = NoFetch]
          /\ UNCHANGED <<chain, loaded, span, blockTag>>
          /\ optimistic' = (IF loaded THEN fetch[g].amount ELSE optimistic)
      BY <1>7 DEF OptimisticUpdate
    <2>2. NoFetch \in FetchType /\ FetchInv(NoFetch)
      BY DEF NoFetch, FetchType, FetchInv, Fetching
    <2>3. fetch' \in [Fetches -> FetchType] /\ \A h \in Fetches : FetchInv(fetch[h])'
      BY <2>1, <2>2, FetchStep
    <2>4. fetch[g] \in FetchType /\ Allowed(fetch[g].amount)
      BY <2>1 DEF Inv, FetchInv
    <2>5. optimistic' \in Nat /\ (optimistic' # 0 => Allowed(optimistic'))
      BY <2>1, <2>4 DEF Inv, StoreInv, FetchType
    <2>6. StoreInv'
      BY <2>1, <2>5, SameChain DEF Inv, StoreInv, Allowed
    <2>7. Inv'
      BY <2>1, <2>3, <2>6 DEF Inv
    <2>8. CASE loaded
      <3>1. loaded' = TRUE
        BY <2>1, <2>8 DEF Inv, StoreInv
      <3> QED
        BY <2>1, <2>7, <3>1, ShowImplements
    <2>9. CASE ~loaded
      <3>1. UNCHANGED storeVars
        BY <2>1, <2>9 DEF storeVars
      <3> QED
        BY <2>1, <2>7, <3>1, KeepImplements
    <2> QED
      BY <2>7, <2>8, <2>9
  <1> QED
    BY <1>1, <1>2, <1>3, <1>4, <1>5, <1>6, <1>7 DEF Next

\* The store of lib-ethers implements what a store promises: however starting,
\* polling, refreshing and consents overlap and fail, it is loaded for good and
\* shows each contract function with a value that it had.
THEOREM PolledImplementsDataStore == Spec => ImplementsDataStore
  <1>1. Init => Inv /\ Abstract!Init
    <2> SUFFICES ASSUME Init PROVE Inv /\ Abstract!Init
      OBVIOUS
    <2>1. chain \in Seq(Transaction) /\ head \in Nat
      BY HeadType, EmptySeq DEF Init
    <2>2. Inv
      BY <2>1 DEF Init, Inv, StoreInv, FetchInv, NoFetch, FetchType, Fetching
    <2>3. \A c : Value(c, head) \in Nat \ {0}
      <3> SUFFICES ASSUME NEW c PROVE Value(c, head) \in Nat \ {0}
        OBVIOUS
      <3>1. Count(chain, c, head) \in Nat \ {0}
        BY <2>1, CountType
      <3> QED
        BY <3>1 DEF Value, Count
    <2>4. \A c : Shown(c) = {0}
      BY DEF Init, Shown
    <2>5. loaded = FALSE
      BY DEF Init
    <2> QED
      BY <2>2, <2>3, <2>4, <2>5 DEF Abstract!Init
  <1>2. Inv /\ [Next]_vars => Inv' /\ [Abstract!Next]_(Abstract!storeVars)
    BY Step DEF Implements
  <1> QED
    BY <1>1, <1>2, PTL DEF Spec, ImplementsDataStore, Abstract!Spec

-----------------------------------------------------------------------------
(* What the implementations of the store read.                             *)

LEMMA SameTables ==
    ASSUME NEW p \in Property
    PROVE  /\ Hashgraph!fetchStoreValues[p] # {} => Hashgraph!fetchStoreValues[p] \ {"uniToken"} = _get[p]
           /\ \/ Placeholder!fetchStoreValues[p] \in {{}, Placeholder!getPrice}
              \/ Placeholder!fetchStoreValues[p] = Hashgraph!fetchStoreValues[p]
  <1> USE DEF _get, Hashgraph!fetchStoreValues, Placeholder!fetchStoreValues
  <1>1. CASE p = "price"
    BY <1>1 DEF getPrice, Hashgraph!getPrice, Placeholder!getPrice
  <1>2. CASE p = "numberOfTroves"
    BY <1>2 DEF getNumberOfTroves, Hashgraph!getNumberOfTroves, Placeholder!getNumberOfTroves
  <1>3. CASE p = "totalRedistributed"
    BY <1>3 DEF getTotalRedistributed, Hashgraph!getTotalRedistributed,
       Placeholder!getTotalRedistributed
  <1>4. CASE p = "total"
    BY <1>4 DEF getTotal, _getActivePool, _getDefaultPool, Hashgraph!getTotal,
       Placeholder!getTotal
  <1>5. CASE p = "hchfInStabilityPool"
    BY <1>5 DEF getHCHFInStabilityPool, Hashgraph!getHCHFInStabilityPool,
       Placeholder!getHCHFInStabilityPool
  <1>6. CASE p = "totalStakedHLQT"
    BY <1>6 DEF getTotalStakedHLQT, Hashgraph!getTotalStakedHLQT, Placeholder!getTotalStakedHLQT
  <1>7. CASE p = "_riskiestTroveBeforeRedistribution"
    BY <1>7 DEF getTroves, getTotalRedistributed
  <1>8. CASE p = "totalStakedUniTokens"
    BY <1>8 DEF getTotalStakedUniTokens, Hashgraph!getTotalStakedUniTokens,
       Placeholder!getTotalStakedUniTokens
  <1>9. CASE p = "remainingStabilityPoolHLQTReward"
    BY <1>9 DEF getRemainingStabilityPoolHLQTReward,
       Hashgraph!getRemainingStabilityPoolHLQTReward,
       Placeholder!getRemainingStabilityPoolHLQTReward
  <1>10. CASE p = "frontend"
    BY <1>10 DEF getFrontendStatus, Hashgraph!getFrontendStatus, Placeholder!getFrontendStatus
  <1>11. CASE p = "accountBalance"
    BY <1>11 DEF Placeholder!getPrice
  <1>12. CASE p = "hchfBalance"
    BY <1>12 DEF getHCHFBalance, Hashgraph!getHCHFBalance
  <1>13. CASE p = "hchfTokenAddress"
    BY <1>13 DEF getHCHFTokenAddress, Hashgraph!getHCHFTokenAddress,
       Placeholder!getHCHFTokenAddress
  <1>14. CASE p = "hlqtTokenAddress"
    BY <1>14 DEF getHLQTTokenAddress, Hashgraph!getHLQTTokenAddress,
       Placeholder!getHLQTTokenAddress
  <1>15. CASE p = "hlqtBalance"
    BY <1>15 DEF getHLQTBalance, Hashgraph!getHLQTBalance
  <1>16. CASE p = "uniTokenBalance"
    BY <1>16 DEF getUniTokenBalance, Hashgraph!getUniTokenBalance
  <1>17. CASE p = "uniTokenAllowance"
    BY <1>17 DEF getUniTokenAllowance, Hashgraph!getUniTokenAllowance
  <1>18. CASE p = "liquidityMiningStake"
    BY <1>18 DEF getLiquidityMiningStake, Hashgraph!getLiquidityMiningStake
  <1>19. CASE p = "liquidityMiningHLQTReward"
    BY <1>19 DEF getLiquidityMiningHLQTReward, Hashgraph!getLiquidityMiningHLQTReward
  <1>20. CASE p = "collateralSurplusBalance"
    BY <1>20 DEF getCollateralSurplusBalance, Hashgraph!getCollateralSurplusBalance
  <1>21. CASE p = "troveBeforeRedistribution"
    BY <1>21 DEF getTroveBeforeRedistribution, Hashgraph!getTroveBeforeRedistribution
  <1>22. CASE p = "stabilityDeposit"
    BY <1>22 DEF getStabilityDeposit, Hashgraph!getStabilityDeposit
  <1>23. CASE p = "hlqtStake"
    BY <1>23 DEF getHLQTStake, Hashgraph!getHLQTStake
  <1>24. CASE p = "ownFrontend"
    BY <1>24 DEF getFrontendStatus, Hashgraph!getFrontendStatus
  <1>25. CASE p = "hchfTokenAllowanceOfHchfContract"
    BY <1>25 DEF getHchfTokenAllowanceOfHchfContract, getHCHFTokenAddress,
       Hashgraph!getHchfTokenAllowanceOfHchfContract, Hashgraph!getHCHFTokenAddress
  <1>26. CASE p = "hlqtTokenAllowanceOfHlqtContract"
    BY <1>26 DEF getHlqtTokenAllowanceOfHlqtContract, getHLQTTokenAddress,
       Hashgraph!getHlqtTokenAllowanceOfHlqtContract, Hashgraph!getHLQTTokenAddress
  <1>27. CASE p = "_feesInNormalMode"
    BY <1>27 DEF _getFeesFactory, _getBlockTimestamp
  <1>28. CASE p = "remainingLiquidityMiningHLQTReward"
    BY <1>28 DEF _getRemainingLiquidityMiningHLQTRewardCalculator, _getBlockTimestamp,
       Hashgraph!getRemainingLiquidityMiningHLQTReward,
       Placeholder!getRemainingLiquidityMiningHLQTReward
  <1> QED BY <1>1, <1>2, <1>3, <1>4, <1>5, <1>6, <1>7, <1>8, <1>9, <1>10, <1>11, <1>12,
     <1>13, <1>14, <1>15, <1>16, <1>17, <1>18, <1>19, <1>20, <1>21, <1>22, <1>23, <1>24,
     <1>25, <1>26, <1>27, <1>28 DEF Property

LEMMA SameReadsOK == SameReads
  <1> SUFFICES ASSUME NEW p \in Property, NEW b \in 1 .. head
               PROVE  LET hashgraph == Hashgraph!fetchStoreValues[p]
                          placeholder == Placeholder!fetchStoreValues[p]
                      IN  /\ hashgraph # {} => At(hashgraph \ {"uniToken"}, b) = At(_get[p], b)
                          /\ \/ placeholder \in {{}, Placeholder!getPrice}
                             \/ At(placeholder, b) = At(hashgraph, b)
    BY DEF SameReads
  <1> QED BY SameTables

\* At whatever block, of whatever chain, the implementations of the store get
\* the same for a property, or make it up.
THEOREM ReadsAgree == Spec => []SameReads
  BY SameReadsOK, PTL

=============================================================================
