----------------------------- MODULE Redemption -----------------------------
(***************************************************************************)
(* Redeeming HCHF and liquidating Troves: the form of RedeemHchf, the      *)
(* redemptions that lib-hashgraph populates from several reads, and the    *)
(* contracts that execute them, while others move the chain on.            *)
(*                                                                         *)
(* `chain` keeps every state of the contracts.  What is read together is   *)
(* read in requests of its own, each answered from any state between the   *)
(* beginning and the end of the reading.  The user's balance and allowance *)
(* are assumed to suffice, and the price is 1 HCHF.                        *)
(***************************************************************************)
EXTENDS Fees, Sequences, FiniteSets, SequencesExt

CONSTANTS
    NONE, BorrowingTolerance, RedemptionTolerance, HCHF_MINIMUM_NET_DEBT,
    RedeemMaxIterations, MaxTrialsAtOnce,
    InitialTroves,   \* sequences of Troves, by ascending collateral ratio
    NewTrove,        \* Troves that others open
    Amount,          \* amounts to redeem
    MaxRate,         \* maximum rates that callers of the library give
    Reading,         \* readings of the details that may be under way
    MaxChain         \* bound on the states of the contracts

\* A Trove owes at least the minimum when it is opened, and as long as it is open.
OpenTrove ==
    [owner : STRING, net : {n \in Nat : n >= HCHF_MINIMUM_NET_DEBT}, collateral : Int, safe : BOOLEAN]

ASSUME RedemptionAssumption ==
    /\ {BorrowingTolerance, RedemptionTolerance} \subseteq Nat
    /\ {HCHF_MINIMUM_NET_DEBT, RedeemMaxIterations, MaxTrialsAtOnce, MaxChain} \subseteq Nat \ {0}
    /\ InitialTroves \subseteq Seq(OpenTrove) /\ NewTrove \subseteq OpenTrove
    /\ NONE \notin Nat \cup {"frontend"}
    /\ Amount \subseteq Nat /\ MaxRate \subseteq 1 .. DIGITS

VARIABLES
    caller,       \* "form" or "library": who redeems in this behaviour
    chain,        \* the states of the contracts so far
    amount,       \* amountOfHchfToRedeem
    effectOf,     \* the amount that the effect was last run for
    details,      \* redemptionDetails
    areRedemptionDetailsLoading,
    reading,      \* what each reading of the details is for
    tx            \* the redemption that is populated or executed

formVars == <<caller, amount, effectOf, details, areRedemptionDetailsLoading, reading>>
vars == <<chain, formVars, tx>>

Hashgraph == INSTANCE HashgraphPopulate
Ethers == INSTANCE EthersPopulate
INSTANCE HashgraphAbi

------------------------------------------------------------------------------
(* The contracts.                                                          *)

head == chain[Len(chain)]
debtOf(troves) ==
    LET debt[i \in 0 .. Len(troves)] == IF i = 0 THEN 0 ELSE debt[i - 1] + troves[i].net + RESERVE
    IN  debt[Len(troves)]
collateralOf(troves) == FoldSeq(LAMBDA t, sum : t.collateral + sum, 0, troves)

\* Those that cannot be redeemed from come first.
numberOfRisky(troves) == Cardinality({i \in DOMAIN troves : ~troves[i].safe})
risky(troves) == SubSeq(troves, 1, numberOfRisky(troves))
safe(troves) == SubSeq(troves, numberOfRisky(troves) + 1, Len(troves))

\* A Trove after a part of its debt was redeemed, and its nominal ratio.
after(trove, lot) == [trove EXCEPT !.net = @ - lot, !.collateral = @ - lot]
nicr(trove) == Div(trove.collateral, trove.net + RESERVE)

\* The sorted list with one more Trove.
insert(troves, trove) ==
    LET n == Cardinality({i \in DOMAIN troves : nicr(troves[i]) <= nicr(trove)})
    IN  SubSeq(troves, 1, n) \o <<trove>> \o SubSeq(troves, n + 1, Len(troves))

\* getRedemptionHints(): how much of an amount can be redeemed, and the ratio
\* that the last Trove then has if it is not closed.
getRedemptionHints(troves, wanted) ==
    LET hint[i \in 1 .. Len(troves) + 1] == [remaining \in Nat |->
          IF i > Len(troves) \/ i > RedeemMaxIterations \/ remaining = 0
          THEN [truncated |-> wanted - remaining, nicr |-> 0]
          ELSE IF troves[i].net <= remaining THEN hint[i + 1][remaining - troves[i].net]
          ELSE LET lot == Least(remaining, Most(troves[i].net - HCHF_MINIMUM_NET_DEBT, 0))
               IN  [truncated |-> wanted - remaining + lot,
                    nicr |-> IF lot = 0 THEN 0 ELSE nicr(after(troves[i], lot))]]
    IN  hint[1][wanted]

\* redeemCollateral(): how much is redeemed and which Troves are left.  The
\* last Trove is left alone if its ratio would not be the one of the hint.
redeemed(troves, wanted, hintNICR, maxIterations) ==
    LET redeem[i \in 1 .. Len(troves) + 1] == [remaining \in Nat |->
          IF i > Len(troves) \/ i > maxIterations \/ remaining = 0
          THEN [amount |-> wanted - remaining, left |-> SubSeq(troves, i, Len(troves))]
          ELSE LET lot == Least(remaining, troves[i].net)
                   new == after(troves[i], lot)
               IN  IF new.net = 0 THEN redeem[i + 1][remaining - lot]
                   ELSE IF nicr(new) # hintNICR \/ new.net < HCHF_MINIMUM_NET_DEBT
                   THEN [amount |-> wanted - remaining, left |-> SubSeq(troves, i, Len(troves))]
                   ELSE [amount |-> wanted, left |-> insert(SubSeq(troves, i + 1, Len(troves)), new)]]
    IN  redeem[1][wanted]

feesAt(rate, last, now) == MakeFees(rate, last, now, FALSE)
feesOf(c) == feesAt(c.baseRate, c.lastFeeOperationTime, c.now)

\* The rate of redeeming an amount, and the state after.
rateOf(c, wanted) == redemptionRate(feesOf(c), Div(wanted, debtOf(c.troves)))
afterRedemption(c, r) ==
    [c EXCEPT !.troves = risky(c.troves) \o r.left,
              !.baseRate = Least(baseRate(feesOf(c)) + Div(Div(r.amount, debtOf(c.troves)), beta), DIGITS),
              !.lastFeeOperationTime = IF c.now - @ >= MINUTE THEN c.now ELSE @]

Moves(c) == Len(chain) < MaxChain /\ c # head /\ chain' = Append(chain, c)

\* Others redeem, open Troves or move the price, and time passes.
OthersRedeem(wanted) ==
    LET hints == getRedemptionHints(safe(head.troves), wanted)
        r == redeemed(safe(head.troves), hints.truncated, hints.nicr, RedeemMaxIterations)
    IN  /\ hints.truncated > 0
        /\ Moves(afterRedemption(head, r))
        /\ UNCHANGED <<formVars, tx>>

OthersOpen(trove) ==
    /\ \A i \in DOMAIN head.troves : head.troves[i].owner # trove.owner
    /\ Moves([head EXCEPT !.troves = risky(@) \o insert(safe(@), trove)])
    /\ UNCHANGED <<formVars, tx>>

PriceMoves(n) ==
    /\ n \in 0 .. Len(head.troves)
    /\ Moves([head EXCEPT !.troves = [i \in DOMAIN @ |-> [@[i] EXCEPT !.safe = i > n]]])
    /\ UNCHANGED <<formVars, tx>>

TimePasses ==
    /\ Moves([head EXCEPT !.now = @ + MINUTE])
    /\ UNCHANGED <<formVars, tx>>

------------------------------------------------------------------------------
(* The form.                                                               *)

NoReading == [of |-> 0, from |-> 0, mounted |-> FALSE]

Type(a) ==
    /\ caller = "form" /\ amount = effectOf
    /\ amount' = a
    /\ UNCHANGED <<caller, chain, effectOf, details, areRedemptionDetailsLoading, reading, tx>>

\* Broken: the readings go on under a form that has been told of another amount.
ReadingsStayMounted == reading

\* The cleanup of the effect: what the last reading answers is dropped.
Unmounted == [q \in Reading |-> [reading[q] EXCEPT !.mounted = FALSE]]

\* The effect of a new amount.
RunEffect(q) ==
    /\ amount # effectOf
    /\ effectOf' = amount
    /\ details' = NONE
    /\ IF amount = 0
       THEN /\ areRedemptionDetailsLoading' = FALSE
            /\ reading' = Unmounted
       ELSE /\ reading[q] = NoReading
            /\ areRedemptionDetailsLoading' = TRUE
            /\ reading' = [Unmounted EXCEPT ![q] = [of |-> amount, from |-> Len(chain), mounted |-> TRUE]]
    /\ UNCHANGED <<caller, chain, amount, tx>>

\* getRedemptionDetails(), at a price of 1: the HCHF redeemed, nothing of it
\* truncated, or NONE if there is more HBAR to it than on average.  The HBAR
\* and the fee, which are shown with it, are left out.
getRedemptionDetails(troves, total, wanted, rate) ==
    LET usable == debtOf(troves) - RESERVE * Len(troves)
        hchf == Least(wanted, usable)
        hbar == hchf - Mul(hchf, rate)
    IN  IF Div(Div(hbar, hchf), Div(total.collateral, total.debt)) > DIGITS THEN NONE
        ELSE [of |-> wanted, redeemedHchf |-> hchf]

\* The requests are answered from states since q began.
DetailsAnswered(q) ==
    /\ reading[q] # NoReading
    /\ reading' = [reading EXCEPT ![q] = NoReading]
    /\ IF reading[q].mounted
       THEN /\ \E f, t, s \in reading[q].from .. Len(chain) :
                 LET total == [collateral |-> collateralOf(chain[t].troves), debt |-> debtOf(chain[t].troves)]
                     rate == redemptionRate(feesOf(chain[f]), Div(reading[q].of, total.debt))
                 IN  details' = getRedemptionDetails(chain[s].troves, total, reading[q].of, rate)
            /\ areRedemptionDetailsLoading' = FALSE
       ELSE UNCHANGED <<details, areRedemptionDetailsLoading>>
    /\ UNCHANGED <<caller, chain, amount, effectOf, tx>>

\* A request fails: the promise rejects and nothing is set.
DetailsFail(q) ==
    /\ reading[q] # NoReading
    /\ reading' = [reading EXCEPT ![q] = NoReading]
    /\ UNCHANGED <<caller, chain, amount, effectOf, details, areRedemptionDetailsLoading, tx>>

isValidRedemption == amount >= HCHF_MINIMUM_NET_DEBT + RESERVE

------------------------------------------------------------------------------
(* A redemption.                                                           *)

NoTx == [pc |-> "idle"]

\* The button, which is disabled while a transaction is pending, or a caller
\* of the library.
Redeem(wanted, maxRedemptionRate) ==
    /\ tx = NoTx
    /\ caller = "form" => isValidRedemption /\ wanted = amount /\ maxRedemptionRate = NONE
    /\ tx' = [pc |-> "reading", amount |-> wanted, given |-> maxRedemptionRate,
              from |-> Len(chain)]
    /\ UNCHANGED <<chain, formVars>>

\* What the requests of getFees() answer since the reading began: the base
\* rate, the time of the last fee and the clock.
FeesRead ==
    {feesAt(chain[b].baseRate, chain[l].lastFeeOperationTime, chain[n].now) :
       b \in tx.from .. Len(chain), l \in tx.from .. Len(chain), n \in tx.from .. Len(chain)}

\* What populateRedeemHCHF() reads: the fees, the total, and the hints.
Reads(fees, t, h) ==
    LET troves == safe(chain[h].troves)
        hints == getRedemptionHints(troves, tx.amount)
    IN  [fees |-> fees,
         total |-> [debt |-> debtOf(chain[t].troves)],
         truncatedHCHFamount |-> hints.truncated,
         firstRedemptionHint |-> IF troves = <<>> THEN Hashgraph!AddressZero ELSE troves[1].owner,
         partialHints |-> [Hashgraph!noPartialHints EXCEPT !.nicr = hints.nicr]]

Populate ==
    /\ tx.pc = "reading"
    /\ \E reads \in {Reads(fees, t, h) :
                      fees \in FeesRead, t \in tx.from .. Len(chain), h \in tx.from .. Len(chain)} :
         LET current == Reads(feesOf(head), Len(chain), Len(chain))
         IN  tx' = IF Hashgraph!CanRedeem(reads)
                   THEN [pc |-> "populated", given |-> tx.given,
                         redemption |-> Hashgraph!populateRedeemHCHF(tx.amount, tx.given, reads),
                         readAt |-> IF reads = current THEN Len(chain) ELSE 0]
                   ELSE NoTx
    /\ UNCHANGED <<chain, formVars>>

\* A request fails, or the wallet rejects the transaction: the amount stays.
Rejected ==
    /\ tx.pc \in {"reading", "populated"}
    /\ tx' = NoTx
    /\ UNCHANGED <<chain, formVars>>

Increase(newMaxRedemptionRate) ==
    /\ tx.pc = "populated" /\ caller = "library" /\ tx.redemption.isTruncated
    /\ tx' = [tx EXCEPT
         !.redemption = Hashgraph!increaseAmountByMinimumNetDebt(@, newMaxRedemptionRate),
         !.given = IF newMaxRedemptionRate # NONE THEN newMaxRedemptionRate ELSE @]
    /\ UNCHANGED <<chain, formVars>>

\* The contract executes the call.  It reverts if nothing is redeemed or the
\* rate is above the maximum.
Execute ==
    /\ tx.pc = "populated" /\ Len(chain) < MaxChain
    /\ LET call == tx.redemption.rawPopulatedTransaction
           arg(i) == call.functionParameters[i][2]
           r == redeemed(safe(head.troves), arg(1), arg(5), arg(6))
           rate == rateOf(head, r.amount)
       IN  IF r.amount = 0 \/ rate > arg(7)
           THEN /\ tx' = [pc |-> "reverted", before |-> tx, version |-> Len(chain)]
                /\ UNCHANGED chain
           ELSE /\ tx' = [pc |-> "executed", before |-> tx, version |-> Len(chain),
                          amount |-> r.amount, rate |-> rate]
                /\ chain' = Append(chain, afterRedemption(head, r))
    /\ UNCHANGED <<formVars>>

\* send() resolves with the receipt of an executed transaction; the form
\* forgets its amount, the one typed meanwhile too.
Receipt ==
    /\ tx.pc \in {"executed", "reverted"}
    /\ tx' = NoTx
    /\ IF caller = "form" /\ tx.pc = "executed"
       THEN amount = effectOf /\ amount' = 0
       ELSE UNCHANGED amount
    /\ UNCHANGED <<caller, chain, effectOf, details, areRedemptionDetailsLoading, reading>>

------------------------------------------------------------------------------
\* The button of LiquidationManager: liquidateUpTo(n).
LiquidateUpTo(n) ==
    LET upTo == Hashgraph!populateLiquidateUpTo(n).functionParameters[1][2]
        first == Least(upTo, Len(risky(head.troves)))
    IN  /\ first > 0
        /\ Moves([head EXCEPT !.troves = SubSeq(@, first + 1, Len(@))])
        /\ UNCHANGED <<formVars, tx>>

Init ==
    /\ \E troves \in InitialTroves :
         chain = <<[troves |-> troves, baseRate |-> 0, lastFeeOperationTime |-> 0, now |-> 0]>>
    /\ caller \in {"form", "library"}
    /\ amount = 0 /\ effectOf = 0 /\ details = NONE /\ areRedemptionDetailsLoading = FALSE
    /\ reading = [q \in Reading |-> NoReading]
    /\ tx = NoTx

Next ==
    \/ \E a \in Amount : OthersRedeem(a) \/ Type(a)
    \/ \E t \in NewTrove : OthersOpen(t)
    \/ \E n \in 1 .. 2 : PriceMoves(n) \/ LiquidateUpTo(n)
    \/ TimePasses
    \/ \E q \in Reading : RunEffect(q) \/ DetailsAnswered(q) \/ DetailsFail(q)
    \/ \E a \in Amount \ {0}, rate \in MaxRate \cup {NONE} : Redeem(a, rate)
    \/ \E rate \in MaxRate \cup {NONE} : Increase(rate)
    \/ Populate \/ Rejected \/ Execute \/ Receipt

Spec == Init /\ [][Next]_vars

------------------------------------------------------------------------------
(* Properties.                                                             *)

\* What the form says about a redemption is about the amount it shows, in
\* whatever order the readings for earlier amounts are answered or fail.
DetailsOfShownAmount ==
    details # NONE /\ amount = effectOf => details.of = amount

\* A redemption that nothing overtakes is executed, and redeems what it was
\* shown to redeem: the truncated amount, or after
\* increaseAmountByMinimumNetDebt() the next one that is possible, unless it
\* was truncated because one transaction redeems from no more Troves.
Redeemable(c) == debtOf(safe(c.troves)) - RESERVE * Len(safe(c.troves))
RedeemsWhatIsShown ==
    tx.pc \in {"executed", "reverted"} =>
      LET redemption == tx.before.redemption
          c == chain[tx.version]
      IN  (/\ tx.before.readAt = tx.version /\ tx.before.given = NONE
           /\ \/ redemption.redeemableHCHFAmount = redemption.reads.truncatedHCHFamount
              \/ /\ redemption.redeemableHCHFAmount <= Redeemable(c)
                 /\ Len(safe(c.troves)) <= RedeemMaxIterations)
          => tx.pc = "executed" /\ tx.amount = redemption.redeemableHCHFAmount

\* However old or torn the reads, the rate that is paid is not above the
\* maximum that was given last, nor, if none was, above what the reads lead to
\* by more than the tolerance.
PaysAtMost ==
    tx.pc = "executed" =>
      LET before == tx.before
          redemption == before.redemption
      IN  IF before.given # NONE THEN tx.rate <= before.given
          ELSE tx.rate <= RedemptionTolerance +
                 redemptionRate(redemption.reads.fees,
                   Div(redemption.redeemableHCHFAmount, redemption.reads.total.debt))

\* Whatever the state, both libraries find the same hints and populate the
\* same call of a function of the contract's interface, with arguments of its
\* types, that pays HBAR only if the function is payable.  Numbers of Troves
\* are passed in another unit.  The calls depend on the contracts alone, so it
\* is stated for a caller that does nothing else.
CallsAgree ==
    tx = NoTx /\ caller = "library" =>
    \A a \in Amount \ {0}, max \in MaxRate \cup {NONE} :
      LET hints == getRedemptionHints(safe(head.troves), a)
          reads == [fees |-> feesOf(head), total |-> [debt |-> debtOf(head.troves)],
                    truncatedHCHFamount |-> hints.truncated, firstRedemptionHint |-> "first",
                    partialHints |-> [Hashgraph!noPartialHints EXCEPT !.nicr = hints.nicr]]
          troves == head.troves
          list == [numberOfTroves |-> Len(troves), totalNumberOfTrials |-> Len(troves) + 2, first |-> "first",
                   getApproxHint |-> [i \in 1 .. Len(troves) + 2 |-> [n \in 1 .. MaxTrialsAtOnce |->
                     [diff |-> ((i * i) + a) % 3, hintAddress |-> troves[1 + (i % Len(troves))].owner]]],
                   findInsertPosition |-> [o \in {troves[i].owner : i \in DOMAIN troves} |-> <<o, "next">>]]
          ours == Hashgraph!asPopulatable(a, max, reads, Hashgraph!findHintsForNominalCollateralRatio(a, list))
          theirs == Ethers!Populatable(a, max, reads, Ethers!_findHintsForNominalCollateralRatio(a, list))
      IN  \A m \in DOMAIN ours :
            LET interface == Abi[ours[m].contract][ours[m].functionName]
                args == ours[m].functionParameters
            IN  /\ ours[m].contract = theirs[m].contract
                /\ ours[m].functionName = theirs[m].functionName
                /\ [i \in DOMAIN args |-> args[i][1]] = interface.inputs
                /\ ours[m].hbar = theirs[m].value
                /\ ours[m].hbar > 0 => interface.stateMutability = "payable"
                /\ \A i \in DOMAIN args :
                     \/ args[i][2] = theirs[m].args[i]
                     \/ m \in {"liquidateUpTo", "redeemHCHF"} /\ args[i][2] = theirs[m].args[i] * DIGITS

=============================================================================
