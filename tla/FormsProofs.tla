----------------------------- MODULE FormsProofs -----------------------------
(* Proofs about the forms that adjust, open and close a Trove: they offer  *)
(* what the user asked for and what they show, and the contract accepts it.*)
(* Rounding in the arithmetic of Trove comes first, for every precision.   *)
EXTENDS MCForms, TLAPS

\* The integer quotient.
LEMMA Quotient ==
    ASSUME NEW a \in Nat, NEW b \in Nat \ {0}
    PROVE  /\ a \div b \in Nat
           /\ (a \div b) * b <= a
           /\ a < (a \div b) * b + b
  OBVIOUS

\* Multiplication keeps order.
LEMMA Monotone ==
    ASSUME NEW a \in Nat, NEW b \in Nat, NEW c \in Nat, a <= b
    PROVE  a * c <= b * c
  OBVIOUS

\* Naturals are ordered as their multiples are.
LEMMA Cancel ==
    ASSUME NEW a \in Nat, NEW b \in Nat, NEW c \in Nat \ {0}, a * c < b * c + c
    PROVE  a <= b
  <1> SUFFICES ASSUME b + 1 <= a PROVE FALSE
    OBVIOUS
  <1>1. (b + 1) * c <= a * c
    BY Monotone
  <1>2. (b + 1) * c = b * c + c
    OBVIOUS
  <1>3. a * c \in Nat /\ b * c \in Nat
    OBVIOUS
  <1> QED BY <1>1, <1>2, <1>3

LEMMA Products == ASSUME NEW a \in Nat, NEW b \in Nat PROVE a * b \in Nat
  OBVIOUS

------------------------------------------------------------------------------
\* What the two operators compute, without division.
LEMMA ApplyFeeBounds ==
    ASSUME NEW r \in Nat, NEW b \in Nat
    PROVE  /\ ApplyFee(r, b) \in Nat
           /\ ApplyFee(r, b) * DIGITS <= b * (DIGITS + r)
           /\ b * (DIGITS + r) < ApplyFee(r, b) * DIGITS + DIGITS
  <1>1. DIGITS \in Nat \ {0} /\ DIGITS + r \in Nat
    BY DecimalAssumption
  <1>2. b * (DIGITS + r) \in Nat
    BY <1>1, Products
  <1> QED BY <1>1, <1>2, Quotient DEF ApplyFee, Mul

LEMMA UnapplyFeeBounds ==
    ASSUME NEW r \in Nat, NEW x \in Nat
    PROVE  /\ UnapplyFee(r, x) \in Nat
           /\ x * DIGITS <= UnapplyFee(r, x) * (DIGITS + r)
           /\ UnapplyFee(r, x) * (DIGITS + r) < x * DIGITS + (DIGITS + r)
  <1> DEFINE R == DIGITS + r
             n == x * DIGITS
             u == UnapplyFee(r, x)
  <1>1. DIGITS \in Nat \ {0} /\ R \in Nat \ {0}
    BY DecimalAssumption
  <1>2. n \in Nat /\ n + (R - 1) \in Nat
    BY <1>1, Products
  <1>3. u = (n + (R - 1)) \div R
    BY <1>1 DEF UnapplyFee, DivCeil
  <1> HIDE DEF R, n, u
  <1>4. /\ u \in Nat
        /\ u * R <= n + (R - 1)
        /\ n + (R - 1) < u * R + R
    BY <1>1, <1>2, <1>3, Quotient
  <1>5. u * R \in Nat
    BY <1>1, <1>4, Products
  <1>6. u \in Nat /\ n <= u * R /\ u * R < n + R
    BY <1>1, <1>2, <1>4, <1>5
  <1> QED BY <1>6 DEF R, n, u

\* Adding the fee to an amount is applying the fee to it.
LEMMA FeeAdds ==
    ASSUME NEW r \in Nat, NEW b \in Nat
    PROVE  Mul(b, r) \in Nat /\ b + Mul(b, r) = ApplyFee(r, b)
  <1> DEFINE f == Mul(b, r)
             y == ApplyFee(r, b)
  <1>1. DIGITS \in Nat \ {0} /\ b * r \in Nat /\ b * DIGITS \in Nat
    BY DecimalAssumption, Products
  <1>2. f \in Nat /\ f * DIGITS <= b * r /\ b * r < f * DIGITS + DIGITS
    BY <1>1, Quotient DEF Mul
  <1>3. /\ y \in Nat /\ y * DIGITS <= b * (DIGITS + r)
        /\ b * (DIGITS + r) < y * DIGITS + DIGITS
    BY ApplyFeeBounds
  <1> HIDE DEF f, y
  <1>4. b * (DIGITS + r) = b * DIGITS + b * r
    BY <1>1
  <1>5. (b + f) * DIGITS = b * DIGITS + f * DIGITS
    BY <1>1, <1>2
  <1>6. y * DIGITS \in Nat /\ f * DIGITS \in Nat /\ b + f \in Nat
    BY <1>1, <1>2, <1>3, Products
  <1>7. (b + f) * DIGITS < y * DIGITS + DIGITS /\ y * DIGITS < (b + f) * DIGITS + DIGITS
    <2> DEFINE bd == b * DIGITS
               br == b * r
               fd == f * DIGITS
               yd == y * DIGITS
    <2>1. /\ DIGITS \in Nat /\ bd \in Nat /\ br \in Nat /\ fd \in Nat /\ yd \in Nat
          /\ fd <= br /\ br < fd + DIGITS /\ yd <= bd + br /\ bd + br < yd + DIGITS
      BY <1>1, <1>2, <1>3, <1>4, <1>6
    <2>2. (b + f) * DIGITS = bd + fd
      BY <1>5
    <2> HIDE DEF bd, br, fd, yd
    <2>3. bd + fd < yd + DIGITS /\ yd < bd + fd + DIGITS
      BY <2>1
    <2> QED BY <2>2, <2>3 DEF yd
  <1>8. b + f <= y /\ y <= b + f
    BY <1>1, <1>3, <1>6, <1>7, Cancel
  <1>9. b + f = y
    BY <1>3, <1>6, <1>8
  <1> QED BY <1>2, <1>9 DEF f, y

\* The amount to borrow for a debt is no greater than it, and not nothing.
LEMMA BorrowsLess ==
    ASSUME NEW r \in Nat, NEW x \in Nat
    PROVE  /\ UnapplyFee(r, x) <= x
           /\ x # 0 => UnapplyFee(r, x) # 0
  <1> DEFINE R == DIGITS + r
             u == UnapplyFee(r, x)
  <1>1. DIGITS \in Nat \ {0} /\ R \in Nat \ {0} /\ DIGITS <= R
    BY DecimalAssumption
  <1>2. u \in Nat /\ x * DIGITS <= u * R /\ u * R < x * DIGITS + R
    BY UnapplyFeeBounds
  <1> HIDE DEF R, u
  <1>3. x * DIGITS <= x * R
    <2>1. DIGITS * x <= R * x
      BY <1>1, Monotone
    <2> QED BY <1>1, <2>1
  <1>4. x * DIGITS \in Nat /\ x * R \in Nat /\ u * R \in Nat
    BY <1>1, <1>2, Products
  <1>5. u <= x
    BY <1>1, <1>2, <1>3, <1>4, Cancel
  <1>6. ASSUME x # 0, u = 0 PROVE FALSE
    <2>1. x * DIGITS > 0
      BY <1>1, <1>6
    <2> QED BY <1>1, <1>2, <1>6, <2>1
  <1> QED BY <1>5, <1>6 DEF u

\* The amount to borrow for the debt an amount makes is that amount, at every
\* precision and borrowing rate: what unapplyFee() rounds up, applyFee() rounded
\* down.
THEOREM UnapplyFeeInverts ==
    ASSUME NEW r \in Nat, NEW b \in Nat
    PROVE  UnapplyFee(r, ApplyFee(r, b)) = b
  <1> DEFINE R == DIGITS + r
             y == ApplyFee(r, b)
             u == UnapplyFee(r, y)
  <1>1. DIGITS \in Nat \ {0} /\ R \in Nat \ {0} /\ DIGITS <= R
    BY DecimalAssumption
  <1>2. y \in Nat /\ y * DIGITS <= b * R /\ b * R < y * DIGITS + DIGITS
    BY ApplyFeeBounds
  <1>3. u \in Nat /\ y * DIGITS <= u * R /\ u * R < y * DIGITS + R
    BY <1>2, UnapplyFeeBounds
  <1> HIDE DEF R, y, u
  <1>4. y * DIGITS \in Nat /\ b * R \in Nat /\ u * R \in Nat
    BY <1>1, <1>2, <1>3, Products
  <1>5. u * R < b * R + R /\ b * R < u * R + R
    BY <1>1, <1>2, <1>3, <1>4
  <1>6. u <= b /\ b <= u
    BY <1>1, <1>3, <1>5, Cancel
  <1>7. u = b
    BY <1>3, <1>6
  <1> QED BY <1>7 DEF u, y

\* Borrowing the amount for a debt makes that debt or one unit of the last digit
\* more, never less, as long as the borrowing rate is at most 100%.
THEOREM ApplyFeeReaches ==
    ASSUME NEW r \in Nat, r <= DIGITS, NEW x \in Nat
    PROVE  ApplyFee(r, UnapplyFee(r, x)) \in x..(x + 1)
  <1> DEFINE R == DIGITS + r
             u == UnapplyFee(r, x)
             y == ApplyFee(r, u)
  <1>1. DIGITS \in Nat \ {0} /\ R \in Nat \ {0} /\ R <= DIGITS + DIGITS
    BY DecimalAssumption
  <1>2. u \in Nat /\ x * DIGITS <= u * R /\ u * R < x * DIGITS + R
    BY UnapplyFeeBounds
  <1>3. y \in Nat /\ y * DIGITS <= u * R /\ u * R < y * DIGITS + DIGITS
    BY <1>2, ApplyFeeBounds
  <1> HIDE DEF R, u, y
  <1>4. x * DIGITS \in Nat /\ y * DIGITS \in Nat /\ u * R \in Nat
    BY <1>1, <1>2, <1>3, Products
  <1>5. x * DIGITS < y * DIGITS + DIGITS
    BY <1>1, <1>2, <1>3, <1>4
  <1>6. x <= y
    BY <1>1, <1>3, <1>5, Cancel
  <1>7. (x + 1) * DIGITS = x * DIGITS + DIGITS
    BY <1>1
  <1>8. y * DIGITS < (x + 1) * DIGITS + DIGITS
    BY <1>1, <1>2, <1>3, <1>4, <1>7
  <1>9. y <= x + 1
    BY <1>1, <1>3, <1>8, Cancel
  <1>10. y \in x..(x + 1)
    BY <1>3, <1>6, <1>9
  <1> QED BY <1>10 DEF y, u

------------------------------------------------------------------------------
LEMMA DecimalTypes ==
    ASSUME NEW a \in Nat, NEW b \in Nat
    PROVE  Mul(a, b) \in Nat /\ Div(a, b) \in Nat
  <1>1. a * b \in Nat /\ a * DIGITS \in Nat
    BY DecimalAssumption, Products
  <1>2. Mul(a, b) \in Nat
    BY <1>1, DecimalAssumption, Quotient DEF Mul
  <1>3. CASE b = 0
    BY <1>2, <1>3, DecimalAssumption DEF Div
  <1>4. CASE b # 0
    BY <1>1, <1>2, <1>4, Quotient DEF Div
  <1> QED BY <1>3, <1>4

AnyTrove == [collateral : Nat, debt : Nat]

\* The change between two troves in debt: nothing or an adjustment, and what its
\* parameters are.
LEMMA ChangeInDebt ==
    ASSUME NEW t \in AnyTrove, NEW that \in AnyTrove, t.debt # 0, that.debt # 0, NEW r \in Nat
    PROVE  LET change == WhatChanged(t, that, r)
           IN  \/ change = NoChange /\ that.collateral = t.collateral /\ that.debt = t.debt
               \/ /\ change.type = "adjustment"
                  /\ change.setToZero = IF that.collateral = 0 /\ t.collateral # 0
                                        THEN "collateral" ELSE "none"
                  /\ "borrowHCHF" \in DOMAIN change.params =>
                        that.debt > t.debt
                  /\ "repayHCHF" \in DOMAIN change.params =>
                        that.debt < t.debt
                  /\ "depositCollateral" \in DOMAIN change.params =>
                        that.collateral > t.collateral
                  /\ "withdrawCollateral" \in DOMAIN change.params =>
                        that.collateral < t.collateral
                  /\ Param(change.params, "borrowHCHF") =
                        IF that.debt > t.debt THEN UnapplyFee(r, that.debt - t.debt) ELSE 0
                  /\ Param(change.params, "repayHCHF") = Less(t.debt, that.debt)
                  /\ Param(change.params, "depositCollateral") = Less(that.collateral, t.collateral)
                  /\ Param(change.params, "withdrawCollateral") = Less(t.collateral, that.collateral)
  <1> DEFINE sameC == t.collateral = that.collateral
             sameD == t.debt = that.debt
             dc == DebtChange(t, that, r)
             cc == CollateralChange(t, that)
             params == IF sameC THEN dc ELSE IF sameD THEN cc ELSE Both(dc, cc)
             zeroed == IF that.collateral = 0 /\ t.collateral # 0 THEN "collateral" ELSE "none"
             change == WhatChanged(t, that, r)
  <1>1. /\ t.collateral \in Nat /\ t.debt \in Nat /\ that.collateral \in Nat /\ that.debt \in Nat
        /\ ~IsEmpty(t) /\ ~IsEmpty(that)
    BY DEF AnyTrove, IsEmpty
  <1>2. CASE sameC /\ sameD
    BY <1>1, <1>2 DEF WhatChanged
  <1>3. CASE ~(sameC /\ sameD)
    <2>1. change = Adjustment(params, zeroed)
      BY <1>1, <1>3 DEF WhatChanged
    <2>2. change.type = "adjustment" /\ change.setToZero = zeroed /\ change.params = params
      BY <2>1 DEF Adjustment
    <2>3. CASE sameC /\ that.debt > t.debt
      BY <1>1, <2>2, <2>3 DEF Param, Less, DebtChange
    <2>4. CASE sameC /\ that.debt < t.debt
      BY <1>1, <2>2, <2>4 DEF Param, Less, DebtChange
    <2>5. CASE sameD /\ that.collateral > t.collateral
      BY <1>1, <2>2, <2>5 DEF Param, Less, CollateralChange
    <2>6. CASE sameD /\ that.collateral < t.collateral
      BY <1>1, <2>2, <2>6 DEF Param, Less, CollateralChange
    <2>7. CASE that.debt > t.debt /\ that.collateral > t.collateral
      BY <1>1, <2>2, <2>7 DEF Param, Less, DebtChange, CollateralChange, Both
    <2>8. CASE that.debt > t.debt /\ that.collateral < t.collateral
      BY <1>1, <2>2, <2>8 DEF Param, Less, DebtChange, CollateralChange, Both
    <2>9. CASE that.debt < t.debt /\ that.collateral > t.collateral
      BY <1>1, <2>2, <2>9 DEF Param, Less, DebtChange, CollateralChange, Both
    <2>10. CASE that.debt < t.debt /\ that.collateral < t.collateral
      BY <1>1, <2>2, <2>10 DEF Param, Less, DebtChange, CollateralChange, Both
    <2> QED BY <1>1, <1>3, <2>3, <2>4, <2>5, <2>6, <2>7, <2>8, <2>9, <2>10
  <1> QED BY <1>2, <1>3

LEMMA LessValue ==
    ASSUME NEW a \in Nat, NEW b \in Nat
    PROVE  Less(a + Less(b, a), Less(a, b)) = b
  BY DEF Less

\* Between two troves in debt, applying the change that whatChanged() finds gives
\* the other trove: its collateral to the unit, its debt or one unit of the last
\* digit more.
THEOREM ApplyReaches ==
    ASSUME NEW t \in AnyTrove, NEW that \in AnyTrove, t.debt # 0, that.debt # 0,
           NEW r \in Nat, r <= DIGITS
    PROVE  LET result == Apply(t, WhatChanged(t, that, r), r)
           IN  /\ result.collateral = that.collateral
               /\ result.debt \in that.debt..(that.debt + 1)
  <1> DEFINE change == WhatChanged(t, that, r)
             tc == t.collateral
             td == t.debt
             c == that.collateral
             d == that.debt
             result == Apply(t, change, r)
  <1>1. tc \in Nat /\ td \in Nat /\ c \in Nat /\ d \in Nat
    BY DEF AnyTrove
  <1>2. CASE change = NoChange /\ c = tc /\ d = td
    <2>1. result = t
      BY <1>2 DEF Apply, NoChange
    <2> QED BY <1>1, <1>2, <2>1
  <1>3. CASE ~(change = NoChange /\ c = tc /\ d = td)
    <2> DEFINE borrowed == IF d > td THEN UnapplyFee(r, d - td) ELSE 0
               made == ApplyFee(r, borrowed)
    <2>1. /\ change.type = "adjustment"
          /\ change.setToZero = IF c = 0 /\ tc # 0 THEN "collateral" ELSE "none"
          /\ Param(change.params, "borrowHCHF") = borrowed
          /\ Param(change.params, "repayHCHF") = Less(td, d)
          /\ Param(change.params, "depositCollateral") = Less(c, tc)
          /\ Param(change.params, "withdrawCollateral") = Less(tc, c)
      <3> HIDE DEF change
      <3>1. change = WhatChanged(t, that, r)
        BY DEF change
      <3> QED BY <1>3, <3>1, ChangeInDebt
    <2> HIDE DEF change
    <2>2. result = MakeTrove(IF change.setToZero = "collateral" THEN 0
                             ELSE Less(tc + Less(c, tc), Less(tc, c)),
                             Less(td + made, Less(td, d)))
      BY <2>1 DEF Apply
    <2>3. result.collateral = c
      BY <1>1, <2>1, <2>2, LessValue DEF MakeTrove
    <2>4. result.debt = Less(td + made, Less(td, d))
      BY <2>2 DEF MakeTrove
    <2>5. ASSUME d > td PROVE result.debt \in d..(d + 1)
      <3>1. made \in (d - td)..(d - td + 1)
        BY <1>1, <2>5, ApplyFeeReaches
      <3> HIDE DEF made, result
      <3> QED BY <1>1, <2>4, <2>5, <3>1 DEF Less
    <2>6. ASSUME ~(d > td) PROVE result.debt \in d..(d + 1)
      <3>1. made = 0
        BY <2>6, DecimalAssumption, Quotient DEF ApplyFee, Mul
      <3> HIDE DEF made, result
      <3> QED BY <1>1, <2>4, <2>6, <3>1 DEF Less
    <2> QED BY <2>3, <2>5, <2>6 DEF change
  <1> QED BY <1>2, <1>3

------------------------------------------------------------------------------
(* <Adjusting>.                                                            *)

\* The button may come to offer it: the last render may have computed it.
Near(x) == x = NoChange \/ \E change \in Computed(UpdatedTrove) : SameOffer(x, change)

QueuedRecord(q) == q = [collateral |-> q.collateral, netDebt |-> q.netDebt, stable |-> q.stable]

\* Each edit is what was wanted or was dropped: the one that is queued on the
\* trove that is shown, or, while it is to be rebased, the one that is shown on
\* the trove it is based on.  Of the change that is offered and the one that is
\* queued, one is what the last render computed.
EditInv ==
    /\ IF CollateralDue
       THEN collateral - previousTrove.collateral \in {wantedCollateral, 0}
       ELSE queued.collateral - trove.collateral \in {wantedCollateral, 0}
    /\ IF NetDebtDue
       THEN netDebt - NetDebt(previousTrove) \in {wantedDebt, 0}
       ELSE queued.netDebt - NetDebt(trove) \in {wantedDebt, 0}
    /\ due => queued = [collateral |-> collateral, netDebt |-> netDebt, stable |-> stable]
    /\ ~due => previousTrove = trove
    /\ ~due => Near(queued.stable) \/ Near(stable)

\* The inductive invariant.
IInv == TypeOK /\ QueuedRecord(queued) /\ EditInv

LEMMA OpenTroveType ==
    ASSUME NEW t \in OpenTrove
    PROVE  /\ t \in AnyTrove /\ t.collateral \in Nat /\ t.debt \in Nat /\ t.debt # 0
           /\ NetDebt(t) \in Nat /\ t.debt = NetDebt(t) + RESERVE
  BY FormsAssumption, DecimalAssumption DEF AnyTrove, HasNetDebt, NetDebt

LEMMA RateType == rate \in Rate => rate \in Nat /\ rate <= DIGITS
  BY FormsAssumption, DecimalAssumption

\* The fee of an increase.
LEMMA FeeValue ==
    ASSUME trove \in OpenTrove, rate \in Rate, NEW debt \in Nat
    PROVE  /\ FeeOf(debt) \in Nat
           /\ FeeOf(debt) = IF debt > NetDebt(trove)
                            THEN Mul(UnapplyFee(rate, debt - NetDebt(trove)), rate) ELSE 0
  <1> DEFINE inc == debt - NetDebt(trove)
             edited == MakeTrove(trove.collateral, trove.debt + inc)
  <1>1. /\ trove \in AnyTrove /\ trove.collateral \in Nat /\ trove.debt \in Nat /\ trove.debt # 0
        /\ NetDebt(trove) \in Nat /\ rate \in Nat
    BY OpenTroveType, RateType
  <1>2. CASE debt > NetDebt(trove)
    <2>1. inc \in Nat /\ inc # 0
      BY <1>1, <1>2
    <2>2. /\ edited \in AnyTrove /\ edited.debt # 0 /\ edited.collateral = trove.collateral
          /\ edited.debt = trove.debt + inc
      BY <1>1, <2>1 DEF MakeTrove, AnyTrove
    <2>3. edited.debt > trove.debt /\ edited.debt - trove.debt = inc
      BY <1>1, <2>1, <2>2
    <2>4. /\ WhatChanged(trove, edited, rate).type = "adjustment"
          /\ Param(WhatChanged(trove, edited, rate).params, "borrowHCHF") = UnapplyFee(rate, inc)
      <3> HIDE DEF edited, inc
      <3>1. edited.debt # trove.debt
        BY <1>1, <2>2, <2>3
      <3> QED BY <1>1, <2>2, <2>3, <3>1, ChangeInDebt
    <2>5. FeeOf(debt) = Mul(UnapplyFee(rate, inc), rate)
      BY <1>2, <2>4 DEF FeeOf, FeeFrom
    <2>6. UnapplyFee(rate, inc) \in Nat
      BY <1>1, <2>1, UnapplyFeeBounds
    <2> QED BY <1>1, <1>2, <2>5, <2>6, DecimalTypes
  <1>3. CASE ~(debt > NetDebt(trove))
    BY <1>3 DEF FeeOf
  <1> QED BY <1>2, <1>3

LEMMA RebasedType ==
    ASSUME NEW edited \in Nat, NEW before \in Nat, NEW now \in Nat
    PROVE  /\ Rebased(edited, before, now) \in Nat
           /\ Rebased(edited, before, now) - now \in {edited - before, 0}
  BY DEF Rebased

LEMMA Types ==
    ASSUME TypeOK
    PROVE  /\ trove.collateral \in Nat /\ NetDebt(trove) \in Nat
           /\ previousTrove.collateral \in Nat /\ NetDebt(previousTrove) \in Nat
           /\ mounted \in BOOLEAN /\ thrown \in BOOLEAN /\ auto \in BOOLEAN /\ due \in BOOLEAN
  BY OpenTroveType DEF TypeOK

\* A form that starts anew.
LEMMA FreshOK ==
    ASSUME NEW t \in OpenTrove, Fresh(t), trove' = t, price' \in Price, rate' \in Rate,
           mounted' \in BOOLEAN, thrown' \in BOOLEAN
    PROVE  IInv'
  <1>1. t.collateral \in Nat /\ NetDebt(t) \in Nat
    BY OpenTroveType
  <1>2. /\ queued' = [collateral |-> t.collateral, netDebt |-> NetDebt(t), stable |-> NoChange]
        /\ queued'.collateral = t.collateral /\ queued'.netDebt = NetDebt(t)
        /\ queued'.stable = NoChange /\ stable' = NoChange
    BY DEF Fresh
  <1>3. TypeOK'
    <2>1. /\ previousTrove' = t /\ collateral' = t.collateral /\ netDebt' = NetDebt(t)
          /\ auto' = FALSE /\ due' = FALSE
          /\ wantedCollateral' = 0 /\ wantedDebt' = 0 /\ edits' = 0
      BY DEF Fresh
    <2>2. edits' \in 0..MaxEdits
      BY <2>1, AdjustingAssumption
    <2>3. /\ collateral' \in Nat /\ netDebt' \in Nat
          /\ queued'.collateral \in Nat /\ queued'.netDebt \in Nat
      BY <1>1, <1>2, <2>1
    <2>4. wantedCollateral' \in Int /\ wantedDebt' \in Int
      BY <2>1
    <2>5. mounted' \in BOOLEAN /\ thrown' \in BOOLEAN /\ auto' \in BOOLEAN /\ due' \in BOOLEAN
      BY <2>1
    <2>6. trove' \in OpenTrove /\ previousTrove' \in OpenTrove
      BY <2>1
    <2> QED BY <2>2, <2>3, <2>4, <2>5, <2>6 DEF TypeOK
  <1>4. QueuedRecord(queued)'
    BY <1>2 DEF QueuedRecord
  <1>5. EditInv'
    <2>1. Near(stable)'
      BY <1>2 DEF Near
    <2>2. ~due' /\ ~CollateralDue' /\ ~NetDebtDue' /\ previousTrove' = t
      BY DEF Fresh, CollateralDue, NetDebtDue
    <2>3. NetDebt(trove)' = NetDebt(t)
      BY DEF NetDebt
    <2>4. wantedCollateral' = 0 /\ wantedDebt' = 0
      BY DEF Fresh
    <2> QED BY <1>1, <1>2, <2>1, <2>2, <2>3, <2>4 DEF EditInv
  <1> QED BY <1>3, <1>4, <1>5 DEF IInv

LEMMA InitOK == Init => IInv
  <1> SUFFICES ASSUME Init PROVE IInv
    OBVIOUS
  <1>1. /\ trove \in OpenTrove /\ previousTrove = trove /\ price \in Price /\ rate \in Rate
        /\ collateral = trove.collateral /\ netDebt = NetDebt(trove) /\ stable = NoChange
        /\ ~due /\ ~mounted /\ ~thrown /\ ~auto /\ due \in BOOLEAN /\ mounted \in BOOLEAN
        /\ thrown \in BOOLEAN /\ auto \in BOOLEAN
        /\ wantedCollateral = 0 /\ wantedDebt = 0 /\ edits = 0
    BY DEF Init
  <1>2. /\ queued = [collateral |-> collateral, netDebt |-> netDebt, stable |-> stable]
        /\ queued.collateral = collateral /\ queued.netDebt = netDebt
    BY DEF Init
  <1>3. trove.collateral \in Nat /\ NetDebt(trove) \in Nat /\ MaxEdits \in Nat
    BY <1>1, OpenTroveType, AdjustingAssumption
  <1>4. TypeOK
    BY <1>1, <1>2, <1>3 DEF TypeOK
  <1>5. QueuedRecord(queued)
    BY <1>2 DEF QueuedRecord
  <1>6. EditInv
    BY <1>1, <1>2, <1>3 DEF EditInv, Near, CollateralDue, NetDebtDue
  <1> QED BY <1>4, <1>5, <1>6 DEF IInv

\* What the effects leave queued.
LEMMA Effects ==
    ASSUME NEW q, QueuedRecord(q), NEW offer
    PROVE  LET r == [RebaseEffect(q) EXCEPT !.stable = offer]
           IN  /\ QueuedRecord(r) /\ r.stable = offer
               /\ r.collateral = IF CollateralDue
                                 THEN Rebased(collateral, previousTrove.collateral, trove.collateral)
                                 ELSE q.collateral
               /\ r.netDebt = IF NetDebtDue
                              THEN Rebased(netDebt, NetDebt(previousTrove), NetDebt(trove))
                              ELSE q.netDebt
  <1> DEFINE c == IF CollateralDue
                  THEN Rebased(collateral, previousTrove.collateral, trove.collateral)
                  ELSE q.collateral
             d == IF NetDebtDue
                  THEN Rebased(netDebt, NetDebt(previousTrove), NetDebt(trove)) ELSE q.netDebt
             r == [RebaseEffect(q) EXCEPT !.stable = offer]
  <1>1. RebaseEffect(q) = [[q EXCEPT !.collateral = c] EXCEPT !.netDebt = d]
    BY DEF RebaseEffect
  <1> HIDE DEF c, d
  <1>2. r = [collateral |-> c, netDebt |-> d, stable |-> offer]
    <2> DEFINE x == q.collateral
               y == q.netDebt
               z == q.stable
    <2>1. q = [collateral |-> x, netDebt |-> y, stable |-> z]
      BY DEF QueuedRecord
    <2> HIDE DEF x, y, z
    <2>2. RebaseEffect(q) = [collateral |-> c, netDebt |-> d, stable |-> z]
      BY <1>1, <2>1
    <2> QED BY <2>2
  <1> HIDE DEF r
  <1>3. QueuedRecord(r) /\ r.stable = offer /\ r.collateral = c /\ r.netDebt = d
    BY <1>2 DEF QueuedRecord
  <1> QED BY <1>3 DEF r, c, d

\* The effect of useStableTroveChange() leaves the change of its render offered or
\* queued.
LEMMA StableEffectNear ==
    ASSUME NEW change, NEW offer
    PROVE  \/ SameOffer(stable, change)
           \/ StableEffect(offer, change) = change /\ SameOffer(StableEffect(offer, change), change)
  BY DEF StableEffect, SameOffer

LEMMA RunEffectsOK == ASSUME IInv, RunEffects PROVE IInv'
  <1> USE DEF IInv
  <1>1. PICK offer \in Flushed : queued' = [RebaseEffect(queued) EXCEPT !.stable = offer]
    BY DEF RunEffects
  <1>2. PICK change \in Computed(UpdatedTrove) : offer = StableEffect(queued.stable, change)
    BY DEF Flushed, RunEffects
  <1>3. /\ QueuedRecord(queued)' /\ queued'.stable = offer
        /\ queued'.collateral = IF CollateralDue
                                THEN Rebased(collateral, previousTrove.collateral, trove.collateral)
                                ELSE queued.collateral
        /\ queued'.netDebt = IF NetDebtDue
                             THEN Rebased(netDebt, NetDebt(previousTrove), NetDebt(trove))
                             ELSE queued.netDebt
    BY <1>1, Effects DEF QueuedRecord
  <1>4. /\ trove' = trove /\ price' = price /\ rate' = rate /\ mounted' = mounted
        /\ thrown' = thrown /\ collateral' = collateral /\ netDebt' = netDebt /\ stable' = stable
        /\ auto' = auto /\ wantedCollateral' = wantedCollateral /\ wantedDebt' = wantedDebt
        /\ edits' = edits /\ previousTrove' = trove /\ due' = FALSE /\ due
    BY DEF RunEffects, storeVars
  <1>5. /\ trove.collateral \in Nat /\ NetDebt(trove) \in Nat /\ collateral \in Nat /\ netDebt \in Nat
        /\ previousTrove.collateral \in Nat /\ NetDebt(previousTrove) \in Nat
        /\ queued.collateral \in Nat /\ queued.netDebt \in Nat
    BY Types DEF TypeOK
  <1>6. /\ queued'.collateral \in Nat
        /\ queued'.collateral - trove.collateral \in {wantedCollateral, 0}
    <2>1. CASE CollateralDue
      <3>1. collateral - previousTrove.collateral \in {wantedCollateral, 0}
        BY <2>1 DEF EditInv
      <3>2. /\ Rebased(collateral, previousTrove.collateral, trove.collateral) \in Nat
            /\ Rebased(collateral, previousTrove.collateral, trove.collateral) - trove.collateral
                 \in {collateral - previousTrove.collateral, 0}
        BY <1>5, RebasedType
      <3>3. queued'.collateral = Rebased(collateral, previousTrove.collateral, trove.collateral)
        BY <1>3, <2>1
      <3> QED BY <3>1, <3>2, <3>3
    <2>2. CASE ~CollateralDue
      BY <1>3, <1>5, <2>2 DEF EditInv
    <2> QED BY <2>1, <2>2
  <1>7. /\ queued'.netDebt \in Nat
        /\ queued'.netDebt - NetDebt(trove) \in {wantedDebt, 0}
    <2>1. CASE NetDebtDue
      <3>1. netDebt - NetDebt(previousTrove) \in {wantedDebt, 0}
        BY <2>1 DEF EditInv
      <3>2. /\ Rebased(netDebt, NetDebt(previousTrove), NetDebt(trove)) \in Nat
            /\ Rebased(netDebt, NetDebt(previousTrove), NetDebt(trove)) - NetDebt(trove)
                 \in {netDebt - NetDebt(previousTrove), 0}
        BY <1>5, RebasedType
      <3>3. queued'.netDebt = Rebased(netDebt, NetDebt(previousTrove), NetDebt(trove))
        BY <1>3, <2>1
      <3> QED BY <3>1, <3>2, <3>3
    <2>2. CASE ~NetDebtDue
      BY <1>3, <1>5, <2>2 DEF EditInv
    <2> QED BY <2>1, <2>2
  <1>8. TypeOK'
    BY <1>4, <1>6, <1>7 DEF TypeOK
  <1>9. Near(queued.stable)' \/ Near(stable)'
    <2>1. Computed(UpdatedTrove)' = Computed(UpdatedTrove)
      BY <1>4 DEF Computed, Known, UpdatedTrove, EditedTrove, FeeOf, FeeFrom, NetDebt
    <2> QED BY <1>2, <1>3, <1>4, <2>1, StableEffectNear DEF Near
  <1>10. EditInv'
    <2>1. ~CollateralDue' /\ ~NetDebtDue' /\ NetDebt(trove)' = NetDebt(trove)
      BY <1>4 DEF CollateralDue, NetDebtDue, NetDebt
    <2> QED BY <1>4, <1>6, <1>7, <1>9, <2>1 DEF EditInv
  <1> QED BY <1>3, <1>8, <1>10

LEMMA RenderOK ==
    ASSUME IInv, NEW t \in OpenTrove, NEW p \in Price, NEW r \in Rate, Render(t, p, r)
    PROVE  IInv'
  <1> USE DEF IInv
  <1>1. /\ trove' = t /\ price' = p /\ rate' = r /\ mounted' = mounted /\ thrown' = thrown
        /\ collateral' = queued.collateral /\ netDebt' = queued.netDebt /\ stable' = queued.stable
        /\ queued' = queued /\ auto' = auto /\ previousTrove' = previousTrove /\ due' = TRUE /\ ~due
        /\ wantedCollateral' = wantedCollateral /\ wantedDebt' = wantedDebt /\ edits' = edits
    BY DEF Render, Shows
  <1>2. TypeOK'
    BY <1>1 DEF TypeOK
  <1>3. QueuedRecord(queued)'
    BY <1>1 DEF QueuedRecord
  <1>4. /\ previousTrove = trove
        /\ queued.collateral - trove.collateral \in {wantedCollateral, 0}
        /\ queued.netDebt - NetDebt(trove) \in {wantedDebt, 0}
    BY <1>1 DEF EditInv, CollateralDue, NetDebtDue
  <1>5. queued' = [collateral |-> collateral', netDebt |-> netDebt', stable |-> stable']
    BY <1>1 DEF QueuedRecord
  <1>6. NetDebt(trove)' = NetDebt(t) /\ NetDebt(previousTrove)' = NetDebt(previousTrove)
    BY <1>1 DEF NetDebt
  <1>7. /\ CollateralDue' = (previousTrove.collateral # t.collateral)
        /\ NetDebtDue' = (NetDebt(previousTrove) # NetDebt(t))
    BY <1>1, <1>6 DEF CollateralDue, NetDebtDue
  <1>8. EditInv'
    BY <1>1, <1>4, <1>5, <1>6, <1>7 DEF EditInv
  <1> QED BY <1>2, <1>3, <1>8

\* An amount that a handler sets, if it does.
LEMMA SetType ==
    ASSUME NEW amounts, NEW key, key \in DOMAIN amounts => amounts[key] \in Nat, NEW x \in Nat
    PROVE  Set(amounts, key, x) \in Nat
  BY DEF Set

LEMMA ClickOK ==
    ASSUME IInv, NEW amounts, Click(amounts),
           "collateral" \in DOMAIN amounts => amounts.collateral \in Nat,
           "netDebt" \in DOMAIN amounts => amounts.netDebt \in Nat,
           auto' \in BOOLEAN, edits' \in 0..MaxEdits
    PROVE  IInv'
  <1> USE DEF IInv
  <1> DEFINE c == Set(amounts, "collateral", collateral)
             d == Set(amounts, "netDebt", netDebt)
             qc == Set(amounts, "collateral", queued.collateral)
             qd == Set(amounts, "netDebt", queued.netDebt)
             edited == EditedTrove(c, d)
             h1 == [queued EXCEPT !.collateral = qc]
             h2 == [h1 EXCEPT !.netDebt = qd]
  <1>1. /\ trove' = trove /\ price' = price /\ rate' = rate /\ mounted' = mounted
        /\ thrown' = thrown /\ stable' = stable /\ previousTrove' = trove /\ due' = FALSE
        /\ collateral' = c /\ netDebt' = d
        /\ wantedCollateral' = IF CollateralDue \/ "collateral" \notin DOMAIN amounts
                               THEN wantedCollateral ELSE amounts.collateral - trove.collateral
        /\ wantedDebt' = IF NetDebtDue \/ "netDebt" \notin DOMAIN amounts
                         THEN wantedDebt ELSE amounts.netDebt - NetDebt(trove)
    BY DEF Click, storeVars
  <1>2. PICK change \in Computed(edited), before \in Flushed :
           queued' = [RebaseEffect([h2 EXCEPT !.stable = before])
                        EXCEPT !.stable = StableEffect(@, change)]
    BY DEF Click
  <1>3. /\ trove.collateral \in Nat /\ NetDebt(trove) \in Nat /\ collateral \in Nat /\ netDebt \in Nat
        /\ previousTrove.collateral \in Nat /\ NetDebt(previousTrove) \in Nat
        /\ queued.collateral \in Nat /\ queued.netDebt \in Nat
    BY Types DEF TypeOK
  <1>4. c \in Nat /\ d \in Nat /\ qc \in Nat /\ qd \in Nat
    BY <1>3, SetType
  <1> HIDE DEF edited
  <1> DEFINE h3 == [h2 EXCEPT !.stable = before]
             offer == StableEffect(RebaseEffect(h3).stable, change)
  <1>5. h3 = [collateral |-> qc, netDebt |-> qd, stable |-> before]
    <2> DEFINE x == queued.collateral
               y == queued.netDebt
               z == queued.stable
    <2>1. queued = [collateral |-> x, netDebt |-> y, stable |-> z]
      BY DEF QueuedRecord
    <2> HIDE DEF qc, qd, x, y, z
    <2>2. h1 = [collateral |-> qc, netDebt |-> y, stable |-> z]
      BY <2>1
    <2> HIDE DEF h1
    <2>3. h2 = [collateral |-> qc, netDebt |-> qd, stable |-> z]
      BY <2>2
    <2> HIDE DEF h2
    <2> QED BY <2>3
  <1>6. QueuedRecord(h3) /\ h3.collateral = qc /\ h3.netDebt = qd
    <2> HIDE DEF qc, qd, h3
    <2> QED BY <1>5 DEF QueuedRecord
  <1>7. queued' = [RebaseEffect(h3) EXCEPT !.stable = offer]
    BY <1>2
  <1> HIDE DEF h3, offer, qc, qd, c, d
  <1>8. /\ QueuedRecord(queued)' /\ queued'.stable = offer
        /\ queued'.collateral = IF CollateralDue
                                THEN Rebased(collateral, previousTrove.collateral, trove.collateral)
                                ELSE qc
        /\ queued'.netDebt = IF NetDebtDue
                             THEN Rebased(netDebt, NetDebt(previousTrove), NetDebt(trove)) ELSE qd
    BY <1>6, <1>7, Effects DEF QueuedRecord
  <1>9. /\ queued'.collateral \in Nat
        /\ queued'.collateral - trove.collateral \in {wantedCollateral', 0}
    <2>1. CASE CollateralDue
      <3>1. collateral - previousTrove.collateral \in {wantedCollateral, 0}
        BY <2>1 DEF EditInv
      <3>2. wantedCollateral' = wantedCollateral
        BY <1>1, <2>1
      <3>3. /\ Rebased(collateral, previousTrove.collateral, trove.collateral) \in Nat
            /\ Rebased(collateral, previousTrove.collateral, trove.collateral) - trove.collateral
                 \in {collateral - previousTrove.collateral, 0}
        BY <1>3, RebasedType
      <3>4. queued'.collateral = Rebased(collateral, previousTrove.collateral, trove.collateral)
        BY <1>8, <2>1
      <3> QED BY <3>1, <3>2, <3>3, <3>4
    <2>2. CASE ~CollateralDue /\ "collateral" \in DOMAIN amounts
      <3>1. qc = amounts.collateral
        BY <2>2 DEF qc, Set
      <3> QED BY <1>1, <1>3, <1>4, <1>8, <2>2, <3>1
    <2>3. CASE ~CollateralDue /\ "collateral" \notin DOMAIN amounts
      <3>1. qc = queued.collateral
        BY <2>3 DEF qc, Set
      <3> QED BY <1>1, <1>3, <1>4, <1>8, <2>3, <3>1 DEF EditInv
    <2> QED BY <2>1, <2>2, <2>3
  <1>10. /\ queued'.netDebt \in Nat
         /\ queued'.netDebt - NetDebt(trove) \in {wantedDebt', 0}
    <2>1. CASE NetDebtDue
      <3>1. netDebt - NetDebt(previousTrove) \in {wantedDebt, 0}
        BY <2>1 DEF EditInv
      <3>2. wantedDebt' = wantedDebt
        BY <1>1, <2>1
      <3>3. /\ Rebased(netDebt, NetDebt(previousTrove), NetDebt(trove)) \in Nat
            /\ Rebased(netDebt, NetDebt(previousTrove), NetDebt(trove)) - NetDebt(trove)
                 \in {netDebt - NetDebt(previousTrove), 0}
        BY <1>3, RebasedType
      <3>4. queued'.netDebt = Rebased(netDebt, NetDebt(previousTrove), NetDebt(trove))
        BY <1>8, <2>1
      <3> QED BY <3>1, <3>2, <3>3, <3>4
    <2>2. CASE ~NetDebtDue /\ "netDebt" \in DOMAIN amounts
      <3>1. qd = amounts.netDebt
        BY <2>2 DEF qd, Set
      <3> QED BY <1>1, <1>3, <1>4, <1>8, <2>2, <3>1
    <2>3. CASE ~NetDebtDue /\ "netDebt" \notin DOMAIN amounts
      <3>1. qd = queued.netDebt
        BY <2>3 DEF qd, Set
      <3> QED BY <1>1, <1>3, <1>4, <1>8, <2>3, <3>1 DEF EditInv
    <2> QED BY <2>1, <2>2, <2>3
  <1>11. wantedCollateral' \in Int /\ wantedDebt' \in Int
    BY <1>1, <1>3 DEF TypeOK
  <1>12. TypeOK'
    BY <1>1, <1>4, <1>9, <1>10, <1>11 DEF TypeOK
  <1>13. Near(queued.stable)' \/ Near(stable)'
    <2>1. Computed(UpdatedTrove)' = Computed(edited)
      BY <1>1 DEF Computed, Known, UpdatedTrove, EditedTrove, FeeOf, FeeFrom, NetDebt, edited
    <2> QED BY <1>1, <1>2, <1>8, <2>1, StableEffectNear DEF Near, offer
  <1>14. EditInv'
    <2>1. ~CollateralDue' /\ ~NetDebtDue' /\ NetDebt(trove)' = NetDebt(trove)
      BY <1>1 DEF CollateralDue, NetDebtDue, NetDebt
    <2> QED BY <1>1, <1>9, <1>10, <1>13, <2>1 DEF EditInv
  <1> QED BY <1>8, <1>12, <1>14

LEMMA EditOK ==
    ASSUME IInv, NEW amounts, Edit(amounts),
           "collateral" \in DOMAIN amounts => amounts.collateral \in Nat,
           "netDebt" \in DOMAIN amounts => amounts.netDebt \in Nat
    PROVE  IInv'
  <1>1. auto' \in BOOLEAN /\ edits' \in 0..MaxEdits
    BY Types, AdjustingAssumption DEF Edit, IInv, TypeOK
  <1>2. Click(amounts)
    BY DEF Edit
  <1> QED BY <1>1, <1>2, ClickOK

LEMMA StepOK == IInv /\ [Next]_vars => IInv'
  <1> SUFFICES ASSUME IInv, [Next]_vars PROVE IInv'
    OBVIOUS
  <1> USE DEF IInv
  <1>1. ASSUME NEW t \in OpenTrove, NEW p \in Price, NEW r \in Rate, Mount(t, p, r) PROVE IInv'
    <2>1. Fresh(t) /\ trove' = t /\ price' \in Price /\ rate' \in Rate
          /\ mounted' \in BOOLEAN /\ thrown' \in BOOLEAN
      BY <1>1, Types DEF Mount, Shows
    <2> QED BY <2>1, FreshOK
  <1>2. ASSUME NEW t \in OpenTrove, NEW p \in Price, NEW r \in Rate, Render(t, p, r) PROVE IInv'
    BY <1>2, RenderOK
  <1>3. CASE RenderClosed \/ Unmount
    <2>1. Fresh(trove) /\ trove' = trove /\ price' \in Price /\ rate' \in Rate
          /\ mounted' \in BOOLEAN /\ thrown' \in BOOLEAN /\ trove \in OpenTrove
      BY <1>3, Types DEF RenderClosed, Unmount, storeVars, TypeOK
    <2> QED BY <2>1, FreshOK
  <1>4. CASE RunEffects
    BY <1>4, RunEffectsOK
  <1>5. CASE Reload \/ UNCHANGED vars
    <2>1. /\ trove' = trove /\ price' = price /\ rate' = rate /\ mounted' = mounted
          /\ thrown' \in BOOLEAN /\ collateral' = collateral /\ netDebt' = netDebt
          /\ stable' = stable /\ queued' = queued /\ auto' = auto /\ due' = due
          /\ previousTrove' = previousTrove
          /\ wantedCollateral' = wantedCollateral /\ wantedDebt' = wantedDebt /\ edits' = edits
      BY <1>5, Types DEF Reload, vars, storeVars, editVars
    <2>2. TypeOK'
      BY <2>1 DEF TypeOK
    <2>3. QueuedRecord(queued)'
      BY <2>1 DEF QueuedRecord
    <2>4. Near(queued.stable)' <=> Near(queued.stable)
      BY <2>1 DEF Near, Computed, Known, UpdatedTrove, EditedTrove, FeeOf, FeeFrom, NetDebt
    <2>5. Near(stable)' <=> Near(stable)
      BY <2>1 DEF Near, Computed, Known, UpdatedTrove, EditedTrove, FeeOf, FeeFrom, NetDebt
    <2>6. EditInv'
      <3>1. (CollateralDue' <=> CollateralDue) /\ (NetDebtDue' <=> NetDebtDue)
            /\ NetDebt(trove)' = NetDebt(trove) /\ NetDebt(previousTrove)' = NetDebt(previousTrove)
        BY <2>1 DEF CollateralDue, NetDebtDue, NetDebt
      <3> QED BY <2>1, <2>4, <2>5, <3>1 DEF EditInv
    <2> QED BY <2>2, <2>3, <2>6
  <1>6. CASE Press \/ ToggleAuto
    <2>1. Click(<<>>) /\ auto' \in BOOLEAN /\ edits' \in 0..MaxEdits
      BY <1>6, Types DEF Press, ToggleAuto, TypeOK
    <2>2. "collateral" \notin DOMAIN <<>> /\ "netDebt" \notin DOMAIN <<>>
      OBVIOUS
    <2> QED BY <2>1, <2>2, ClickOK
  <1>7. CASE Reset
    <2> DEFINE amounts == [collateral |-> trove.collateral, netDebt |-> NetDebt(trove)]
    <2>1. Edit(amounts) /\ amounts.collateral \in Nat /\ amounts.netDebt \in Nat
      BY <1>7, Types DEF Reset
    <2> HIDE DEF amounts
    <2> QED BY <2>1, EditOK
  <1>8. /\ Fee \in Nat /\ TotalDebt \in Nat /\ AutoRatio \in Nat /\ price \in Nat
        /\ netDebt \in Nat /\ collateral \in Nat
    <2>1. trove \in OpenTrove /\ rate \in Rate /\ netDebt \in Nat /\ price \in Nat /\ collateral \in Nat
      BY FormsAssumption DEF TypeOK
    <2>2. Fee \in Nat
      BY <2>1, FeeValue DEF Fee
    <2>3. AutoRatio \in Nat
      BY DecimalAssumption, Quotient DEF AutoRatio
    <2> QED BY <2>1, <2>2, <2>3, DecimalAssumption DEF TotalDebt
  <1>9. ASSUME NEW amount \in Amount, TypeCollateral(amount) PROVE IInv'
    <2> DEFINE newNetDebt == Div(Mul(amount, price), AutoRatio) - RESERVE - Fee
               adjusts == auto /\ Div(Mul(amount, price), TotalDebt) < AutoRatio
               both == [collateral |-> amount, netDebt |-> newNetDebt]
               one == [collateral |-> amount]
    <2>1. Edit(IF adjusts THEN both ELSE one) /\ (adjusts => newNetDebt >= 0)
      BY <1>9 DEF TypeCollateral
    <2>2. amount \in Nat /\ Div(Mul(amount, price), AutoRatio) \in Nat
      BY <1>8, FormsAssumption, DecimalTypes
    <2>3. newNetDebt \in Int
      BY <1>8, <2>2, DecimalAssumption
    <2> HIDE DEF newNetDebt, adjusts
    <2>4. CASE adjusts
      <3>1. Edit(both) /\ both.collateral \in Nat /\ both.netDebt \in Nat
        BY <2>1, <2>2, <2>3, <2>4
      <3> HIDE DEF both
      <3> QED BY <3>1, EditOK
    <2>5. CASE ~adjusts
      <3>1. Edit(one) /\ one.collateral \in Nat /\ "netDebt" \notin DOMAIN one
        BY <2>1, <2>2, <2>5
      <3> HIDE DEF one
      <3> QED BY <3>1, EditOK
    <2> QED BY <2>4, <2>5
  <1>10. ASSUME NEW amount \in Amount, TypeNetDebt(amount) PROVE IInv'
    <2> DEFINE newTotalDebt == amount + RESERVE + Fee
               newCollateral == Div(Mul(newTotalDebt, AutoRatio), price)
               adjusts == auto /\ Div(Mul(collateral, price), newTotalDebt) < AutoRatio
               both == [collateral |-> newCollateral, netDebt |-> amount]
               one == [netDebt |-> amount]
    <2>1. Edit(IF adjusts THEN both ELSE one)
      BY <1>10 DEF TypeNetDebt
    <2>2. amount \in Nat /\ newTotalDebt \in Nat
      BY <1>8, FormsAssumption, DecimalAssumption
    <2> HIDE DEF newTotalDebt, adjusts
    <2>3. newCollateral \in Nat
      BY <1>8, <2>2, DecimalTypes
    <2> HIDE DEF newCollateral
    <2>4. CASE adjusts
      <3>1. Edit(both) /\ both.collateral \in Nat /\ both.netDebt \in Nat
        BY <2>1, <2>2, <2>3, <2>4
      <3> HIDE DEF both
      <3> QED BY <3>1, EditOK
    <2>5. CASE ~adjusts
      <3>1. Edit(one) /\ one.netDebt \in Nat /\ "collateral" \notin DOMAIN one
        BY <2>1, <2>2, <2>5
      <3> HIDE DEF one
      <3> QED BY <3>1, EditOK
    <2> QED BY <2>4, <2>5
  <1> QED BY <1>1, <1>2, <1>3, <1>4, <1>5, <1>6, <1>7, <1>9, <1>10 DEF Next

\* The inductive invariant holds in every reachable state.
THEOREM Invariance == Spec => []IInv
  BY InitOK, StepOK, PTL DEF Spec

\* Type correctness: no edit, rebase or automatic adjustment makes an amount
\* negative.
THEOREM TypeCorrect == Spec => []TypeOK
  <1>1. IInv => TypeOK
    BY DEF IInv
  <1> QED BY <1>1, Invariance, PTL

\* A debt of an amount and its fee borrows no more than the amount.
LEMMA BorrowAtMost ==
    ASSUME NEW r \in Nat, NEW inc \in Nat, inc # 0
    PROVE  UnapplyFee(r, inc + Mul(UnapplyFee(r, inc), r)) \in 1..inc
  <1> DEFINE R == DIGITS + r
             u == UnapplyFee(r, inc)
             fee == Mul(u, r)
             v == UnapplyFee(r, inc + fee)
  <1>1. DIGITS \in Nat \ {0} /\ R \in Nat \ {0}
    BY DecimalAssumption
  <1>2. u \in Nat /\ u <= inc
    BY UnapplyFeeBounds, BorrowsLess
  <1> HIDE DEF u
  <1>3. u * r \in Nat /\ u * r <= inc * r /\ inc * r \in Nat /\ inc * DIGITS \in Nat
    BY <1>1, <1>2, Products, Monotone
  <1>4. fee \in Nat /\ fee * DIGITS <= u * r
    BY <1>1, <1>3, Quotient DEF Mul
  <1> HIDE DEF fee
  <1>5. v \in Nat /\ v * R < (inc + fee) * DIGITS + R /\ v # 0
    <2> DEFINE w == inc + fee
    <2>1. w \in Nat /\ w # 0
      BY <1>4
    <2> HIDE DEF w
    <2>2. /\ UnapplyFee(r, w) \in Nat /\ UnapplyFee(r, w) # 0
          /\ UnapplyFee(r, w) * R < w * DIGITS + R
      BY <2>1, UnapplyFeeBounds, BorrowsLess
    <2> QED BY <2>2 DEF w
  <1> HIDE DEF v
  <1>6. (inc + fee) * DIGITS = inc * DIGITS + fee * DIGITS /\ fee * DIGITS \in Nat
    BY <1>1, <1>4, Products
  <1>7. inc * R = inc * DIGITS + inc * r
    BY <1>1
  <1>8. inc * R \in Nat /\ v * R \in Nat
    BY <1>1, <1>5, Products
  <1>9. v * R < inc * R + R
    <2> HIDE DEF R
    <2> QED BY <1>1, <1>3, <1>4, <1>5, <1>6, <1>7, <1>8
  <1>10. v <= inc
    <2> HIDE DEF R
    <2> QED BY <1>1, <1>5, <1>9, Cancel
  <1>11. v \in 1..inc
    BY <1>5, <1>10
  <1> QED BY <1>11 DEF v, fee, u

\* The trove the form shows.
LEMMA UpdatedTroveValue ==
    ASSUME TypeOK
    PROVE  /\ UpdatedTrove \in AnyTrove /\ UpdatedTrove.debt # 0
           /\ UpdatedTrove.collateral = collateral
           /\ \/ netDebt = NetDebt(trove) /\ UpdatedTrove.debt = trove.debt
              \/ netDebt < NetDebt(trove) /\ UpdatedTrove.debt = netDebt + RESERVE
              \/ /\ netDebt > NetDebt(trove)
                 /\ UpdatedTrove.debt = netDebt + RESERVE +
                        Mul(UnapplyFee(rate, netDebt - NetDebt(trove)), rate)
  <1> DEFINE fee == FeeOf(netDebt)
             total == netDebt + RESERVE + fee
             dirty == collateral # trove.collateral \/ netDebt # NetDebt(trove)
  <1>1. /\ trove \in AnyTrove /\ trove.collateral \in Nat /\ trove.debt \in Nat /\ trove.debt # 0
        /\ NetDebt(trove) \in Nat /\ trove.debt = NetDebt(trove) + RESERVE
    BY OpenTroveType DEF TypeOK
  <1>2. collateral \in Nat /\ netDebt \in Nat /\ RESERVE \in Nat \ {0}
    BY DecimalAssumption DEF TypeOK
  <1>3. /\ fee \in Nat
        /\ fee = IF netDebt > NetDebt(trove)
                 THEN Mul(UnapplyFee(rate, netDebt - NetDebt(trove)), rate) ELSE 0
    BY <1>2, FeeValue DEF TypeOK
  <1>4. UpdatedTrove = IF dirty THEN MakeTrove(collateral, total) ELSE trove
    BY DEF UpdatedTrove, EditedTrove
  <1> HIDE DEF fee
  <1>5. total \in Nat /\ total # 0
    BY <1>2, <1>3
  <1>6. CASE dirty
    <2>1. UpdatedTrove = [collateral |-> collateral, debt |-> total]
      BY <1>4, <1>6 DEF MakeTrove
    <2>2. /\ UpdatedTrove \in AnyTrove /\ UpdatedTrove.collateral = collateral
          /\ UpdatedTrove.debt = total
      BY <1>2, <1>5, <2>1 DEF AnyTrove
    <2>3. CASE netDebt > NetDebt(trove)
      BY <1>2, <1>3, <1>5, <2>2, <2>3
    <2>4. CASE ~(netDebt > NetDebt(trove))
      BY <1>1, <1>2, <1>3, <1>5, <2>2, <2>4
    <2> QED BY <2>3, <2>4
  <1>7. CASE ~dirty
    BY <1>1, <1>4, <1>7
  <1> QED BY <1>6, <1>7

\* What is offered once the form has settled is what the last render computed.
LEMMA OfferedIsComputed ==
    ASSUME IInv, Settled, stable # NoChange
    PROVE  /\ collateral - trove.collateral \in {wantedCollateral, 0}
           /\ netDebt - NetDebt(trove) \in {wantedDebt, 0}
           /\ TroveChange # NoChange /\ stable.params = TroveChange.params
           /\ \E selected \in Known(trove, price) : SameOffer(stable, ValidChange(selected, TRUE))
  <1>1. /\ ~due /\ queued.collateral = collateral /\ queued.netDebt = netDebt
        /\ queued.stable = stable
    BY DEF Settled
  <1>2. /\ collateral - trove.collateral \in {wantedCollateral, 0}
        /\ netDebt - NetDebt(trove) \in {wantedDebt, 0}
    BY <1>1 DEF IInv, EditInv, CollateralDue, NetDebtDue
  <1>3. Near(stable)
    BY <1>1 DEF IInv, EditInv
  <1> DEFINE result == Apply(trove, TroveChange, rate)
  <1>4. PICK selected \in Known(trove, price) :
               SameOffer(stable, Validated(TroveChange, trove, result, selected, TRUE))
    BY <1>3 DEF Near, Computed, TroveChange
  <1>5. ValidChange(selected, TRUE) = Validated(TroveChange, trove, result, selected, TRUE)
    BY DEF ValidChange, validateTroveChange, TroveChange
  <1>6. Validated(TroveChange, trove, result, selected, TRUE) \in {TroveChange, NoChange}
    BY DEF Validated
  <1> HIDE DEF result
  <1>7. TroveChange # NoChange /\ stable.params = TroveChange.params
    BY <1>4, <1>6 DEF SameOffer
  <1> QED BY <1>2, <1>4, <1>5, <1>7

LEMMA OffersOK == IInv => OffersWhatWasWanted
  <1> SUFFICES ASSUME IInv, Settled, stable # NoChange
               PROVE  LET params == stable.params
                      IN  /\ "depositCollateral" \in DOMAIN params => params.depositCollateral = wantedCollateral
                          /\ "withdrawCollateral" \in DOMAIN params => params.withdrawCollateral = -wantedCollateral
                          /\ "repayHCHF" \in DOMAIN params => params.repayHCHF = -wantedDebt
                          /\ "borrowHCHF" \in DOMAIN params => params.borrowHCHF \in 1..wantedDebt
    BY DEF OffersWhatWasWanted
  <1> DEFINE that == UpdatedTrove
             params == stable.params
             base == NetDebt(trove)
             tc == trove.collateral
  <1>1. /\ trove \in AnyTrove /\ tc \in Nat /\ trove.debt \in Nat /\ trove.debt # 0
        /\ base \in Nat /\ trove.debt = base + RESERVE
    BY OpenTroveType DEF IInv, TypeOK
  <1>2. /\ collateral \in Nat /\ netDebt \in Nat /\ RESERVE \in Nat \ {0}
        /\ wantedCollateral \in Int /\ wantedDebt \in Int /\ rate \in Nat
    BY DecimalAssumption, RateType DEF IInv, TypeOK
  <1>3. /\ that \in AnyTrove /\ that.debt # 0 /\ that.collateral = collateral
        /\ \/ netDebt = base /\ that.debt = trove.debt
           \/ netDebt < base /\ that.debt = netDebt + RESERVE
           \/ /\ netDebt > base
              /\ that.debt = netDebt + RESERVE + Mul(UnapplyFee(rate, netDebt - base), rate)
    BY UpdatedTroveValue DEF IInv
  <1>4. collateral - tc \in {wantedCollateral, 0} /\ netDebt - base \in {wantedDebt, 0}
    BY OfferedIsComputed
  <1>5. /\ TroveChange = WhatChanged(trove, that, rate) /\ TroveChange # NoChange
        /\ params = TroveChange.params
    BY OfferedIsComputed DEF TroveChange
  <1> HIDE DEF that
  <1>6. /\ "borrowHCHF" \in DOMAIN params => that.debt > trove.debt
        /\ "repayHCHF" \in DOMAIN params => that.debt < trove.debt
        /\ "depositCollateral" \in DOMAIN params => that.collateral > tc
        /\ "withdrawCollateral" \in DOMAIN params => that.collateral < tc
        /\ Param(params, "borrowHCHF") =
              IF that.debt > trove.debt THEN UnapplyFee(rate, that.debt - trove.debt) ELSE 0
        /\ Param(params, "repayHCHF") = Less(trove.debt, that.debt)
        /\ Param(params, "depositCollateral") = Less(that.collateral, tc)
        /\ Param(params, "withdrawCollateral") = Less(tc, that.collateral)
    BY <1>1, <1>2, <1>3, <1>5, ChangeInDebt
  <1> HIDE DEF params
  <1>7. ASSUME "depositCollateral" \in DOMAIN params
        PROVE  params.depositCollateral = wantedCollateral
    BY <1>1, <1>2, <1>3, <1>4, <1>6, <1>7 DEF Param, Less
  <1>8. ASSUME "withdrawCollateral" \in DOMAIN params
        PROVE  params.withdrawCollateral = -wantedCollateral
    BY <1>1, <1>2, <1>3, <1>4, <1>6, <1>8 DEF Param, Less
  <1>9. netDebt > base => Mul(UnapplyFee(rate, netDebt - base), rate) \in Nat
    <2> SUFFICES ASSUME netDebt > base PROVE Mul(UnapplyFee(rate, netDebt - base), rate) \in Nat
      OBVIOUS
    <2>1. netDebt - base \in Nat
      BY <1>1, <1>2
    <2>2. UnapplyFee(rate, netDebt - base) \in Nat
      BY <1>2, <2>1, UnapplyFeeBounds
    <2> QED BY <1>2, <2>2, DecimalTypes
  <1>10. ASSUME "repayHCHF" \in DOMAIN params
         PROVE  params.repayHCHF = -wantedDebt
    <2>1. netDebt < base /\ that.debt = netDebt + RESERVE
      BY <1>1, <1>2, <1>3, <1>6, <1>9, <1>10
    <2> QED BY <1>1, <1>2, <1>4, <1>6, <1>10, <2>1 DEF Param, Less
  <1>11. ASSUME "borrowHCHF" \in DOMAIN params
         PROVE  params.borrowHCHF \in 1..wantedDebt
    <2> DEFINE inc == netDebt - base
               fee == Mul(UnapplyFee(rate, inc), rate)
    <2>1. netDebt > base /\ that.debt = netDebt + RESERVE + fee
      BY <1>1, <1>2, <1>3, <1>6, <1>11
    <2>2. inc \in Nat /\ inc # 0 /\ inc = wantedDebt
      BY <1>1, <1>2, <1>4, <2>1
    <2>3. fee \in Nat
      BY <1>9, <2>1
    <2> HIDE DEF fee
    <2>4. that.debt - trove.debt = inc + fee
      BY <1>1, <1>2, <2>1, <2>3
    <2> HIDE DEF inc
    <2>5. params.borrowHCHF = UnapplyFee(rate, inc + fee)
      BY <1>6, <1>11, <2>4 DEF Param
    <2>6. UnapplyFee(rate, inc + fee) \in 1..inc
      BY <1>2, <2>2, BorrowAtMost DEF fee
    <2> QED BY <2>2, <2>5, <2>6
  <1> QED BY <1>7, <1>8, <1>10, <1>11 DEF params

\* Whatever the store brings and wherever clicks fall between commits and
\* effects, once the form has settled the button offers what the user asked for,
\* or no change of an amount whose edit was dropped.  What the button offers, and
\* sends, before the effects of a new trove have been committed is not spoken of,
\* and an amount that is typed before the effect has rebased it counts as not
\* asked for (see OffersWhatWasWanted).
THEOREM OfferIsWanted == Spec => []OffersWhatWasWanted
  BY OffersOK, Invariance, PTL

LEMMA ResultOK == IInv => ResultIsShown
  <1> SUFFICES ASSUME IInv
               PROVE  LET result == Apply(trove, TroveChange, rate)
                      IN  /\ result.collateral = UpdatedTrove.collateral
                          /\ result.debt \in UpdatedTrove.debt..(UpdatedTrove.debt + 1)
    BY DEF ResultIsShown
  <1> DEFINE that == UpdatedTrove
  <1>1. trove \in AnyTrove /\ trove.debt # 0
    BY OpenTroveType DEF IInv, TypeOK
  <1>2. that \in AnyTrove /\ that.debt # 0
    BY UpdatedTroveValue DEF IInv
  <1>3. rate \in Nat /\ rate <= DIGITS
    BY RateType DEF IInv, TypeOK
  <1>4. TroveChange = WhatChanged(trove, that, rate)
    BY DEF TroveChange
  <1> HIDE DEF that
  <1>5. LET result == Apply(trove, TroveChange, rate)
        IN  result.collateral = that.collateral /\ result.debt \in that.debt..(that.debt + 1)
    BY <1>1, <1>2, <1>3, <1>4, ApplyReaches
  <1> QED BY <1>5 DEF that

\* The trove that results from the change a render computes is the one it shows,
\* up to a unit of the last digit of the debt.
THEOREM ShownIsReached == Spec => []ResultIsShown
  BY ResultOK, Invariance, PTL

------------------------------------------------------------------------------
(* The three forms.                                                        *)

LEMMA FormsInitOK == FormsInit => Init /\ O!Init /\ C!Init
  BY DEF FormsInit

LEMMA FormsStepOK ==
    [FormsNext]_allVars => [Next]_vars /\ [O!Next]_(O!vars) /\ [C!Next]_(C!vars)
  BY DEF FormsNext, allVars, openingVars, closingVars, O!vars, C!vars

\* Each form, taken by itself, behaves as its own module says: what is proved of
\* one holds of the forms together.
THEOREM FormsAreTheirOwn == FormsSpec => Spec /\ O!Spec /\ C!Spec
  BY FormsInitOK, FormsStepOK, PTL DEF FormsSpec, Spec, O!Spec, C!Spec

------------------------------------------------------------------------------
(* The instances have operators of their own, which are those of TroveForms.*)

LEMMA SameDecimals ==
    ASSUME NEW a, NEW b
    PROVE  O!Mul(a, b) = Mul(a, b) /\ O!Div(a, b) = Div(a, b)
  BY DEF Mul, Div, O!Mul, O!Div

LEMMA SameTroves ==
    ASSUME NEW a, NEW b
    PROVE  /\ O!MakeTrove(a, b) = MakeTrove(a, b) /\ C!MakeTrove(a, b) = MakeTrove(a, b)
           /\ C!Add(a, b) = Add(a, b)
  BY DEF MakeTrove, O!MakeTrove, C!MakeTrove, Add, C!Add

LEMMA SameEmpty ==
    /\ O!EmptyTrove = EmptyTrove /\ C!EmptyTrove = EmptyTrove
    /\ O!NoChange = NoChange /\ C!NoChange = NoChange /\ C!MINIMUM_DEBT = MINIMUM_DEBT
  BY DEF EmptyTrove, O!EmptyTrove, C!EmptyTrove, MakeTrove, O!MakeTrove, C!MakeTrove,
         NoChange, O!NoChange, C!NoChange, MINIMUM_DEBT, C!MINIMUM_DEBT

LEMMA SameTests ==
    ASSUME NEW t
    PROVE  C!IsEmpty(t) = IsEmpty(t) /\ C!NetDebt(t) = NetDebt(t)
  BY DEF IsEmpty, C!IsEmpty, NetDebt, C!NetDebt

LEMMA SameParam ==
    ASSUME NEW params, NEW key
    PROVE  C!Param(params, key) = Param(params, key)
  BY DEF Param, C!Param

LEMMA SameChange ==
    ASSUME NEW t, NEW that, NEW r
    PROVE  /\ O!WhatChanged(t, that, r) = WhatChanged(t, that, r)
           /\ C!WhatChanged(t, that, r) = WhatChanged(t, that, r)
  BY DEF WhatChanged, UnapplyFee, DivCeil, DebtChange, CollateralChange, Both, IsEmpty,
         HasNetDebt, NetDebt, NoChange, InvalidCreation, Creation, Closure, Adjustment,
         O!WhatChanged, O!UnapplyFee, O!DivCeil, O!DebtChange, O!CollateralChange, O!Both,
         O!IsEmpty, O!HasNetDebt, O!NetDebt, O!NoChange, O!InvalidCreation, O!Creation,
         O!Closure, O!Adjustment,
         C!WhatChanged, C!UnapplyFee, C!DivCeil, C!DebtChange, C!CollateralChange, C!Both,
         C!IsEmpty, C!HasNetDebt, C!NetDebt, C!NoChange, C!InvalidCreation, C!Creation,
         C!Closure, C!Adjustment

LEMMA SameApply ==
    ASSUME NEW t, NEW change, NEW r
    PROVE  O!Apply(t, change, r) = Apply(t, change, r) /\ C!Apply(t, change, r) = Apply(t, change, r)
  BY DEF Apply, ApplyFee, Mul, Param, Less, MakeTrove, EmptyTrove,
         O!Apply, O!ApplyFee, O!Mul, O!Param, O!Less, O!MakeTrove, O!EmptyTrove,
         C!Apply, C!ApplyFee, C!Mul, C!Param, C!Less, C!MakeTrove, C!EmptyTrove

LEMMA SameValidated ==
    ASSUME NEW change, NEW t, NEW result, NEW selected, NEW connected
    PROVE  /\ O!Validated(change, t, result, selected, connected) =
                 Validated(change, t, result, selected, connected)
           /\ C!Validated(change, t, result, selected, connected) =
                 Validated(change, t, result, selected, connected)
  BY DEF Validated, Add, Subtract, Less, MakeTrove, CollateralRatio, MulDiv, NoChange, Param,
         CollateralRatioIsBelowCritical, CollateralRatioIsBelowMinimum, IsOpenableInRecoveryMode,
         ValidCreation, ValidClosure, ValidAdjustment, MINIMUM_DEBT,
         O!Validated, O!Add, O!Subtract, O!Less, O!MakeTrove, O!CollateralRatio, O!MulDiv,
         O!NoChange, O!Param, O!CollateralRatioIsBelowCritical, O!CollateralRatioIsBelowMinimum,
         O!IsOpenableInRecoveryMode, O!ValidCreation, O!ValidClosure, O!ValidAdjustment, O!MINIMUM_DEBT,
         C!Validated, C!Add, C!Subtract, C!Less, C!MakeTrove, C!CollateralRatio, C!MulDiv,
         C!NoChange, C!Param, C!CollateralRatioIsBelowCritical, C!CollateralRatioIsBelowMinimum,
         C!IsOpenableInRecoveryMode, C!ValidCreation, C!ValidClosure, C!ValidAdjustment, C!MINIMUM_DEBT

LEMMA SameValidation ==
    ASSUME NEW t, NEW edited, NEW r, NEW selected, NEW connected
    PROVE  /\ O!validateTroveChange(t, edited, r, selected, connected) =
                 validateTroveChange(t, edited, r, selected, connected)
           /\ C!validateTroveChange(t, edited, r, selected, connected) =
                 validateTroveChange(t, edited, r, selected, connected)
  BY SameChange, SameApply, SameValidated
     DEF validateTroveChange, O!validateTroveChange, C!validateTroveChange

LEMMA SameAccepts ==
    ASSUME NEW t, NEW change, NEW r, NEW system
    PROVE  C!Accepts(t, change, r, system) = Accepts(t, change, r, system)
  BY DEF Accepts, ContractRatio, Param, C!Accepts, C!ContractRatio, C!Param

------------------------------------------------------------------------------
(* <Opening>.                                                              *)

LEMMA OpeningEditOK ==
    ASSUME O!TypeOK, NEW c \in Nat, NEW b \in Nat, O!Edit(c, b)
    PROVE  O!TypeOK'
  BY FormsAssumption DEF O!TypeOK, O!Edit

LEMMA OpeningStepOK == O!TypeOK /\ [O!Next]_(O!vars) => O!TypeOK'
  <1> SUFFICES ASSUME O!TypeOK, [O!Next]_(O!vars) PROVE O!TypeOK'
    OBVIOUS
  <1>1. /\ oPrice \in Nat /\ oRate \in Nat /\ oCollateral \in Nat /\ oBorrowAmount \in Nat
        /\ DIGITS \in Nat \ {0} /\ RESERVE \in Nat
    BY FormsAssumption, DecimalAssumption DEF O!TypeOK
  <1>2. O!AutoRatio \in Nat
    BY DecimalAssumption, Quotient DEF O!AutoRatio
  <1>3. ASSUME NEW amount \in Amount, O!TypeCollateral(amount) PROVE O!TypeOK'
    <2> DEFINE affordable == Div(Mul(amount, oPrice), O!AutoRatio)
               adjusts == oAuto /\ Div(Mul(amount, oPrice), O!TotalDebt) < O!AutoRatio
               b == IF adjusts /\ affordable >= RESERVE
                    THEN Div(affordable - RESERVE, oRate + DIGITS) ELSE oBorrowAmount
    <2>1. O!Edit(amount, b)
      BY <1>3, SameDecimals DEF O!TypeCollateral
    <2>2. amount \in Nat
      BY FormsAssumption
    <2>3. affordable \in Nat
      BY <1>1, <1>2, <2>2, DecimalTypes
    <2> HIDE DEF affordable, adjusts
    <2>4. ASSUME affordable >= RESERVE PROVE Div(affordable - RESERVE, oRate + DIGITS) \in Nat
      <3>1. affordable - RESERVE \in Nat /\ oRate + DIGITS \in Nat
        BY <1>1, <2>3, <2>4
      <3> QED BY <3>1, DecimalTypes
    <2>5. b \in Nat
      BY <1>1, <2>4
    <2> QED BY <2>1, <2>2, <2>5, OpeningEditOK
  <1>4. ASSUME NEW amount \in Amount, O!TypeBorrowAmount(amount) PROVE O!TypeOK'
    <2> DEFINE newTotalDebt == amount + RESERVE + Mul(amount, oRate)
               adjusts == oAuto /\ Div(Mul(oCollateral, oPrice), newTotalDebt) < O!AutoRatio
               c == IF adjusts THEN Div(Mul(newTotalDebt, O!AutoRatio), oPrice) ELSE oCollateral
    <2>1. O!Edit(c, amount)
      BY <1>4, SameDecimals DEF O!TypeBorrowAmount
    <2>2. amount \in Nat
      BY FormsAssumption
    <2>3. newTotalDebt \in Nat
      <3>1. Mul(amount, oRate) \in Nat
        BY <1>1, <2>2, DecimalTypes
      <3> QED BY <1>1, <2>2, <3>1
    <2> HIDE DEF newTotalDebt, adjusts
    <2>4. Div(Mul(newTotalDebt, O!AutoRatio), oPrice) \in Nat
      BY <1>1, <1>2, <2>3, DecimalTypes
    <2>5. c \in Nat
      BY <1>1, <2>4
    <2> QED BY <2>1, <2>2, <2>5, OpeningEditOK
  <1>5. CASE O!ToggleAuto
    BY <1>5 DEF O!ToggleAuto, O!TypeOK
  <1>6. CASE O!Reset
    BY <1>6, OpeningEditOK DEF O!Reset
  <1>7. ASSUME NEW p \in Price, NEW r \in Rate, O!StoreUpdate(p, r) PROVE O!TypeOK'
    BY <1>7 DEF O!StoreUpdate, O!TypeOK
  <1>8. CASE UNCHANGED O!vars
    BY <1>8 DEF O!vars, O!TypeOK
  <1> QED BY <1>3, <1>4, <1>5, <1>6, <1>7, <1>8 DEF O!Next

LEMMA OpeningInvariance == O!Spec => []O!TypeOK
  <1>1. O!Init => O!TypeOK
    <2> SUFFICES ASSUME O!Init PROVE O!TypeOK
      OBVIOUS
    <2>1. oAuto \in BOOLEAN
      BY DEF O!Init
    <2> QED BY <2>1 DEF O!Init, O!TypeOK
  <1> QED BY <1>1, OpeningStepOK, PTL DEF O!Spec

\* What a change from no trove to the one the form shows is, and results in.
LEMMA CreationValue ==
    ASSUME NEW r \in Nat, NEW c \in Nat, NEW b \in Nat, NEW that,
           that = MakeTrove(c, b + RESERVE + Mul(b, r))
    PROVE  /\ WhatChanged(EmptyTrove, that, r) =
                  Creation([depositCollateral |-> c, borrowHCHF |-> b])
           /\ Apply(EmptyTrove, WhatChanged(EmptyTrove, that, r), r) = that
  <1> DEFINE params == [depositCollateral |-> c, borrowHCHF |-> b]
  <1>1. RESERVE \in Nat \ {0} /\ Mul(b, r) \in Nat /\ b + Mul(b, r) = ApplyFee(r, b)
    BY DecimalAssumption, FeeAdds
  <1>2. /\ that.collateral = c /\ that.debt = b + RESERVE + Mul(b, r) /\ that.debt # 0
        /\ that.debt >= RESERVE /\ that.debt - RESERVE = ApplyFee(r, b)
    BY <1>1 DEF MakeTrove
  <1>3. UnapplyFee(r, NetDebt(that)) = b
    BY <1>2, UnapplyFeeInverts DEF NetDebt
  <1>4. EmptyTrove.collateral = 0 /\ EmptyTrove.debt = 0
    BY DEF EmptyTrove, MakeTrove
  <1>5. WhatChanged(EmptyTrove, that, r) = Creation(params)
    <2>1. IsEmpty(EmptyTrove) /\ ~IsEmpty(that) /\ HasNetDebt(that) /\ EmptyTrove.debt # that.debt
      BY <1>2, <1>4 DEF IsEmpty, HasNetDebt
    <2> QED BY <1>2, <1>3, <2>1 DEF WhatChanged
  <1>6. /\ Param(params, "depositCollateral") = c /\ Param(params, "borrowHCHF") = b
        /\ Creation(params).type = "creation" /\ Creation(params).params = params
    BY DEF Param, Creation
  <1> HIDE DEF params
  <1>7. Apply(EmptyTrove, Creation(params), r) = MakeTrove(c, RESERVE + ApplyFee(r, b))
    BY <1>6 DEF Apply
  <1>8. RESERVE + ApplyFee(r, b) = b + RESERVE + Mul(b, r)
    BY <1>1
  <1>9. Apply(EmptyTrove, WhatChanged(EmptyTrove, that, r), r) = that
    BY <1>5, <1>7, <1>8
  <1> QED BY <1>5, <1>9 DEF params

LEMMA OpeningShown == O!TypeOK => OpeningOffersWhatIsShown
  <1> SUFFICES ASSUME O!TypeOK, O!IsDirty
               PROVE  /\ O!TroveChange.type = "creation"
                      /\ O!TroveChange.params.depositCollateral = oCollateral
                      /\ O!TroveChange.params.borrowHCHF = oBorrowAmount
                      /\ Apply(EmptyTrove, O!TroveChange, oRate) = O!NewTrove
    BY SameApply, SameEmpty DEF OpeningOffersWhatIsShown, O!OffersWhatIsShown
  <1>1. oRate \in Nat /\ oCollateral \in Nat /\ oBorrowAmount \in Nat
    BY FormsAssumption, DecimalAssumption DEF O!TypeOK
  <1>2. O!NewTrove = MakeTrove(oCollateral, oBorrowAmount + RESERVE + Mul(oBorrowAmount, oRate))
    BY SameDecimals, SameTroves DEF O!NewTrove, O!TotalDebt, O!Fee
  <1>3. O!TroveChange = WhatChanged(EmptyTrove, O!NewTrove, oRate)
    BY SameChange, SameEmpty DEF O!TroveChange
  <1>4. /\ O!TroveChange = Creation([depositCollateral |-> oCollateral, borrowHCHF |-> oBorrowAmount])
        /\ Apply(EmptyTrove, O!TroveChange, oRate) = O!NewTrove
    BY <1>1, <1>2, <1>3, CreationValue
  <1> QED BY <1>4 DEF Creation

\* <Opening> offers to the unit the amounts it shows, and the trove it shows is
\* the one that results, at every precision, price and borrowing rate.
THEOREM OpeningOffers == FormsSpec => []OpeningOffersWhatIsShown
  BY FormsAreTheirOwn, OpeningInvariance, OpeningShown, PTL

------------------------------------------------------------------------------
(* What the forms offer as valid, the contract accepts.                    *)

LEMMA SameRatio ==
    ASSUME NEW t, NEW p
    PROVE  CollateralRatio(t, p) = ContractRatio(t.collateral, t.debt, p)
  BY DEF CollateralRatio, MulDiv, ContractRatio

LEMMA RatioType ==
    ASSUME NEW c \in Nat, NEW d \in Nat, NEW p \in Nat
    PROVE  ContractRatio(c, d, p) \in Nat
  BY Products, Quotient, DecimalAssumption DEF ContractRatio

\* The total when a part of it is replaced.
LEMMA Replaced ==
    ASSUME NEW t \in AnyTrove, NEW others \in AnyTrove, NEW result \in AnyTrove
    PROVE  LET total == Add(t, others)
               after == Add(Subtract(total, t), result)
           IN  /\ after.collateral = total.collateral - t.collateral + result.collateral
               /\ after.debt = total.debt - t.debt + result.debt
  <1> DEFINE total == Add(t, others)
             rest == Subtract(total, t)
             after == Add(rest, result)
  <1>1. /\ t.collateral \in Nat /\ t.debt \in Nat /\ others.collateral \in Nat /\ others.debt \in Nat
        /\ result.collateral \in Nat /\ result.debt \in Nat
    BY DEF AnyTrove
  <1>2. /\ total.collateral = t.collateral + others.collateral
        /\ total.debt = t.debt + others.debt
    BY DEF Add, MakeTrove
  <1> HIDE DEF total
  <1>3. rest.collateral = total.collateral - t.collateral /\ rest.debt = total.debt - t.debt
    BY <1>1, <1>2 DEF Subtract, MakeTrove, Less
  <1> HIDE DEF rest
  <1>4. /\ after.collateral = total.collateral - t.collateral + result.collateral
        /\ after.debt = total.debt - t.debt + result.debt
    BY <1>3 DEF Add, MakeTrove
  <1> QED BY <1>4 DEF after, rest, total

\* The trove an adjustment results in, as the contract computes it.
LEMMA AdjustedTrove ==
    ASSUME NEW t \in AnyTrove, NEW that \in AnyTrove, t.debt # 0, that.debt # 0, NEW r \in Nat,
           NEW change, change = WhatChanged(t, that, r), change.type = "adjustment"
    PROVE  LET result == Apply(t, change, r)
               borrow == Param(change.params, "borrowHCHF")
               repay == Param(change.params, "repayHCHF")
           IN  /\ result \in AnyTrove /\ borrow \in Nat /\ repay \in Nat
               /\ result.collateral = t.collateral + Param(change.params, "depositCollateral")
                                        - Param(change.params, "withdrawCollateral")
               /\ result.debt = t.debt + (borrow + ((borrow * r) \div DIGITS)) - repay + 0
  <1> DEFINE tc == t.collateral
             td == t.debt
             c == that.collateral
             d == that.debt
             result == Apply(t, change, r)
             borrow == IF d > td THEN UnapplyFee(r, d - td) ELSE 0
             made == ApplyFee(r, borrow)
  <1>1. tc \in Nat /\ td \in Nat /\ c \in Nat /\ d \in Nat
    BY DEF AnyTrove
  <1>2. /\ change.setToZero = IF c = 0 /\ tc # 0 THEN "collateral" ELSE "none"
        /\ Param(change.params, "borrowHCHF") = borrow
        /\ Param(change.params, "repayHCHF") = Less(td, d)
        /\ Param(change.params, "depositCollateral") = Less(c, tc)
        /\ Param(change.params, "withdrawCollateral") = Less(tc, c)
    <2>1. change # NoChange
      BY DEF NoChange
    <2> QED BY <2>1, ChangeInDebt
  <1>3. result = MakeTrove(IF change.setToZero = "collateral" THEN 0
                           ELSE Less(tc + Less(c, tc), Less(tc, c)),
                           Less(td + made, Less(td, d)))
    BY <1>2 DEF Apply
  <1>4. result.collateral = c
    BY <1>1, <1>2, <1>3, LessValue DEF MakeTrove
  <1>5. result.debt = Less(td + made, Less(td, d))
    BY <1>3 DEF MakeTrove
  <1>6. borrow \in Nat /\ (d <= td => borrow = 0)
    <2>1. ASSUME d > td PROVE UnapplyFee(r, d - td) \in Nat
      <3>1. d - td \in Nat
        BY <1>1, <2>1
      <3> QED BY <3>1, UnapplyFeeBounds
    <2> QED BY <1>1, <2>1
  <1> HIDE DEF borrow, result
  <1>7. made \in Nat /\ made = borrow + ((borrow * r) \div DIGITS) /\ (borrow = 0 => made = 0)
    <2>1. made \in Nat /\ made = borrow + Mul(borrow, r)
      BY <1>6, FeeAdds, ApplyFeeBounds
    <2>2. ASSUME borrow = 0 PROVE made = 0
      BY <2>2, DecimalAssumption, Quotient DEF ApplyFee, Mul
    <2> QED BY <2>1, <2>2 DEF Mul
  <1> HIDE DEF made
  <1>8. result.debt = td + made - Less(td, d) /\ result.debt \in Nat /\ Less(td, d) \in Nat
    <2>1. CASE d > td
      BY <1>1, <1>5, <1>7, <2>1 DEF Less
    <2>2. CASE ~(d > td)
      BY <1>1, <1>5, <1>6, <1>7, <2>2 DEF Less
    <2> QED BY <2>1, <2>2
  <1>9. c = tc + Less(c, tc) - Less(tc, c)
    BY <1>1 DEF Less
  <1>10. result \in AnyTrove
    BY <1>1, <1>3, <1>4, <1>8 DEF MakeTrove, AnyTrove, result
  <1>11. result.debt = td + (borrow + ((borrow * r) \div DIGITS)) - Less(td, d) + 0
    BY <1>1, <1>7, <1>8
  <1> QED BY <1>2, <1>4, <1>6, <1>8, <1>9, <1>10, <1>11 DEF result

\* What the contract asks of an adjustment.
LEMMA AcceptsAdjustment ==
    ASSUME NEW t, NEW change, NEW r, NEW s, change.type = "adjustment"
    PROVE  LET params == change.params
               borrow == Param(params, "borrowHCHF")
               repay == Param(params, "repayHCHF")
               newCollateral == t.collateral + Param(params, "depositCollateral")
                                  - Param(params, "withdrawCollateral")
               newDebt == t.debt + (borrow + ((borrow * r) \div DIGITS)) - repay + 0
               newRatio == ContractRatio(newCollateral, newDebt, s.price)
               total == ContractRatio(s.total.collateral, s.total.debt, s.price)
               newTotal == ContractRatio(s.total.collateral - t.collateral + newCollateral,
                                         s.total.debt - t.debt + newDebt, s.price)
           IN  /\ Param(params, "depositCollateral") <= s.accountBalance
               /\ repay <= s.hchfBalance
               /\ newCollateral >= 0 /\ newDebt >= 0
               /\ repay > 0 => newDebt >= RESERVE + MINIMUM_NET_DEBT
               /\ total < CCR => Param(params, "withdrawCollateral") = 0
               /\ total < CCR /\ borrow > 0 =>
                     newRatio >= CCR /\ newRatio >= ContractRatio(t.collateral, t.debt, s.price)
               /\ ~(total < CCR) => newRatio >= MCR /\ newTotal >= CCR
               => Accepts(t, change, r, s)
  BY DEF Accepts

LEMMA AdjustmentAccepted ==
    ASSUME NEW t \in AnyTrove, NEW that \in AnyTrove, t.debt # 0, that.debt # 0, NEW r \in Nat,
           NEW others \in AnyTrove, NEW s, s.total = Add(t, others), s.hchfBalance \in Nat, s.price \in Nat,
           NEW change, change = validateTroveChange(t, that, r, s, TRUE), change # NoChange
    PROVE  Accepts(t, change, r, s)
  <1>1. change = WhatChanged(t, that, r)
    BY DEF validateTroveChange, Validated
  <1>2. change.type = "adjustment"
    BY ONLY <1>1, change # NoChange, ChangeInDebt,
            t \in AnyTrove, that \in AnyTrove, t.debt # 0, that.debt # 0, r \in Nat
  <1> DEFINE result == Apply(t, change, r)
             after == Add(Subtract(s.total, t), result)
             c == [price |-> s.price, accountBalance |-> s.accountBalance,
                   hchfBalance |-> s.hchfBalance, numberOfTroves |-> s.numberOfTroves,
                   hasConnection |-> TRUE, originalTrove |-> t, resultingTrove |-> result,
                   recoveryMode |-> CollateralRatioIsBelowCritical(s.total, s.price),
                   wouldTriggerRecoveryMode |-> CollateralRatioIsBelowCritical(after, s.price)]
             params == change.params
             borrow == Param(params, "borrowHCHF")
             repay == Param(params, "repayHCHF")
             deposit == Param(params, "depositCollateral")
             withdraw == Param(params, "withdrawCollateral")
             newCollateral == t.collateral + deposit - withdraw
             newDebt == t.debt + (borrow + ((borrow * r) \div DIGITS)) - repay + 0
             totalCollateral == s.total.collateral - t.collateral + newCollateral
             totalDebt == s.total.debt - t.debt + newDebt
             total == ContractRatio(s.total.collateral, s.total.debt, s.price)
             newTotal == ContractRatio(totalCollateral, totalDebt, s.price)
             newRatio == ContractRatio(newCollateral, newDebt, s.price)
             oldRatio == ContractRatio(t.collateral, t.debt, s.price)
  <1>3. ValidAdjustment(params, c)
    <2>1. change = Validated(change, t, result, s, TRUE)
      BY <1>1 DEF validateTroveChange
    <2> HIDE DEF result
    <2> QED BY <1>2, <2>1 DEF Validated
  <1>4. /\ result \in AnyTrove /\ borrow \in Nat /\ repay \in Nat
        /\ result.collateral = newCollateral /\ result.debt = newDebt
    BY ONLY <1>1, <1>2, AdjustedTrove, t \in AnyTrove, that \in AnyTrove, t.debt # 0, that.debt # 0, r \in Nat
  <1>5. after.collateral = totalCollateral /\ after.debt = totalDebt
    <2> HIDE DEF result, newCollateral, newDebt
    <2> QED BY <1>4, Replaced
  <1> HIDE DEF result, after, borrow, repay, deposit, withdraw
  <1>6. /\ CollateralRatio(result, s.price) = newRatio
        /\ CollateralRatio(t, s.price) = oldRatio
        /\ CollateralRatioIsBelowCritical(s.total, s.price) = (total < CCR)
        /\ CollateralRatioIsBelowMinimum(result, s.price) = (newRatio < MCR)
        /\ CollateralRatioIsBelowCritical(after, s.price) = (newTotal < CCR)
    BY <1>4, <1>5, SameRatio DEF CollateralRatioIsBelowCritical, CollateralRatioIsBelowMinimum
  <1>7. newCollateral \in Nat /\ newDebt \in Nat
    BY <1>4 DEF AnyTrove
  <1>8. totalCollateral \in Nat /\ totalDebt \in Nat /\ s.total.collateral \in Nat /\ s.total.debt \in Nat
    <2>1. /\ t.collateral \in Nat /\ t.debt \in Nat /\ others.collateral \in Nat /\ others.debt \in Nat
      BY DEF AnyTrove
    <2>2. /\ s.total.collateral = t.collateral + others.collateral
          /\ s.total.debt = t.debt + others.debt
      BY DEF Add, MakeTrove
    <2> HIDE DEF newCollateral, newDebt
    <2> QED BY <1>7, <2>1, <2>2
  <1>9. t.collateral \in Nat /\ t.debt \in Nat
    BY DEF AnyTrove
  <1> HIDE DEF newCollateral, newDebt, totalCollateral, totalDebt
  <1>10. total \in Nat /\ newTotal \in Nat /\ newRatio \in Nat /\ oldRatio \in Nat /\ MCR \in Nat /\ CCR \in Nat
    BY <1>7, <1>8, <1>9, RatioType, FormsAssumption
  <1> HIDE DEF total, newTotal, newRatio, oldRatio
  <1>11. /\ IF total < CCR
            THEN withdraw = 0 /\ (borrow # 0 => ~(newRatio < CCR) /\ newRatio >= oldRatio)
            ELSE ~(newRatio < MCR) /\ ~(newTotal < CCR)
         /\ repay # 0 => newDebt >= MINIMUM_DEBT /\ params.repayHCHF <= s.hchfBalance
         /\ deposit <= s.accountBalance
    <2>1. /\ c.recoveryMode = (total < CCR)
          /\ c.wouldTriggerRecoveryMode = (newTotal < CCR)
          /\ c.resultingTrove = result /\ c.originalTrove = t /\ c.price = s.price
          /\ c.hchfBalance = s.hchfBalance /\ c.accountBalance = s.accountBalance
      BY <1>6
    <2>2. CollateralRatioIsBelowCritical(result, s.price) = (newRatio < CCR)
      BY <1>6 DEF CollateralRatioIsBelowCritical
    <2> HIDE DEF c, params
    <2> QED BY <1>3, <1>4, <1>6, <2>1, <2>2 DEF ValidAdjustment, borrow, repay, deposit, withdraw
  <1>12. repay # 0 => params.repayHCHF = repay
    BY DEF repay, Param
  <1>13. /\ deposit <= s.accountBalance
         /\ repay <= s.hchfBalance
         /\ newCollateral >= 0 /\ newDebt >= 0
         /\ repay > 0 => newDebt >= RESERVE + MINIMUM_NET_DEBT
         /\ total < CCR => withdraw = 0
         /\ total < CCR /\ borrow > 0 => newRatio >= CCR /\ newRatio >= oldRatio
         /\ ~(total < CCR) => newRatio >= MCR /\ newTotal >= CCR
    <2>1. MINIMUM_DEBT = RESERVE + MINIMUM_NET_DEBT
      BY FormsAssumption, DecimalAssumption DEF MINIMUM_DEBT
    <2> HIDE DEF params
    <2> QED BY <1>4, <1>7, <1>10, <1>11, <1>12, <2>1
  <1> QED BY <1>2, <1>13, AcceptsAdjustment
          DEF total, newTotal, newRatio, oldRatio, totalCollateral, totalDebt, newCollateral, newDebt,
              params, borrow, repay, deposit, withdraw

LEMMA ChangeFields ==
    ASSUME NEW params
    PROVE  /\ Creation(params).type = "creation" /\ Creation(params).params = params
           /\ Closure(params).type = "closure" /\ Closure(params).params = params
  BY DEF Creation, Closure

\* What the contract asks of a creation and of a closure.
LEMMA AcceptsCreation ==
    ASSUME NEW t, NEW change, NEW r, NEW s, change.type = "creation"
    PROVE  LET params == change.params
               borrow == Param(params, "borrowHCHF")
               repay == Param(params, "repayHCHF")
               minted == borrow + ((borrow * r) \div DIGITS)
               newCollateral == t.collateral + Param(params, "depositCollateral")
                                  - Param(params, "withdrawCollateral")
               newDebt == t.debt + minted - repay + RESERVE
               newRatio == ContractRatio(newCollateral, newDebt, s.price)
               total == ContractRatio(s.total.collateral, s.total.debt, s.price)
               newTotal == ContractRatio(s.total.collateral - t.collateral + newCollateral,
                                         s.total.debt - t.debt + newDebt, s.price)
           IN  /\ Param(params, "depositCollateral") <= s.accountBalance
               /\ repay <= s.hchfBalance
               /\ newCollateral >= 0 /\ newDebt >= 0
               /\ minted >= MINIMUM_NET_DEBT
               /\ total < CCR => newRatio >= CCR
               /\ ~(total < CCR) => newRatio >= MCR /\ newTotal >= CCR
               => Accepts(t, change, r, s)
  BY DEF Accepts

LEMMA AcceptsClosure ==
    ASSUME NEW t, NEW change, NEW r, NEW s, change.type = "closure"
    PROVE  LET params == change.params
               repay == Param(params, "repayHCHF")
               newCollateral == t.collateral + Param(params, "depositCollateral")
                                  - Param(params, "withdrawCollateral")
               total == ContractRatio(s.total.collateral, s.total.debt, s.price)
               newTotal == ContractRatio(s.total.collateral - t.collateral + newCollateral,
                                         s.total.debt - t.debt + 0, s.price)
           IN  /\ Param(params, "depositCollateral") <= s.accountBalance
               /\ repay <= s.hchfBalance
               /\ newCollateral >= 0 /\ 0 >= 0
               /\ s.numberOfTroves > 1
               /\ ~(total < CCR) /\ newTotal >= CCR
               => Accepts(t, change, r, s)
  BY DEF Accepts

LEMMA CreationAccepted ==
    ASSUME NEW c \in Nat, NEW b \in Nat, NEW r \in Nat, NEW that,
           that = MakeTrove(c, b + RESERVE + Mul(b, r)),
           NEW others \in AnyTrove, NEW s, s.total = Add(EmptyTrove, others), s.hchfBalance \in Nat, s.price \in Nat,
           NEW change, change = validateTroveChange(EmptyTrove, that, r, s, TRUE), change # NoChange
    PROVE  Accepts(EmptyTrove, change, r, s)
  <1> DEFINE t == EmptyTrove
             after == Add(Subtract(s.total, t), that)
             x == [price |-> s.price, accountBalance |-> s.accountBalance,
                   hchfBalance |-> s.hchfBalance, numberOfTroves |-> s.numberOfTroves,
                   hasConnection |-> TRUE, originalTrove |-> t, resultingTrove |-> that,
                   recoveryMode |-> CollateralRatioIsBelowCritical(s.total, s.price),
                   wouldTriggerRecoveryMode |-> CollateralRatioIsBelowCritical(after, s.price)]
             params == [depositCollateral |-> c, borrowHCHF |-> b]
             minted == b + ((b * r) \div DIGITS)
             newCollateral == t.collateral + c - 0
             newDebt == t.debt + minted - 0 + RESERVE
             totalCollateral == s.total.collateral - t.collateral + newCollateral
             totalDebt == s.total.debt - t.debt + newDebt
             total == ContractRatio(s.total.collateral, s.total.debt, s.price)
             newTotal == ContractRatio(totalCollateral, totalDebt, s.price)
             newRatio == ContractRatio(newCollateral, newDebt, s.price)
  <1>1. change = WhatChanged(t, that, r)
    BY DEF validateTroveChange, Validated
  <1>2. change = Creation(params) /\ Apply(t, change, r) = that
    BY ONLY <1>1, CreationValue, c \in Nat, b \in Nat, r \in Nat,
            that = MakeTrove(c, b + RESERVE + Mul(b, r))
  <1>3. change.type = "creation" /\ change.params = params
    BY ONLY <1>2, ChangeFields
  <1>4. ValidCreation(params, x)
    <2>1. change = Validated(change, t, that, s, TRUE)
      BY <1>1, <1>2 DEF validateTroveChange
    <2> HIDE DEF params
    <2> QED BY <1>3, <2>1 DEF Validated
  <1>5. /\ t \in AnyTrove /\ t.collateral = 0 /\ t.debt = 0 /\ RESERVE \in Nat
        /\ minted \in Nat /\ minted >= b /\ minted = b + Mul(b, r) /\ Mul(b, r) \in Nat
    <2>1. Mul(b, r) \in Nat
      BY FeeAdds
    <2> QED BY <2>1, DecimalAssumption DEF EmptyTrove, MakeTrove, AnyTrove, Mul
  <1> HIDE DEF t, minted
  <1>6. /\ that \in AnyTrove /\ that.collateral = newCollateral /\ that.debt = newDebt
        /\ newCollateral \in Nat /\ newDebt \in Nat
    <2>1. newCollateral = c /\ newDebt = b + RESERVE + Mul(b, r) /\ newDebt \in Nat
      BY <1>5
    <2>2. that = [collateral |-> newCollateral, debt |-> newDebt]
      BY <2>1 DEF MakeTrove
    <2> HIDE DEF newCollateral, newDebt
    <2> QED BY ONLY c \in Nat, <2>1, <2>2 DEF AnyTrove
  <1>7. after.collateral = totalCollateral /\ after.debt = totalDebt
    <2> HIDE DEF newCollateral, newDebt
    <2>1. s.total = Add(t, others)
      BY DEF t
    <2> QED BY <1>5, <1>6, <2>1, Replaced
  <1>8. totalCollateral \in Nat /\ totalDebt \in Nat /\ s.total.collateral \in Nat /\ s.total.debt \in Nat
    <2>1. others.collateral \in Nat /\ others.debt \in Nat
      BY DEF AnyTrove
    <2>2. /\ s.total.collateral = t.collateral + others.collateral
          /\ s.total.debt = t.debt + others.debt
      BY DEF Add, MakeTrove, t
    <2> HIDE DEF newCollateral, newDebt
    <2> QED BY <1>5, <1>6, <2>1, <2>2
  <1> HIDE DEF after, newCollateral, newDebt, totalCollateral, totalDebt
  <1>9. /\ CollateralRatio(that, s.price) = newRatio
        /\ CollateralRatioIsBelowCritical(s.total, s.price) = (total < CCR)
        /\ CollateralRatioIsBelowMinimum(that, s.price) = (newRatio < MCR)
        /\ CollateralRatioIsBelowCritical(after, s.price) = (newTotal < CCR)
    BY <1>6, <1>7, SameRatio DEF CollateralRatioIsBelowCritical, CollateralRatioIsBelowMinimum
  <1>10. total \in Nat /\ newTotal \in Nat /\ newRatio \in Nat /\ MCR \in Nat /\ CCR \in Nat
    BY <1>6, <1>8, RatioType, FormsAssumption
  <1> HIDE DEF total, newTotal, newRatio
  <1>11. /\ b >= MINIMUM_NET_DEBT
         /\ IF total < CCR THEN newRatio >= CCR ELSE ~(newRatio < MCR) /\ ~(newTotal < CCR)
         /\ c <= s.accountBalance
    <2>1. /\ x.recoveryMode = (total < CCR)
          /\ x.wouldTriggerRecoveryMode = (newTotal < CCR)
          /\ x.resultingTrove = that /\ x.price = s.price /\ x.accountBalance = s.accountBalance
      BY <1>9
    <2>2. params.borrowHCHF = b /\ params.depositCollateral = c
      OBVIOUS
    <2> HIDE DEF x, params
    <2> QED BY <1>4, <1>9, <2>1, <2>2 DEF ValidCreation, IsOpenableInRecoveryMode
  <1>12. /\ c <= s.accountBalance /\ 0 <= s.hchfBalance /\ newCollateral >= 0 /\ newDebt >= 0
         /\ minted >= MINIMUM_NET_DEBT
         /\ total < CCR => newRatio >= CCR
         /\ ~(total < CCR) => newRatio >= MCR /\ newTotal >= CCR
    BY <1>5, <1>6, <1>10, <1>11, FormsAssumption
  <1>13. /\ Param(params, "borrowHCHF") = b /\ Param(params, "depositCollateral") = c
         /\ Param(params, "repayHCHF") = 0 /\ Param(params, "withdrawCollateral") = 0
    BY DEF Param
  <1> HIDE DEF params
  <1>14. Accepts(t, change, r, s)
    BY <1>3, <1>12, <1>13, AcceptsCreation
       DEF total, newTotal, newRatio, totalCollateral, totalDebt, newCollateral, newDebt, minted
  <1> QED BY <1>14 DEF t

LEMMA ClosureAccepted ==
    ASSUME NEW t \in AnyTrove, ~IsEmpty(t), NEW others \in AnyTrove, NEW s, s.total = Add(t, others),
           s.price \in Nat, s.accountBalance = 0, s.numberOfTroves \in {1, 2},
           NEW change, change = validateTroveChange(t, EmptyTrove, 0, s, TRUE), change # NoChange
    PROVE  Accepts(t, change, 0, s)
  <1> DEFINE params == IF NetDebt(t) # 0
                       THEN [withdrawCollateral |-> t.collateral, repayHCHF |-> NetDebt(t)]
                       ELSE [withdrawCollateral |-> t.collateral]
             after == Add(Subtract(s.total, t), EmptyTrove)
             x == [price |-> s.price, accountBalance |-> s.accountBalance,
                   hchfBalance |-> s.hchfBalance, numberOfTroves |-> s.numberOfTroves,
                   hasConnection |-> TRUE, originalTrove |-> t, resultingTrove |-> EmptyTrove,
                   recoveryMode |-> CollateralRatioIsBelowCritical(s.total, s.price),
                   wouldTriggerRecoveryMode |-> CollateralRatioIsBelowCritical(after, s.price)]
             newCollateral == t.collateral + 0 - t.collateral
             totalCollateral == s.total.collateral - t.collateral + newCollateral
             totalDebt == s.total.debt - t.debt + 0
             total == ContractRatio(s.total.collateral, s.total.debt, s.price)
             newTotal == ContractRatio(totalCollateral, totalDebt, s.price)
  <1>1. change = WhatChanged(t, EmptyTrove, 0)
    BY DEF validateTroveChange, Validated
  <1>2. /\ EmptyTrove \in AnyTrove /\ EmptyTrove.collateral = 0 /\ EmptyTrove.debt = 0 /\ IsEmpty(EmptyTrove)
        /\ t.collateral \in Nat /\ t.debt \in Nat
    BY DEF EmptyTrove, MakeTrove, AnyTrove, IsEmpty
  <1>3. change = Closure(params)
    <2>1. ~(t.collateral = EmptyTrove.collateral /\ t.debt = EmptyTrove.debt)
      BY <1>2 DEF IsEmpty
    <2> QED BY <1>1, <1>2, <2>1 DEF WhatChanged
  <1>4. change.type = "closure" /\ change.params = params
    BY ONLY <1>3, ChangeFields
  <1>5. Apply(t, change, 0) = EmptyTrove
    BY <1>4 DEF Apply
  <1>6. ValidClosure(params, x)
    <2>1. change = Validated(change, t, EmptyTrove, s, TRUE)
      BY <1>1, <1>5 DEF validateTroveChange
    <2> HIDE DEF params
    <2> QED BY <1>4, <2>1 DEF Validated
  <1>7. newCollateral = 0
    BY <1>2
  <1> HIDE DEF newCollateral
  <1>8. after.collateral = totalCollateral /\ after.debt = totalDebt
    BY <1>2, <1>7, Replaced
  <1>9. totalCollateral \in Nat /\ totalDebt \in Nat /\ s.total.collateral \in Nat /\ s.total.debt \in Nat
    <2>1. others.collateral \in Nat /\ others.debt \in Nat
      BY DEF AnyTrove
    <2>2. /\ s.total.collateral = t.collateral + others.collateral
          /\ s.total.debt = t.debt + others.debt
      BY DEF Add, MakeTrove
    <2> QED BY <1>2, <1>7, <2>1, <2>2
  <1> HIDE DEF after, totalCollateral, totalDebt
  <1>10. /\ CollateralRatioIsBelowCritical(s.total, s.price) = (total < CCR)
         /\ CollateralRatioIsBelowCritical(after, s.price) = (newTotal < CCR)
    BY <1>8, SameRatio DEF CollateralRatioIsBelowCritical
  <1>11. total \in Nat /\ newTotal \in Nat /\ CCR \in Nat
    BY <1>9, RatioType, FormsAssumption
  <1> HIDE DEF total, newTotal
  <1>12. /\ s.numberOfTroves # 1 /\ ~(total < CCR) /\ ~(newTotal < CCR)
         /\ Param(params, "repayHCHF") <= s.hchfBalance
    <2>1. /\ x.recoveryMode = (total < CCR)
          /\ x.wouldTriggerRecoveryMode = (newTotal < CCR)
          /\ x.hchfBalance = s.hchfBalance /\ x.numberOfTroves = s.numberOfTroves
      BY <1>10
    <2> HIDE DEF x, params
    <2> QED BY <1>6, <2>1 DEF ValidClosure
  <1>13. Param(params, "depositCollateral") = 0 /\ Param(params, "withdrawCollateral") = t.collateral
    BY DEF Param
  <1> HIDE DEF params
  <1>14. 0 <= s.accountBalance /\ newCollateral >= 0 /\ 0 >= 0 /\ s.numberOfTroves > 1 /\ newTotal >= CCR
    BY <1>7, <1>11, <1>12
  <1> QED BY <1>4, <1>12, <1>13, <1>14, AcceptsClosure
          DEF total, newTotal, totalCollateral, totalDebt, newCollateral

------------------------------------------------------------------------------
(* <TroveManager>.                                                         *)

FormState ==
    [original : AnyTrove, edited : AnyTrove, changePending : BOOLEAN, debtDirty : BOOLEAN,
     addedMinimumDebt : BOOLEAN]

Ledger ==
    [base : AnyTrove, redistributed : BOOLEAN, price : Price, hchfBalance : Int, allowance : Int]

MountedForm ==
    [mounted : {TRUE}, state : FormState, shown : FormState, known : Ledger, due : BOOLEAN,
     leaving : BOOLEAN]

\* The inductive invariant: the reducer's state stays one of two troves, whatever
\* order effects, reports and transactions come in.
ClosingInv ==
    /\ chain \in Ledger /\ stored \in Ledger
    /\ approving \in Int
    /\ form \in MountedForm \cup {C!NoForm}

LEMMA EmptyFields ==
    EmptyTrove \in AnyTrove /\ EmptyTrove.collateral = 0 /\ EmptyTrove.debt = 0
  BY DEF EmptyTrove, MakeTrove, AnyTrove

LEMMA MakeTroveType ==
    ASSUME NEW c \in Nat, NEW d \in Nat
    PROVE  MakeTrove(c, d) \in AnyTrove
  BY DEF MakeTrove, AnyTrove

\* The parameters of a change between any two troves.
LEMMA DebtParams ==
    ASSUME NEW t \in AnyTrove, NEW that \in AnyTrove, NEW r \in Nat, NEW key
    PROVE  Param(DebtChange(t, that, r), key) \in Nat
  <1>1. t.debt \in Nat /\ that.debt \in Nat
    BY DEF AnyTrove
  <1>2. CASE that.debt > t.debt
    <2>1. that.debt - t.debt \in Nat
      BY <1>1, <1>2
    <2>2. UnapplyFee(r, that.debt - t.debt) \in Nat
      BY <2>1, UnapplyFeeBounds
    <2>3. DebtChange(t, that, r) = [borrowHCHF |-> UnapplyFee(r, that.debt - t.debt)]
      BY <1>2 DEF DebtChange
    <2> QED BY <2>2, <2>3 DEF Param
  <1>3. CASE ~(that.debt > t.debt)
    <2>1. t.debt - that.debt \in Nat
      BY <1>1, <1>3
    <2>2. DebtChange(t, that, r) = [repayHCHF |-> t.debt - that.debt]
      BY <1>3 DEF DebtChange
    <2> QED BY <2>1, <2>2 DEF Param
  <1> QED BY <1>2, <1>3

LEMMA CollateralParams ==
    ASSUME NEW t \in AnyTrove, NEW that \in AnyTrove, NEW key
    PROVE  Param(CollateralChange(t, that), key) \in Nat
  <1>1. t.collateral \in Nat /\ that.collateral \in Nat
    BY DEF AnyTrove
  <1>2. CASE that.collateral > t.collateral
    <2>1. that.collateral - t.collateral \in Nat
      BY <1>1, <1>2
    <2>2. CollateralChange(t, that) = [depositCollateral |-> that.collateral - t.collateral]
      BY <1>2 DEF CollateralChange
    <2> QED BY <2>1, <2>2 DEF Param
  <1>3. CASE ~(that.collateral > t.collateral)
    <2>1. t.collateral - that.collateral \in Nat
      BY <1>1, <1>3
    <2>2. CollateralChange(t, that) = [withdrawCollateral |-> t.collateral - that.collateral]
      BY <1>3 DEF CollateralChange
    <2> QED BY <2>1, <2>2 DEF Param
  <1> QED BY <1>2, <1>3

LEMMA BothParams ==
    ASSUME NEW d, NEW c, NEW key, Param(d, key) \in Nat, Param(c, key) \in Nat
    PROVE  Param(Both(d, c), key) \in Nat
  BY DEF Param, Both

\* The kinds of change between two troves.
LEMMA Changes ==
    ASSUME NEW t \in AnyTrove, NEW that \in AnyTrove, NEW r \in Nat,
           NEW change, change = WhatChanged(t, that, r)
    PROVE  /\ change.type \in {"none", "creation", "invalidCreation", "closure", "adjustment"}
           /\ change.type = "invalidCreation" => change.invalidTrove = that
           /\ change.type \in {"creation", "adjustment"} => \A key : Param(change.params, key) \in Nat
           /\ change.type = "closure" => Param(change.params, "repayHCHF") \in {0, NetDebt(t)}
  <1> DEFINE sameC == t.collateral = that.collateral
             sameD == t.debt = that.debt
             dc == DebtChange(t, that, r)
             cc == CollateralChange(t, that)
             params == IF sameC THEN dc ELSE IF sameD THEN cc ELSE Both(dc, cc)
             zero == IF that.debt = 0 /\ ~sameD THEN "debt"
                     ELSE IF that.collateral = 0 /\ ~sameC THEN "collateral" ELSE "none"
  <1>1. CASE sameC /\ sameD
    <2>1. ~(IsEmpty(t) /\ ~IsEmpty(that)) /\ ~(~IsEmpty(t) /\ IsEmpty(that))
      BY <1>1 DEF IsEmpty
    <2>2. change = NoChange
      BY <1>1, <2>1 DEF WhatChanged
    <2> QED BY <2>2 DEF NoChange
  <1>2. CASE ~(sameC /\ sameD) /\ IsEmpty(t) /\ ~IsEmpty(that)
    <2>1. CASE HasNetDebt(that)
      <3> DEFINE made == [depositCollateral |-> that.collateral,
                          borrowHCHF |-> UnapplyFee(r, NetDebt(that))]
      <3>1. NetDebt(that) \in Nat /\ that.collateral \in Nat
        BY <2>1, DecimalAssumption DEF HasNetDebt, NetDebt, AnyTrove
      <3>2. UnapplyFee(r, NetDebt(that)) \in Nat
        BY <3>1, UnapplyFeeBounds
      <3>3. change = Creation(made)
        BY <1>2, <2>1 DEF WhatChanged
      <3>4. change.type = "creation" /\ change.params = made
        BY <3>3, ChangeFields
      <3>5. ASSUME NEW key PROVE Param(made, key) \in Nat
        BY <3>1, <3>2 DEF Param
      <3> HIDE DEF made
      <3> QED BY <3>4, <3>5
    <2>2. CASE ~HasNetDebt(that)
      <3>1. change = InvalidCreation(that)
        BY <1>2, <2>2 DEF WhatChanged
      <3> QED BY <3>1 DEF InvalidCreation
    <2> QED BY <2>1, <2>2
  <1>3. CASE ~(sameC /\ sameD) /\ ~IsEmpty(t) /\ IsEmpty(that)
    <2> DEFINE closing == IF NetDebt(t) # 0
                          THEN [withdrawCollateral |-> t.collateral, repayHCHF |-> NetDebt(t)]
                          ELSE [withdrawCollateral |-> t.collateral]
    <2>1. change = Closure(closing)
      BY <1>3 DEF WhatChanged
    <2>2. change.type = "closure" /\ change.params = closing
      BY <2>1, ChangeFields
    <2>3. Param(closing, "repayHCHF") \in {0, NetDebt(t)}
      BY DEF Param
    <2> QED BY <2>2, <2>3
  <1>4. CASE ~(sameC /\ sameD) /\ ~(IsEmpty(t) /\ ~IsEmpty(that)) /\ ~(~IsEmpty(t) /\ IsEmpty(that))
    <2>1. change = Adjustment(params, zero)
      BY <1>4 DEF WhatChanged
    <2>2. ASSUME NEW key PROVE Param(params, key) \in Nat
      <3>1. Param(dc, key) \in Nat /\ Param(cc, key) \in Nat
        BY DebtParams, CollateralParams
      <3> HIDE DEF dc, cc
      <3>2. Param(Both(dc, cc), key) \in Nat
        BY <3>1, BothParams
      <3> QED BY <3>1, <3>2
    <2> HIDE DEF params, zero
    <2>3. change.type = "adjustment" /\ change.params = params
      BY <2>1 DEF Adjustment
    <2> QED BY <2>2, <2>3
  <1> QED BY <1>1, <1>2, <1>3, <1>4

\* Whatever the change between two troves is, applied to a third it gives a
\* trove.
LEMMA AppliedType ==
    ASSUME NEW base \in AnyTrove, NEW t \in AnyTrove, NEW that \in AnyTrove, NEW r \in Nat,
           NEW change, change = WhatChanged(t, that, r)
    PROVE  Apply(base, change, r) \in AnyTrove
  <1> DEFINE result == Apply(base, change, r)
             params == change.params
  <1>1. /\ change.type \in {"none", "creation", "invalidCreation", "closure", "adjustment"}
        /\ change.type = "invalidCreation" => change.invalidTrove = that
        /\ change.type \in {"creation", "adjustment"} => \A key : Param(params, key) \in Nat
    BY Changes
  <1>2. CASE change.type = "none"
    BY <1>2 DEF Apply
  <1>3. CASE change.type = "invalidCreation"
    BY <1>1, <1>3 DEF Apply
  <1>4. CASE change.type = "closure"
    BY <1>4, EmptyFields DEF Apply
  <1>5. ASSUME change.type \in {"creation", "adjustment"}
        PROVE  /\ Param(params, "depositCollateral") \in Nat /\ Param(params, "withdrawCollateral") \in Nat
               /\ Param(params, "borrowHCHF") \in Nat /\ Param(params, "repayHCHF") \in Nat
               /\ ApplyFee(r, Param(params, "borrowHCHF")) \in Nat
    <2> HIDE DEF params
    <2>1. \A key : Param(params, key) \in Nat
      BY <1>1, <1>5
    <2>2. Param(params, "borrowHCHF") \in Nat
      BY <2>1
    <2>3. ApplyFee(r, Param(params, "borrowHCHF")) \in Nat
      BY <2>2, ApplyFeeBounds
    <2> QED BY <2>1, <2>3
  <1>6. CASE change.type = "creation"
    <2>1. result = MakeTrove(Param(params, "depositCollateral"),
                             RESERVE + ApplyFee(r, Param(params, "borrowHCHF")))
      BY <1>6 DEF Apply
    <2>2. RESERVE + ApplyFee(r, Param(params, "borrowHCHF")) \in Nat
      BY <1>5, <1>6, DecimalAssumption
    <2> QED BY <1>5, <1>6, <2>1, <2>2, MakeTroveType
  <1>7. CASE change.type = "adjustment"
    <2> DEFINE c == IF change.setToZero = "collateral" THEN 0
                    ELSE Less(base.collateral + Param(params, "depositCollateral"),
                              Param(params, "withdrawCollateral"))
               d == IF change.setToZero = "debt" THEN 0
                    ELSE Less(base.debt + ApplyFee(r, Param(params, "borrowHCHF")),
                              Param(params, "repayHCHF"))
    <2>1. result = MakeTrove(c, d)
      BY <1>7 DEF Apply
    <2>2. base.collateral \in Nat /\ base.debt \in Nat
      BY DEF AnyTrove
    <2>3. c \in Nat /\ d \in Nat
      <3> HIDE DEF params
      <3> QED BY <1>5, <1>7, <2>2 DEF Less
    <2> QED BY <2>1, <2>3, MakeTroveType
  <1> QED BY <1>1, <1>2, <1>3, <1>4, <1>6, <1>7

\* The reducer's state.
LEMMA FormStateFields ==
    ASSUME NEW s \in FormState
    PROVE  /\ s.original \in AnyTrove /\ s.edited \in AnyTrove
           /\ s.changePending \in BOOLEAN /\ s.debtDirty \in BOOLEAN /\ s.addedMinimumDebt \in BOOLEAN
  BY DEF FormState

LEMMA ChangePending ==
    ASSUME NEW s \in FormState
    PROVE  /\ C!startChange(s) \in FormState /\ C!finishChange(s) \in FormState
           /\ C!startChange(s).original = s.original /\ C!startChange(s).edited = s.edited
           /\ C!finishChange(s).original = s.original /\ C!finishChange(s).edited = s.edited
  BY DEF C!startChange, C!finishChange, FormState

LEMMA Reverted ==
    ASSUME NEW s \in FormState
    PROVE  C!revert(s) \in FormState /\ C!revert(s).original = s.original
  <1> DEFINE s1 == [s EXCEPT !.edited = s.original]
             s2 == [s1 EXCEPT !.debtDirty = FALSE]
             s3 == [s2 EXCEPT !.addedMinimumDebt = FALSE]
  <1>1. s1 \in FormState /\ s1.original = s.original
    BY FormStateFields DEF FormState
  <1>2. s2 \in FormState /\ s2.original = s1.original
    <2> HIDE DEF s1
    <2> QED BY <1>1 DEF FormState
  <1>3. s3 \in FormState /\ s3.original = s2.original
    <2> HIDE DEF s2
    <2> QED BY <1>2 DEF FormState
  <1>4. C!revert(s) = s3
    BY DEF C!revert
  <1> HIDE DEF s1, s2, s3
  <1> QED BY <1>1, <1>2, <1>3, <1>4

\* Setting an amount of the edited trove.
WithCollateral(s, n) == [s EXCEPT !.edited.collateral = n]
WithDebt(s, n) == [s EXCEPT !.edited.debt = n]

LEMMA EditFields ==
    ASSUME NEW s \in FormState, NEW n \in Nat
    PROVE  /\ WithCollateral(s, n) \in FormState /\ WithCollateral(s, n).original = s.original
           /\ WithCollateral(s, n).edited.collateral = n
           /\ WithDebt(s, n) \in FormState /\ WithDebt(s, n).original = s.original
           /\ WithDebt(s, n).edited.collateral = s.edited.collateral /\ WithDebt(s, n).edited.debt = n
  <1> DEFINE tc == [s.edited EXCEPT !.collateral = n]
             td == [s.edited EXCEPT !.debt = n]
  <1>1. /\ tc \in AnyTrove /\ tc.collateral = n
        /\ td \in AnyTrove /\ td.collateral = s.edited.collateral /\ td.debt = n
    BY FormStateFields DEF AnyTrove
  <1>2. WithCollateral(s, n) = [s EXCEPT !.edited = tc] /\ WithDebt(s, n) = [s EXCEPT !.edited = td]
    BY DEF WithCollateral, WithDebt
  <1> HIDE DEF tc, td
  <1>3. /\ [s EXCEPT !.edited = tc] \in FormState /\ [s EXCEPT !.edited = tc].original = s.original
        /\ [s EXCEPT !.edited = tc].edited = tc
    BY <1>1 DEF FormState
  <1>4. /\ [s EXCEPT !.edited = td] \in FormState /\ [s EXCEPT !.edited = td].original = s.original
        /\ [s EXCEPT !.edited = td].edited = td
    BY <1>1 DEF FormState
  <1> QED BY <1>1, <1>2, <1>3, <1>4

\* After its effect, the amounts are zero.
LEMMA AmountsZero ==
    ASSUME NEW s \in FormState
    PROVE  /\ C!AmountsEffect(s) \in FormState
           /\ C!AmountsEffect(s).original = s.original
           /\ C!AmountsEffect(s).edited.collateral = 0 /\ C!AmountsEffect(s).edited.debt = 0
  <1> DEFINE new == WithCollateral(s, 0)
             rd == WithDebt(new, 0)
             removed == [rd EXCEPT !.addedMinimumDebt = FALSE]
             first == C!setCollateral(s, 0)
             sd == WithDebt(first, 0)
             second == [sd EXCEPT !.debtDirty = TRUE]
  <1>1. new \in FormState /\ new.original = s.original /\ new.edited.collateral = 0
    BY EditFields
  <1> HIDE DEF new
  <1>2. rd \in FormState /\ rd.original = s.original /\ rd.edited.collateral = 0
    BY <1>1, EditFields
  <1> HIDE DEF rd
  <1>3. removed \in FormState /\ removed.original = s.original /\ removed.edited.collateral = 0
    BY <1>2 DEF FormState
  <1>4. C!removeMinimumDebt(new) = removed
    BY DEF C!removeMinimumDebt, removed, rd, WithDebt
  <1> HIDE DEF removed
  <1>5. first \in {new, removed}
    BY <1>4 DEF C!setCollateral, new, WithCollateral
  <1>6. first \in FormState /\ first.original = s.original /\ first.edited.collateral = 0
    BY <1>1, <1>3, <1>5
  <1> HIDE DEF first
  <1>7. sd \in FormState /\ sd.original = s.original /\ sd.edited.collateral = 0 /\ sd.edited.debt = 0
    BY <1>6, EditFields
  <1> HIDE DEF sd
  <1>8. /\ second \in FormState /\ second.original = s.original
        /\ second.edited.collateral = 0 /\ second.edited.debt = 0
    BY <1>7 DEF FormState
  <1>9. C!AmountsEffect(s) = second
    BY DEF C!AmountsEffect, C!setDebt, second, sd, first, WithDebt
  <1> HIDE DEF second
  <1> QED BY <1>8, <1>9

\* A report makes its trove the original.
LEMMA Updated ==
    ASSUME NEW s \in FormState, NEW t \in AnyTrove, NEW committed \in BOOLEAN
    PROVE  /\ C!updateStore(s, t, committed) \in FormState
           /\ C!updateStore(s, t, committed).original = t
  <1> DEFINE new == [s EXCEPT !.original = t]
             change == WhatChanged(s.original, s.edited, 0)
             back == C!revert(new)
             finished == C!finishChange(back)
             applied == [new EXCEPT !.edited = Apply(t, change, 0)]
  <1>1. new \in FormState /\ new.original = t
    BY DEF FormState
  <1> HIDE DEF new
  <1>2. back \in FormState /\ back.original = t
    BY <1>1, Reverted
  <1> HIDE DEF back
  <1>3. finished \in FormState /\ finished.original = t
    BY <1>2, ChangePending
  <1> HIDE DEF finished
  <1>4. Apply(t, change, 0) \in AnyTrove
    BY FormStateFields, AppliedType
  <1>5. applied \in FormState /\ applied.original = t
    <2> HIDE DEF change
    <2> QED BY <1>1, <1>4 DEF FormState
  <1>6. C!updateStore(s, t, committed) \in {finished, back, applied}
    BY SameChange, SameApply DEF C!updateStore, finished, back, new
  <1> HIDE DEF applied
  <1> QED BY <1>2, <1>3, <1>5, <1>6

LEMMA LedgerFields ==
    ASSUME NEW c \in Ledger
    PROVE  /\ c.base \in AnyTrove /\ c.redistributed \in BOOLEAN /\ c.price \in Price
           /\ c.hchfBalance \in Int /\ c.allowance \in Int
  BY DEF Ledger

LEMMA UserTroveType ==
    ASSUME NEW c \in Ledger
    PROVE  C!UserTrove(c) \in AnyTrove
  <1>1. c.base \in AnyTrove /\ Redistribution \in AnyTrove
    BY LedgerFields, FormsConstants DEF AnyTrove
  <1>2. /\ c.base.collateral \in Nat /\ c.base.debt \in Nat
        /\ Redistribution.collateral \in Nat /\ Redistribution.debt \in Nat
    BY <1>1 DEF AnyTrove
  <1>3. Add(c.base, Redistribution) \in AnyTrove
    BY <1>2 DEF Add, MakeTrove, AnyTrove
  <1> QED BY <1>1, <1>3, SameTroves DEF C!UserTrove

\* What the effects leave as the reducer's state.
LEMMA StateAfterEffects ==
    ASSUME stored \in Ledger, NEW s \in FormState
    PROVE  LET after == C!TransactionEffect(C!AmountsEffect(C!SubscribeEffect(s)))
           IN  /\ after \in FormState /\ after.original = C!UserTrove(stored)
               /\ after.edited.collateral = 0 /\ after.edited.debt = 0
  <1> DEFINE s1 == C!SubscribeEffect(s)
             s2 == C!AmountsEffect(s1)
             s3 == C!TransactionEffect(s2)
  <1>1. s1 \in FormState /\ s1.original = C!UserTrove(stored)
    BY UserTroveType, Updated DEF C!SubscribeEffect
  <1> HIDE DEF s1
  <1>2. /\ s2 \in FormState /\ s2.original = C!UserTrove(stored)
        /\ s2.edited.collateral = 0 /\ s2.edited.debt = 0
    BY <1>1, AmountsZero
  <1> HIDE DEF s2
  <1>3. /\ C!startChange(s2) \in FormState /\ C!finishChange(s2) \in FormState
        /\ C!startChange(s2).original = s2.original /\ C!startChange(s2).edited = s2.edited
        /\ C!finishChange(s2).original = s2.original /\ C!finishChange(s2).edited = s2.edited
    BY <1>2, ChangePending
  <1>4. s3 \in {C!startChange(s2), C!finishChange(s2), s2}
    BY DEF C!TransactionEffect
  <1> HIDE DEF s3
  <1>5. /\ s3 \in FormState /\ s3.original = C!UserTrove(stored)
        /\ s3.edited.collateral = 0 /\ s3.edited.debt = 0
    BY <1>2, <1>3, <1>4
  <1> QED BY <1>5 DEF s3, s2, s1

LEMMA FormFields ==
    ASSUME NEW f \in MountedForm
    PROVE  /\ f.mounted = TRUE /\ f.state \in FormState /\ f.shown \in FormState /\ f.known \in Ledger
           /\ f.due \in BOOLEAN /\ f.leaving \in BOOLEAN
  BY DEF MountedForm

LEMMA EffectsType ==
    ASSUME stored \in Ledger, NEW f \in MountedForm
    PROVE  C!Ran(f) \in MountedForm /\ C!Effects(f) \in MountedForm /\ C!Committed(f) \in MountedForm
  <1> DEFINE after == C!TransactionEffect(C!AmountsEffect(C!SubscribeEffect(f.state)))
             leaves == f.leaving \/ tx = "confirmedOneShot"
             f1 == [f EXCEPT !.state = after]
             f2 == [f1 EXCEPT !.due = FALSE]
             f3 == [f2 EXCEPT !.leaving = leaves]
             c1 == [f EXCEPT !.shown = f.state]
             c2 == [c1 EXCEPT !.known = stored]
             c3 == [c2 EXCEPT !.due = TRUE]
  <1>1. after \in FormState
    BY FormFields, StateAfterEffects
  <1>2. leaves \in BOOLEAN
    OBVIOUS
  <1>3. C!Ran(f) = f3
    BY DEF C!Ran
  <1> HIDE DEF after, leaves
  <1>4. f1 \in MountedForm
    BY <1>1 DEF MountedForm
  <1> HIDE DEF f1
  <1>5. f2 \in MountedForm
    BY <1>4 DEF MountedForm
  <1> HIDE DEF f2
  <1>6. f3 \in MountedForm
    BY <1>2, <1>5 DEF MountedForm
  <1> HIDE DEF f3
  <1>7. C!Effects(f) \in MountedForm
    BY <1>3, <1>6 DEF C!Effects
  <1>8. C!Committed(f) = c3
    BY DEF C!Committed
  <1>9. c1 \in MountedForm
    BY FormFields DEF MountedForm
  <1> HIDE DEF c1
  <1>10. c2 \in MountedForm
    BY <1>9 DEF MountedForm
  <1> HIDE DEF c2
  <1>11. c3 \in MountedForm
    BY <1>10 DEF MountedForm
  <1> HIDE DEF c3
  <1> QED BY <1>3, <1>6, <1>7, <1>8, <1>11

\* The form is on the page, or there is none.
LEMMA FormOrNone ==
    ASSUME form \in MountedForm \cup {C!NoForm}
    PROVE  form.mounted \in BOOLEAN /\ (form.mounted <=> form \in MountedForm)
  <1>1. C!NoForm.mounted = FALSE
    BY DEF C!NoForm
  <1> QED BY <1>1, FormFields

LEMMA RepayType ==
    ASSUME NEW f \in MountedForm, C!ValidChange(f) # C!NoChange
    PROVE  C!RepayHCHF(C!ValidChange(f)) \in Int
  <1> DEFINE t == f.shown.original
             that == f.shown.edited
             s == C!Selected(f.known)
             change == C!ValidChange(f)
  <1>1. t \in AnyTrove /\ that \in AnyTrove
    BY FormFields, FormStateFields
  <1>2. change = validateTroveChange(t, that, 0, s, TRUE) /\ change # NoChange
    BY SameValidation, SameEmpty DEF C!ValidChange
  <1> HIDE DEF t, that, s, change
  <1>3. change = WhatChanged(t, that, 0) /\ change.type \in {"creation", "closure", "adjustment"}
    BY <1>2 DEF validateTroveChange, Validated
  <1>4. NetDebt(t) \in Int
    BY <1>1, DecimalAssumption DEF NetDebt, AnyTrove
  <1>5. Param(change.params, "repayHCHF") \in Int
    BY <1>1, <1>3, <1>4, Changes
  <1> QED BY <1>5, SameParam DEF C!RepayHCHF, change

LEMMA ClosingInitOK == C!Init => ClosingInv
  <1> SUFFICES ASSUME C!Init PROVE ClosingInv
    OBVIOUS
  <1>1. PICK t \in OpenTrove, p \in Price, balance \in HchfBalance :
           chain = [base |-> t, redistributed |-> FALSE, price |-> p,
                    hchfBalance |-> balance, allowance |-> 0]
    BY DEF C!Init
  <1>2. t \in AnyTrove /\ balance \in Int
    BY OpenTroveType, FormsConstants
  <1>3. chain \in Ledger
    BY <1>1, <1>2 DEF Ledger
  <1> QED BY <1>3 DEF C!Init, ClosingInv

LEMMA ClosingStepOK == ClosingInv /\ [C!Next]_(C!vars) => ClosingInv'
  <1> SUFFICES ASSUME ClosingInv, [C!Next]_(C!vars) PROVE ClosingInv'
    OBVIOUS
  <1>1. /\ chain \in Ledger /\ stored \in Ledger /\ approving \in Int
        /\ form \in MountedForm \cup {C!NoForm}
    BY DEF ClosingInv
  <1>2. form.mounted \in BOOLEAN /\ (form.mounted <=> form \in MountedForm)
    BY <1>1, FormOrNone
  <1>3. \A t \in OpenTrove : t \in AnyTrove
    BY OpenTroveType
  <1>4. CASE C!ChainMoves
    <2>1. chain' \in Ledger
      <3>1. ASSUME NEW t \in OpenTrove, chain' = [chain EXCEPT !.base = t, !.redistributed = FALSE]
            PROVE  chain' \in Ledger
        BY <1>1, <1>3, <3>1 DEF Ledger
      <3>2. CASE chain' = [chain EXCEPT !.redistributed = TRUE]
        BY <1>1, <3>2 DEF Ledger
      <3>3. CASE chain' = [chain EXCEPT !.base = EmptyTrove, !.redistributed = FALSE]
        BY <1>1, <3>3, EmptyFields DEF Ledger
      <3>4. ASSUME NEW p \in Price, chain' = [chain EXCEPT !.price = p] PROVE chain' \in Ledger
        BY <1>1, <3>4 DEF Ledger
      <3> QED BY <1>4, <3>1, <3>2, <3>3, <3>4, SameEmpty DEF C!ChainMoves
    <2> QED BY <1>1, <1>4, <2>1 DEF C!ChainMoves, ClosingInv
  <1>5. CASE C!Report
    <2> DEFINE told == C!updateStore(form.state, C!UserTrove(chain), chain.base # stored.base)
    <2>1. ASSUME form \in MountedForm PROVE [form EXCEPT !.state = told] \in MountedForm
      <3>1. form.state \in FormState /\ C!UserTrove(chain) \in AnyTrove
        BY <1>1, <2>1, FormFields, UserTroveType
      <3>2. (chain.base # stored.base) \in BOOLEAN
        OBVIOUS
      <3>3. told \in FormState
        BY <3>1, <3>2, Updated
      <3> HIDE DEF told
      <3> QED BY <2>1, <3>3 DEF MountedForm
    <2>2. form' = IF form.mounted THEN [form EXCEPT !.state = told] ELSE form
      BY <1>5 DEF C!Report
    <2> HIDE DEF told
    <2>3. form' \in MountedForm \cup {C!NoForm}
      BY <1>1, <1>2, <2>1, <2>2
    <2> QED BY <1>1, <1>5, <2>3 DEF C!Report, C!NoForm, ClosingInv
  <1>6. CASE C!Render
    <2>1. form' \in MountedForm \cup {C!NoForm}
      BY <1>1, <1>2, <1>6, EffectsType DEF C!Render
    <2> QED BY <1>1, <1>6, <2>1 DEF C!Render, C!NoForm, ClosingInv
  <1>7. CASE C!RunEffects
    <2>1. form' \in MountedForm \cup {C!NoForm}
      <3>1. CASE form \in MountedForm
        BY <1>1, <1>7, <3>1, EffectsType DEF C!RunEffects
      <3>2. CASE form \notin MountedForm
        BY <1>1, <1>2, <1>7, <3>2 DEF C!RunEffects, C!Effects
      <3> QED BY <3>1, <3>2
    <2> QED BY <1>1, <1>7, <2>1 DEF C!RunEffects, C!NoForm, ClosingInv
  <1>8. CASE C!Mount
    <2> DEFINE s == C!getInitializer(C!UserTrove(stored))
               f == [mounted |-> TRUE, state |-> s, shown |-> s, known |-> stored,
                     due |-> TRUE, leaving |-> FALSE]
    <2>1. s \in FormState
      <3>1. C!UserTrove(stored) \in AnyTrove
        BY <1>1, UserTroveType
      <3> QED BY <3>1 DEF C!getInitializer, FormState
    <2>2. form' = C!Ran(f)
      BY <1>8 DEF C!Mount
    <2> HIDE DEF s
    <2>3. f \in MountedForm
      BY <1>1, <2>1 DEF MountedForm
    <2> HIDE DEF f
    <2>4. form' \in MountedForm
      BY <1>1, <2>2, <2>3, EffectsType
    <2> QED BY <1>1, <1>8, <2>4 DEF C!Mount, C!NoForm, ClosingInv
  <1>9. CASE C!Cancel \/ C!Leave
    BY <1>1, <1>9 DEF C!Cancel, C!Leave, C!Unmounted, C!NoForm, ClosingInv
  <1>10. CASE C!Approve
    <2>1. form \in MountedForm /\ C!ValidChange(form) # C!NoChange
      BY <1>2, <1>10 DEF C!Approve
    <2>2. approving' \in Int
      BY <1>10, <2>1, RepayType DEF C!Approve
    <2>3. form' \in MountedForm
      <3>1. form' = C!Effects(C!Committed(C!Effects(form)))
        BY <1>10 DEF C!Approve
      <3>2. C!Effects(form) \in MountedForm
        BY <1>1, <2>1, EffectsType
      <3>3. C!Committed(C!Effects(form)) \in MountedForm
        BY <1>1, <3>2, EffectsType
      <3> QED BY <1>1, <3>1, <3>3, EffectsType
    <2> QED BY <1>1, <1>10, <2>2, <2>3 DEF C!Approve, C!NoForm, ClosingInv
  <1>11. ASSUME NEW succeeds \in BOOLEAN, C!Approved(succeeds) PROVE ClosingInv'
    <2>1. chain' \in Ledger
      <3>1. [chain EXCEPT !.allowance = approving] \in Ledger
        BY <1>1 DEF Ledger
      <3> QED BY <1>1, <1>11, <3>1 DEF C!Approved
    <2> QED BY <1>1, <1>11, <2>1 DEF C!Approved, C!NoForm, ClosingInv
  <1>12. CASE C!Send
    <2> DEFINE f == C!Effects(form)
               g == C!Committed(f)
               g1 == [g EXCEPT !.due = FALSE]
               s1 == C!SubscribeEffect(f.state)
               s2 == C!AmountsEffect(s1)
               s3 == C!startChange(s2)
               g2 == [g1 EXCEPT !.state = s3]
    <2>1. form \in MountedForm
      BY <1>2, <1>12 DEF C!Send, C!Sendable
    <2>2. f \in MountedForm
      BY <1>1, <2>1, EffectsType
    <2>3. form' = g2
      BY <1>12 DEF C!Send
    <2> HIDE DEF f
    <2>4. g \in MountedForm
      BY <1>1, <2>2, EffectsType
    <2> HIDE DEF g
    <2>5. g1 \in MountedForm
      BY <2>4 DEF MountedForm
    <2>6. s1 \in FormState
      BY <1>1, <2>2, FormFields, UserTroveType, Updated DEF C!SubscribeEffect
    <2> HIDE DEF s1
    <2>7. s2 \in FormState
      BY <2>6, AmountsZero
    <2> HIDE DEF s2
    <2>8. s3 \in FormState
      BY <2>7, ChangePending
    <2> HIDE DEF s3, g1
    <2>9. g2 \in MountedForm
      BY <2>5, <2>8 DEF MountedForm
    <2> HIDE DEF g2
    <2> QED BY <1>1, <1>12, <2>3, <2>9 DEF C!Send, C!NoForm, ClosingInv
  <1>13. CASE C!SendAdjustment
    BY <1>1, <1>13 DEF C!SendAdjustment, C!NoForm, ClosingInv
  <1>14. CASE C!Execute
    <2> DEFINE balance == chain.hchfBalance - NetDebt(C!UserTrove(chain))
    <2>1. chain' \in Ledger
      <3>1. ASSUME chain' = [chain EXCEPT !.base = EmptyTrove, !.redistributed = FALSE, !.allowance = 0,
                                         !.hchfBalance = balance]
            PROVE  chain' \in Ledger
        <4>1. NetDebt(C!UserTrove(chain)) \in Int
          <5>1. C!UserTrove(chain) \in AnyTrove
            BY <1>1, UserTroveType
          <5> QED BY <5>1, DecimalAssumption DEF NetDebt, AnyTrove
        <4>2. balance \in Int
          BY <1>1, <4>1, LedgerFields
        <4> HIDE DEF balance
        <4> DEFINE c1 == [chain EXCEPT !.base = EmptyTrove, !.redistributed = FALSE]
                   c2 == [c1 EXCEPT !.allowance = 0]
                   c3 == [c2 EXCEPT !.hchfBalance = balance]
        <4>3. chain' = c3
          BY <3>1
        <4>4. c1 \in Ledger
          BY <1>1, EmptyFields DEF Ledger
        <4> HIDE DEF c1
        <4>5. c2 \in Ledger
          BY <4>4 DEF Ledger
        <4> HIDE DEF c2
        <4>6. c3 \in Ledger
          BY <4>2, <4>5 DEF Ledger
        <4> QED BY <4>3, <4>6
      <3>2. ASSUME NEW t \in OpenTrove, chain' = [chain EXCEPT !.base = t, !.redistributed = FALSE]
            PROVE  chain' \in Ledger
        BY <1>1, <1>3, <3>2 DEF Ledger
      <3>3. CASE chain' = chain
        BY <1>1, <3>3
      <3> QED BY <1>14, <3>1, <3>2, <3>3, SameEmpty, SameTests DEF C!Execute
    <2> QED BY <1>1, <1>14, <2>1 DEF C!Execute, C!NoForm, ClosingInv
  <1>15. CASE C!Sent \/ C!Receipt \/ C!Expire
    BY <1>1, <1>15 DEF C!Sent, C!Receipt, C!Expire, C!NoForm, ClosingInv
  <1>16. CASE UNCHANGED C!vars
    BY <1>1, <1>16 DEF C!vars, C!NoForm, ClosingInv
  <1> QED BY <1>4, <1>5, <1>6, <1>7, <1>8, <1>9, <1>10, <1>11, <1>12, <1>13, <1>14, <1>15, <1>16
          DEF C!Next

\* The inductive invariant holds in every reachable state.
THEOREM ClosingInvariance == C!Spec => []ClosingInv
  BY ClosingInitOK, ClosingStepOK, PTL DEF C!Spec

\* What a form that has settled shows.
LEMMA SettledShows ==
    ASSUME ClosingInv, C!Settled
    PROVE  /\ form \in MountedForm /\ form.known = chain
           /\ form.shown.original = C!UserTrove(chain)
           /\ form.shown.edited = EmptyTrove
  <1> DEFINE after == C!TransactionEffect(C!AmountsEffect(C!SubscribeEffect(form.state)))
  <1>1. form \in MountedForm /\ stored \in Ledger
    BY FormOrNone DEF ClosingInv, C!Settled
  <1>2. C!Ran(form).state = after
    BY <1>1 DEF C!Ran, MountedForm
  <1>3. /\ after \in FormState /\ after.original = C!UserTrove(stored)
        /\ after.edited.collateral = 0 /\ after.edited.debt = 0
    BY <1>1, FormFields, StateAfterEffects
  <1> HIDE DEF after
  <1>4. [form EXCEPT !.due = FALSE].state = form.state
    BY <1>1 DEF MountedForm
  <1>5. chain = stored /\ form.known = stored /\ form.shown = form.state /\ form.state = after
    BY <1>2, <1>4 DEF C!Settled
  <1>6. after.edited = EmptyTrove
    BY <1>3, FormStateFields DEF AnyTrove, EmptyTrove, MakeTrove
  <1> QED BY <1>1, <1>3, <1>5, <1>6

LEMMA ClosureOfferedOK == ClosingInv => ClosureOffered
  BY SettledShows, SameEmpty DEF ClosureOffered, C!ClosureOffered

\* Whatever changed the Trove under the form, once it has rendered what the
\* store told it offers to close the Trove that the ledger has, for all its net
\* debt: for any Troves, prices, balances and redistributions.
THEOREM ClosureIsOffered == FormsSpec => []ClosureOffered
  BY FormsAreTheirOwn, ClosingInvariance, ClosureOfferedOK, PTL

LEMMA ClosureIsAcceptedOK == ClosingInv => C!ClosureIsAccepted
  <1> SUFFICES ASSUME ClosingInv, C!Settled, C!Sendable PROVE C!ClosureAccepted(chain)
    BY DEF C!ClosureIsAccepted
  <1> DEFINE t == C!UserTrove(chain)
             s == C!Selected(chain)
             change == C!ValidChange(form)
  <1>1. /\ form \in MountedForm /\ form.known = chain /\ form.shown.original = t
        /\ form.shown.edited = EmptyTrove
    BY SettledShows
  <1>2. chain \in Ledger /\ t \in AnyTrove /\ OtherTroves \in AnyTrove
    BY UserTroveType, FormsConstants DEF ClosingInv, AnyTrove
  <1>3. change = validateTroveChange(t, EmptyTrove, 0, s, TRUE)
    <2>1. change = C!validateTroveChange(form.shown.original, form.shown.edited, 0,
                                         C!Selected(form.known), TRUE)
      BY DEF C!ValidChange
    <2>2. C!Selected(form.known) = s
      BY <1>1
    <2> HIDE DEF s, t, change
    <2>3. change = C!validateTroveChange(t, EmptyTrove, 0, s, TRUE)
      BY <1>1, <2>1, <2>2
    <2> QED BY <2>3, SameValidation
  <1>4. /\ change # NoChange /\ C!RepayHCHF(change) # 0 /\ C!RepayHCHF(change) <= chain.allowance
    BY <1>1, SameEmpty DEF C!Sendable, C!HasAllowance
  <1> HIDE DEF t, change
  <1>5. /\ s.total = Add(t, OtherTroves) /\ s.price \in Nat /\ s.accountBalance = 0
        /\ s.numberOfTroves \in {1, 2}
    <2>1. Add(OtherTroves, t) = Add(t, OtherTroves)
      BY <1>2 DEF Add, MakeTrove, AnyTrove
    <2>2. s.total = C!Add(OtherTroves, t) /\ s.price = chain.price /\ s.accountBalance = 0
          /\ s.numberOfTroves \in {1, 2}
      BY DEF C!Selected, t
    <2> QED BY <1>2, <2>1, <2>2, SameTroves, LedgerFields, FormsAssumption
  <1> HIDE DEF s
  <1>6. change = WhatChanged(t, EmptyTrove, 0)
    BY <1>3, <1>4 DEF validateTroveChange, Validated
  <1>7. change.type \in {"creation", "closure", "adjustment"}
    BY <1>3, <1>4 DEF validateTroveChange, Validated
  <1>8. ~IsEmpty(t)
    <2> SUFFICES ASSUME IsEmpty(t) PROVE FALSE
      OBVIOUS
    <2>1. t.collateral = EmptyTrove.collateral /\ t.debt = EmptyTrove.debt /\ IsEmpty(EmptyTrove)
      BY EmptyFields DEF IsEmpty
    <2>2. change = NoChange
      BY <1>6, <2>1 DEF WhatChanged
    <2> QED BY <1>4, <2>2
  <1>9. Accepts(t, change, 0, s)
    BY <1>2, <1>3, <1>4, <1>5, <1>8, ClosureAccepted
  <1>10. NetDebt(t) <= chain.allowance
    <2>1. change.type = "closure"
      <3>1. IsEmpty(EmptyTrove) /\ ~(t.collateral = EmptyTrove.collateral /\ t.debt = EmptyTrove.debt)
        BY <1>8, EmptyFields DEF IsEmpty
      <3>2. \E params : change = Closure(params)
        BY <1>6, <1>8, <3>1 DEF WhatChanged
      <3> QED BY <3>2, ChangeFields
    <2>2. Param(change.params, "repayHCHF") \in {0, NetDebt(t)}
      BY <1>2, <1>6, <2>1, EmptyFields, Changes
    <2>3. C!RepayHCHF(change) = NetDebt(t)
      BY <1>4, <2>2, SameParam DEF C!RepayHCHF
    <2> QED BY <1>4, <2>3
  <1> QED BY <1>6, <1>8, <1>9, <1>10, SameChange, SameEmpty, SameTests, SameAccepts
          DEF C!ClosureAccepted, t, s

LEMMA AdjustingAcceptedOK ==
    ASSUME TypeOK, NEW selected \in Known(trove, price),
           ValidChange(selected, TRUE) # NoChange
    PROVE  Accepts(trove, ValidChange(selected, TRUE), rate, selected)
  <1> DEFINE change == ValidChange(selected, TRUE)
             that == UpdatedTrove
  <1>1. PICK others \in Others, account \in Balance, hchf \in Balance :
           selected = [price |-> price, total |-> Add(trove, others), accountBalance |-> account,
                       hchfBalance |-> hchf,
                       numberOfTroves |-> (IF IsEmpty(trove) THEN 0 ELSE 1)
                                            + (IF IsEmpty(others) THEN 0 ELSE 1)]
    BY DEF Known
  <1>2. /\ selected.total = Add(trove, others) /\ selected.hchfBalance = hchf
        /\ selected.price = price
    BY <1>1
  <1>3. others \in AnyTrove /\ hchf \in Nat /\ price \in Nat /\ rate \in Nat
    BY AdjustingAssumption, FormsAssumption, RateType DEF TypeOK, AnyTrove
  <1>4. trove \in AnyTrove /\ trove.debt # 0 /\ that \in AnyTrove /\ that.debt # 0
    BY OpenTroveType, UpdatedTroveValue DEF TypeOK
  <1>5. change = validateTroveChange(trove, that, rate, selected, TRUE)
    BY DEF ValidChange
  <1> HIDE DEF change, that
  <1>6. Accepts(trove, change, rate, selected)
    BY <1>2, <1>3, <1>4, <1>5, AdjustmentAccepted DEF change
  <1> QED BY <1>6 DEF change

LEMMA OpeningAcceptedOK ==
    ASSUME O!TypeOK, NEW selected \in Known(EmptyTrove, oPrice),
           O!ValidChange(selected, TRUE) # NoChange
    PROVE  Accepts(EmptyTrove, O!ValidChange(selected, TRUE), oRate, selected)
  <1> DEFINE change == O!ValidChange(selected, TRUE)
             that == O!NewTrove
  <1>1. PICK others \in Others, account \in Balance, hchf \in Balance :
           selected = [price |-> oPrice, total |-> Add(EmptyTrove, others), accountBalance |-> account,
                       hchfBalance |-> hchf,
                       numberOfTroves |-> (IF IsEmpty(EmptyTrove) THEN 0 ELSE 1)
                                            + (IF IsEmpty(others) THEN 0 ELSE 1)]
    BY DEF Known
  <1>2. /\ selected.total = Add(EmptyTrove, others) /\ selected.hchfBalance = hchf
        /\ selected.price = oPrice
    BY <1>1
  <1>3. /\ others \in AnyTrove /\ hchf \in Nat /\ oPrice \in Nat /\ oRate \in Nat
        /\ oCollateral \in Nat /\ oBorrowAmount \in Nat
    BY AdjustingAssumption, FormsAssumption, DecimalAssumption DEF O!TypeOK, AnyTrove
  <1>4. change = validateTroveChange(EmptyTrove, that, oRate, selected, TRUE)
    BY SameValidation, SameEmpty DEF O!ValidChange
  <1>5. O!IsDirty
    <2> SUFFICES ASSUME ~O!IsDirty PROVE FALSE
      OBVIOUS
    <2>1. that = EmptyTrove
      BY SameEmpty DEF O!NewTrove
    <2>2. WhatChanged(EmptyTrove, EmptyTrove, oRate) = NoChange
      BY DEF WhatChanged
    <2>3. NoChange.type = "none"
      BY DEF NoChange
    <2>4. change = NoChange
      <3> HIDE DEF change, that
      <3> QED BY <1>4, <2>1, <2>2, <2>3 DEF validateTroveChange, Validated
    <2> QED BY <2>4
  <1>6. that = MakeTrove(oCollateral, oBorrowAmount + RESERVE + Mul(oBorrowAmount, oRate))
    BY <1>5, SameDecimals, SameTroves DEF O!NewTrove, O!TotalDebt, O!Fee
  <1> HIDE DEF change, that
  <1>7. Accepts(EmptyTrove, change, oRate, selected)
    BY <1>2, <1>3, <1>4, <1>6, CreationAccepted DEF change
  <1> QED BY <1>7 DEF change

LEMMA ValidOK == IInv /\ O!TypeOK /\ ClosingInv => ValidIsAccepted
  <1> SUFFICES ASSUME IInv, O!TypeOK, ClosingInv PROVE ValidIsAccepted
    OBVIOUS
  <1>1. ASSUME NEW selected \in Known(trove, price), ValidChange(selected, TRUE) # NoChange
        PROVE  Accepts(trove, ValidChange(selected, TRUE), rate, selected)
    BY <1>1, AdjustingAcceptedOK DEF IInv
  <1>2. ASSUME Settled, stable # NoChange
        PROVE  \E selected \in Known(trove, price) : SameOffer(stable, ValidChange(selected, TRUE))
    BY <1>2, OfferedIsComputed
  <1>3. ASSUME NEW selected \in Known(EmptyTrove, oPrice), O!ValidChange(selected, TRUE) # NoChange
        PROVE  Accepts(EmptyTrove, O!ValidChange(selected, TRUE), oRate, selected)
    BY <1>3, OpeningAcceptedOK
  <1>4. C!ClosureIsAccepted
    BY ClosureIsAcceptedOK
  <1> QED BY <1>1, <1>2, <1>3, <1>4 DEF ValidIsAccepted

\* What a form computes as valid, whatever the store knows of the system, in both
\* of its modes, the contract does not revert in that state: for every
\* precision, price, borrowing rate and state of the system.  The button of the
\* form that adjusts offers such a change of its last render once the form has
\* settled; before, it may be one of an earlier render.
THEOREM ContractAccepts == FormsSpec => []ValidIsAccepted
  BY FormsAreTheirOwn, Invariance, OpeningInvariance, ClosingInvariance, ValidOK, PTL

==============================================================================
