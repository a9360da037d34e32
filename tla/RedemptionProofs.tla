--------------------------- MODULE RedemptionProofs ---------------------------
(***************************************************************************)
(* What the page to redeem and the page of the redemptions promise, proved *)
(* for any Troves, amounts, pages and windows.                             *)
(***************************************************************************)
EXTENDS MCRedemption, FiniteSetTheorems, WellFoundedInduction, TLAPS

-------------------------------------------------------------------------------
(* Induction and recursion, with sets for the predicates.                    *)

LEMMA LeastOf ==
    ASSUME NEW T \in SUBSET Nat, T # {}
    PROVE  \E n \in T : \A m \in T : n <= m
<1> DEFINE R == {ss \in Nat \X Nat : ss[1] < ss[2]}
<1>1. IsWellFoundedOn(R, Nat)
  BY NatLessThanWellFounded DEF OpToRel
<1>2. PICK n \in T : \A m \in T : <<m, n>> \notin R
  BY <1>1, WFMin
<1>3. ASSUME NEW m \in T PROVE n <= m
  <2> SUFFICES ASSUME m < n PROVE FALSE
    OBVIOUS
  <2> DEFINE p == <<m, n>>
  <2>1. p \in Nat \X Nat /\ p[1] = m /\ p[2] = n
    OBVIOUS
  <2>2. p \notin R
    BY <1>2
  <2> HIDE DEF p
  <2> QED
    BY <2>1, <2>2
<1> QED
  BY <1>3

LEMMA StrongInduction ==
    ASSUME NEW T, \A n \in Nat : (\A m \in 0 .. n - 1 : m \in T) => n \in T
    PROVE  Nat \subseteq T
<1> SUFFICES ASSUME Nat \ T # {} PROVE FALSE
  OBVIOUS
<1>1. PICK n \in Nat \ T : \A m \in Nat \ T : n <= m
  BY LeastOf
<1> QED
  BY <1>1

\* The values of a function below n.
Below(f, n, d) == [m \in Nat |-> IF m < n THEN f[m] ELSE d]

\* A function of the naturals may be defined from its values at smaller ones.
LEMMA CourseOfValues ==
    ASSUME NEW S, NEW d \in S, NEW step \in [Nat -> [[Nat -> S] -> S]]
    PROVE  \E f \in [Nat -> S] :
             \A n \in Nat : f[n] = step[n][Below(f, n, d)]
<1> DEFINE Cut(f, n) == Below(f, n, d)
           Good(f, n) == \A k \in 0 .. n : f[k] = step[k][Cut(f, k)]
<1>c. ASSUME NEW f \in [Nat -> S], NEW n \in Nat 
      PROVE  Cut(f, n) \in [Nat -> S] /\ step[n][Cut(f, n)] \in S
  BY DEF Below
<1>e. ASSUME NEW f \in [Nat -> S], NEW g \in [Nat -> S], NEW n \in Nat, \A m \in 0 .. n - 1 : f[m] = g[m]
      PROVE  Cut(f, n) = Cut(g, n)
  BY <1>e DEF Below
<1> HIDE DEF Cut
<1>1. ASSUME NEW f \in [Nat -> S], NEW g \in [Nat -> S], NEW n \in Nat, NEW l \in Nat,
             Good(f, n), Good(g, l)
      PROVE  \A k \in Nat : k <= n /\ k <= l => f[k] = g[k]
  <2> DEFINE T == {k \in Nat : k <= n /\ k <= l => f[k] = g[k]}
  <2>1. ASSUME NEW k \in Nat, \A m \in 0 .. k - 1 : m \in T PROVE k \in T
    <3> SUFFICES ASSUME k <= n, k <= l PROVE f[k] = g[k]
      OBVIOUS
    <3>1. Cut(f, k) = Cut(g, k)
      BY <2>1, <1>e
    <3>2. f[k] = step[k][Cut(f, k)] /\ g[k] = step[k][Cut(g, k)]
      BY <1>1
    <3> QED
      BY <3>1, <3>2
  <2>2. Nat \subseteq T
    <3> HIDE DEF T
    <3> QED BY <2>1, StrongInduction
  <2> QED
    BY <2>2
<1>2. \A n \in Nat : \E f \in [Nat -> S] : Good(f, n)
  <2> DEFINE T == {n \in Nat : \E f \in [Nat -> S] : Good(f, n)}
  <2>1. ASSUME NEW n \in Nat, \A m \in 0 .. n - 1 : m \in T PROVE n \in T
    <3>1. PICK g \in [Nat -> S] : \A k \in 0 .. n - 1 : g[k] = step[k][Cut(g, k)]
      <4>1. CASE n = 0
        <5>1. [m \in Nat |-> d] \in [Nat -> S]
          OBVIOUS
        <5>2. 0 .. n - 1 = {}
          BY <4>1
        <5> QED
          BY <5>1, <5>2
      <4>2. CASE n # 0
        <5>1. n - 1 \in 0 .. n - 1
          BY <4>2
        <5>2. n - 1 \in T
          BY <5>1, <2>1
        <5> QED
          BY <5>2
      <4> QED
        BY <4>1, <4>2
    <3> DEFINE f == [g EXCEPT ![n] = step[n][Cut(g, n)]]
    <3>2. f \in [Nat -> S]
      BY <1>c
    <3>3. \A m \in 0 .. n - 1 : f[m] = g[m]
      OBVIOUS
    <3>4. f[n] = step[n][Cut(g, n)]
      OBVIOUS
    <3> HIDE DEF f
    <3>5. ASSUME NEW k \in 0 .. n PROVE f[k] = step[k][Cut(f, k)]
      <4>0. k \in Nat /\ \A m \in 0 .. k - 1 : f[m] = g[m]
        BY <3>3
      <4>1. Cut(f, k) = Cut(g, k)
        BY <4>0, <3>2, <1>e
      <4>2. CASE k = n
        BY <4>1, <4>2, <3>4
      <4>3. CASE k \in 0 .. n - 1
        BY <4>1, <4>3, <3>1, <3>3
      <4> QED
        BY <4>2, <4>3
    <3> QED
      BY <3>2, <3>5
  <2>2. Nat \subseteq T
    <3> HIDE DEF T
    <3> QED BY <2>1, StrongInduction
  <2> QED
    BY <2>2
<1> DEFINE F(n) == CHOOSE f \in [Nat -> S] : Good(f, n)
           h == [n \in Nat |-> F(n)[n]]
<1>3. ASSUME NEW n \in Nat PROVE F(n) \in [Nat -> S] /\ Good(F(n), n)
  BY <1>2
<1> HIDE DEF F
<1>4. h \in [Nat -> S]
  BY <1>3
<1>5. ASSUME NEW n \in Nat PROVE h[n] = step[n][Cut(h, n)]
  <2>1. ASSUME NEW m \in 0 .. n - 1 PROVE h[m] = F(n)[m]
    <3>0. m \in Nat /\ m <= n
      OBVIOUS
    <3>1. F(m)[m] = F(n)[m]
      <4> HIDE DEF Good
      <4> QED BY <1>1, <1>3, <3>0
    <3> QED
      BY <3>1
  <2>2. Cut(h, n) = Cut(F(n), n)
    BY <2>1, <1>e, <1>3, <1>4
  <2>3. h[n] = F(n)[n]
    OBVIOUS
  <2> QED
    BY <2>2, <2>3, <1>3
<1> HIDE DEF h
<1> QED
  BY <1>4, <1>5 DEF Cut

Climbs(f, N, first, step) == f[0] = first /\ \A i \in 1 .. N : f[i] = step[i][f[i - 1]]
Descends(f, N, last, step) == f[N + 1] = last /\ \A i \in 1 .. N : f[i] = step[i][f[i + 1]]

\* A function on 0 .. N may be defined from its value at 0 up ...
LEMMA Upwards ==
    ASSUME NEW N \in Nat, NEW S, NEW first \in S, NEW step \in [1 .. N -> [S -> S]]
    PROVE  \E f \in [0 .. N -> S] : Climbs(f, N, first, step)
<1> DEFINE next == [n \in Nat |-> [f \in [Nat -> S] |->
                     IF n \in 1 .. N THEN step[n][f[n - 1]] ELSE first]]
<1>1. next \in [Nat -> [[Nat -> S] -> S]]
  <2>1. ASSUME NEW n \in Nat, NEW f \in [Nat -> S]
        PROVE  (IF n \in 1 .. N THEN step[n][f[n - 1]] ELSE first) \in S
    OBVIOUS
  <2> QED
    BY <2>1
<1>2. PICK f \in [Nat -> S] : \A n \in Nat : f[n] = next[n][Below(f, n, first)]
  <2> HIDE DEF next
  <2>1. \A s \in [Nat -> [[Nat -> S] -> S]] :
          \E f \in [Nat -> S] : \A n \in Nat : f[n] = s[n][Below(f, n, first)]
    BY CourseOfValues
  <2> QED
    BY <1>1, <2>1
<1>3. ASSUME NEW n \in Nat
      PROVE  f[n] = IF n \in 1 .. N THEN step[n][f[n - 1]] ELSE first
  <2> DEFINE b == Below(f, n, first)
  <2>1. b \in [Nat -> S] /\ (n \in 1 .. N => b[n - 1] = f[n - 1])
    BY DEF Below
  <2> HIDE DEF b
  <2> QED
    BY <1>2, <2>1 DEF b
<1> DEFINE g == [i \in 0 .. N |-> f[i]]
<1>4. g \in [0 .. N -> S] /\ g[0] = first
  BY <1>3
<1>5. \A i \in 1 .. N : g[i] = step[i][g[i - 1]]
  BY <1>3
<1> HIDE DEF g
<1> QED
  BY <1>4, <1>5 DEF Climbs

\* ... and one on 1 .. N + 1 from its last value down.
LEMMA Downwards ==
    ASSUME NEW N \in Nat, NEW S, NEW last \in S, NEW step \in [1 .. N -> [S -> S]]
    PROVE  \E f \in [1 .. N + 1 -> S] : Descends(f, N, last, step)
<1> DEFINE up == [i \in 1 .. N |-> step[N + 1 - i]]
<1>1. up \in [1 .. N -> [S -> S]]
  OBVIOUS
<1>2. PICK g \in [0 .. N -> S] : g[0] = last /\ \A i \in 1 .. N : g[i] = up[i][g[i - 1]]
  <2> HIDE DEF up
  <2> QED
    BY <1>1, Upwards DEF Climbs
<1> DEFINE f == [i \in 1 .. N + 1 |-> g[N + 1 - i]]
<1>3. f \in [1 .. N + 1 -> S]
  OBVIOUS
<1>4. f[N + 1] = last
  BY <1>2
<1>5. ASSUME NEW i \in 1 .. N PROVE f[i] = step[i][f[i + 1]]
  <2>1. N + 1 - i \in 1 .. N /\ i + 1 \in 1 .. N + 1 /\ i \in 1 .. N + 1
    OBVIOUS
  <2>2. g[N + 1 - i] = up[N + 1 - i][g[N + 1 - i - 1]]
    BY <1>2, <2>1
  <2>3. up[N + 1 - i] = step[i] /\ N + 1 - i - 1 = N + 1 - (i + 1)
    BY <2>1
  <2> QED
    BY <2>1, <2>2, <2>3
<1> HIDE DEF f
<1> QED
  BY <1>3, <1>4, <1>5 DEF Descends

\* Induction downwards.
LEMMA DownInduction ==
    ASSUME NEW N \in Nat, NEW T, N + 1 \in T, \A i \in 1 .. N : i + 1 \in T => i \in T
    PROVE  1 .. N + 1 \subseteq T
<1> DEFINE U == {n \in Nat : n <= N => N + 1 - n \in T}
<1>1. ASSUME NEW n \in Nat, \A m \in 0 .. n - 1 : m \in U PROVE n \in U
  <2> SUFFICES ASSUME n <= N PROVE N + 1 - n \in T
    OBVIOUS
  <2>1. CASE n = 0
    BY <2>1
  <2>2. CASE n # 0
    <3>1. n - 1 \in 0 .. n - 1
      BY <2>2
    <3>2. N + 1 - (n - 1) \in T
      BY <1>1, <3>1
    <3>3. N + 1 - (n - 1) = (N + 1 - n) + 1 /\ N + 1 - n \in 1 .. N
      BY <2>2
    <3> QED
      BY <3>2, <3>3
  <2> QED
    BY <2>1, <2>2
<1>2. Nat \subseteq U
  <2> HIDE DEF U
  <2> QED
    BY <1>1, StrongInduction
<1>3. ASSUME NEW i \in 1 .. N + 1 PROVE i \in T
  <2>1. N + 1 - i \in U /\ N + 1 - (N + 1 - i) = i /\ N + 1 - i <= N
    BY <1>2
  <2> QED
    BY <2>1
<1> QED
  BY <1>3

-------------------------------------------------------------------------------
(* The form to redeem.                                                       *)

Formed(r) == "mounted" \in DOMAIN r

\* A reading that is still mounted is for the amount that the effect was last
\* run for, and so is what the form says.
DetailsInv ==
    /\ DOMAIN reading = Reading
    /\ \A q \in Reading :
         /\ Formed(reading[q]) /\ reading[q].mounted \in BOOLEAN
         /\ reading[q].mounted => reading[q].of = effectOf
    /\ details # NONE => details.of = effectOf

\* What the details are of, whatever the reads.
LEMMA DetailsOf ==
    ASSUME NEW troves, NEW total, NEW wanted, NEW rate,
           getRedemptionDetails(troves, total, wanted, rate) # NONE
    PROVE  getRedemptionDetails(troves, total, wanted, rate).of = wanted
BY DEF getRedemptionDetails

LEMMA FormedIs ==
    ASSUME NEW o, NEW f, NEW m \in BOOLEAN, NEW r, r = [of |-> o, from |-> f, mounted |-> m]
    PROVE  Formed(r) /\ r.of = o /\ r.mounted = m
<1>1. r.of = o /\ "mounted" \in DOMAIN r
  OBVIOUS
<1>2. r.mounted = m
  OBVIOUS
<1> QED
  BY <1>1, <1>2 DEF Formed

LEMMA DetailsInitially == Init => DetailsInv
<1> SUFFICES ASSUME Init PROVE DetailsInv
  OBVIOUS
<1>1. DOMAIN reading = Reading /\ \A q \in Reading : reading[q] = NoReading
  BY DEF Init
<1>2. Formed(NoReading) /\ NoReading.mounted = FALSE
  BY FormedIs DEF NoReading
<1>3. details = NONE
  BY DEF Init
<1> QED
  BY <1>1, <1>2, <1>3 DEF DetailsInv

\* A new amount drops the readings and the details of the last one.
LEMMA RunEffectDetails ==
    ASSUME DetailsInv, NEW q \in Reading, RunEffect(q)
    PROVE  DetailsInv'
<1>1. ASSUME NEW p \in Reading
      PROVE  Formed(Unmounted[p]) /\ Unmounted[p].mounted = FALSE
  <2> DEFINE r == reading[p]
  <2>1. "mounted" \in DOMAIN r
    BY DEF DetailsInv, Formed
  <2>2. Unmounted[p] = [r EXCEPT !.mounted = FALSE]
    BY DEF Unmounted
  <2> HIDE DEF r
  <2>3. DOMAIN [r EXCEPT !.mounted = FALSE] = DOMAIN r
    OBVIOUS
  <2>4. [r EXCEPT !.mounted = FALSE].mounted = FALSE
    BY <2>1
  <2> QED
    BY <2>1, <2>2, <2>3, <2>4 DEF Formed
<1>2. details' = NONE /\ effectOf' = amount
  BY DEF RunEffect
<1> DEFINE new == [of |-> amount, from |-> Len(chain), mounted |-> TRUE]
<1>3. reading' = Unmounted \/ reading' = [Unmounted EXCEPT ![q] = new]
  BY DEF RunEffect
<1>4. DOMAIN Unmounted = Reading
  BY DEF Unmounted
<1>5. Formed(new) /\ new.mounted = TRUE /\ new.of = amount
  <2>1. Formed(new) /\ new.of = amount
    BY DEF Formed
  <2>2. new.mounted = TRUE
    OBVIOUS
  <2> QED
    BY <2>1, <2>2
<1> HIDE DEF new
<1>6. DOMAIN reading' = Reading
  BY <1>3, <1>4
<1>7. ASSUME NEW p \in Reading PROVE reading'[p] = Unmounted[p] \/ reading'[p] = new
  BY <1>3, <1>4
<1>8. ASSUME NEW p \in Reading
      PROVE  /\ Formed(reading'[p]) /\ reading'[p].mounted \in BOOLEAN
             /\ reading'[p].mounted => reading'[p].of = effectOf'
  BY <1>1, <1>2, <1>5, <1>7
<1> QED
  BY <1>2, <1>6, <1>8 DEF DetailsInv

\* A reading that ends.
LEMMA ReadingEnds ==
    ASSUME DetailsInv, NEW q \in Reading, reading' = [reading EXCEPT ![q] = NoReading],
           UNCHANGED effectOf, details' # NONE => details'.of = effectOf
    PROVE  DetailsInv'
<1>1. ASSUME NEW p \in Reading
      PROVE  reading'[p] = reading[p] \/ reading'[p] = NoReading
  BY DEF DetailsInv
<1>2. Formed(NoReading) /\ NoReading.mounted = FALSE
  BY FormedIs DEF NoReading
<1>3. ASSUME NEW p \in Reading
      PROVE  /\ Formed(reading'[p]) /\ reading'[p].mounted \in BOOLEAN
             /\ reading'[p].mounted => reading'[p].of = effectOf'
  <2>1. CASE reading'[p] = NoReading
    BY <1>2, <2>1
  <2>2. CASE reading'[p] = reading[p]
    BY <2>2 DEF DetailsInv
  <2> QED
    BY <1>1, <2>1, <2>2
<1>4. DOMAIN reading' = Reading
  BY DEF DetailsInv
<1> QED
  BY <1>3, <1>4 DEF DetailsInv

LEMMA AnsweredDetails ==
    ASSUME DetailsInv, NEW q \in Reading, DetailsAnswered(q)
    PROVE  DetailsInv'
<1>2. reading[q].mounted \in BOOLEAN
  BY DEF DetailsInv
<1>3. CASE reading[q].mounted
  <2>1. PICK troves, total, rate : details' = getRedemptionDetails(troves, total, reading[q].of, rate)
    BY <1>3 DEF DetailsAnswered
  <2>2. details' # NONE => details'.of = effectOf
    BY <2>1, <1>3, DetailsOf DEF DetailsInv
  <2> QED
    BY <2>2, ReadingEnds DEF DetailsAnswered
<1>4. CASE ~reading[q].mounted
  <2>1. UNCHANGED details
    BY <1>4 DEF DetailsAnswered
  <2>2. details' # NONE => details'.of = effectOf
    BY <2>1 DEF DetailsInv
  <2> QED
    BY <2>2, ReadingEnds DEF DetailsAnswered
<1> QED
  BY <1>2, <1>3, <1>4

LEMMA DetailsNext == DetailsInv /\ [PagesNext]_allVars => DetailsInv'
<1> SUFFICES ASSUME DetailsInv, [PagesNext]_allVars PROVE DetailsInv'
  OBVIOUS
<1> USE DEF formVars
<1>0. ASSUME UNCHANGED <<reading, details, effectOf>> PROVE DetailsInv'
  BY <1>0 DEF DetailsInv
<1>1. CASE UNCHANGED vars \/ UNCHANGED allVars
  BY <1>0, <1>1 DEF vars, allVars
<1>2. ASSUME NEW a \in Amount, OthersRedeem(a) \/ Type(a) PROVE DetailsInv'
  BY <1>0, <1>2 DEF OthersRedeem, Type
<1>3. ASSUME NEW t \in NewTrove, OthersOpen(t) PROVE DetailsInv'
  BY <1>0, <1>3 DEF OthersOpen
<1>4. ASSUME NEW n \in 1 .. 2, PriceMoves(n) \/ LiquidateUpTo(n) PROVE DetailsInv'
  BY <1>0, <1>4 DEF PriceMoves, LiquidateUpTo
<1>5. ASSUME TimePasses \/ Populate \/ Rejected \/ Execute \/ Receipt PROVE DetailsInv'
  BY <1>0, <1>5 DEF TimePasses, Populate, Rejected, Execute, Receipt
<1>6. ASSUME NEW q \in Reading, RunEffect(q) PROVE DetailsInv'
  BY <1>6, RunEffectDetails
<1>7. ASSUME NEW q \in Reading, DetailsAnswered(q) PROVE DetailsInv'
  BY <1>7, AnsweredDetails
<1>8. ASSUME NEW q \in Reading, DetailsFail(q) PROVE DetailsInv'
  BY <1>8, ReadingEnds DEF DetailsFail, DetailsInv
<1>9. ASSUME NEW a \in Amount \ {0}, NEW rate \in MaxRate \cup {NONE}, Redeem(a, rate)
      PROVE  DetailsInv'
  BY <1>0, <1>9 DEF Redeem
<1>10. ASSUME NEW rate \in MaxRate \cup {NONE}, Increase(rate) PROVE DetailsInv'
  BY <1>0, <1>10 DEF Increase
<1> QED
  BY <1>1, <1>2, <1>3, <1>4, <1>5, <1>6, <1>7, <1>8, <1>9, <1>10 DEF PagesNext, Next

\* What the form says about a redemption is about the amount it shows, however
\* many readings are under way and in whatever order they end.
THEOREM DetailsAreOfShownAmount == PagesSpec => []DetailsOfShownAmount
<1>1. PagesInit => DetailsInv
  BY DetailsInitially DEF PagesInit
<1>2. DetailsInv => DetailsOfShownAmount
  BY DEF DetailsInv, DetailsOfShownAmount
<1> QED
  BY <1>1, <1>2, DetailsNext, PTL DEF PagesSpec

-------------------------------------------------------------------------------
(* Fees and debts are natural numbers.                                       *)

LEMMA QuotientNat == ASSUME NEW a \in Nat, NEW b \in Nat \ {0} PROVE a \div b \in Nat
  OBVIOUS

LEMMA ProductNat == ASSUME NEW a \in Nat, NEW b \in Nat PROVE a * b \in Nat
  OBVIOUS

LEMMA DecimalNat ==
    ASSUME NEW a \in Nat, NEW b \in Nat
    PROVE  Mul(a, b) \in Nat /\ Div(a, b) \in Nat /\ roundedMul(a, b) \in Nat
<1>1. DIGITS \in Nat \ {0} /\ INFINITY \in Nat
  BY DecimalAssumption
<1>2. a * b \in Nat /\ a * DIGITS \in Nat
  BY <1>1, ProductNat
<1>3. DIGITS \div 2 \in Nat
  BY <1>1, QuotientNat
<1>4. a * b + DIGITS \div 2 \in Nat
  BY <1>2, <1>3
<1> QED
  BY <1>1, <1>2, <1>4, QuotientNat DEF Mul, Div, roundedMul

\* A half is less than the whole: the recursion of pow() ends.
LEMMA HalfOf == ASSUME NEW n \in Nat, n > 1 PROVE n \div 2 \in 0 .. n - 1
  OBVIOUS

Powers == [Nat -> [Nat -> Nat]]
\* What square[n] is, with f for its values at smaller exponents.
SquareOf(f, n) ==
    [x \in Nat |-> [y \in Nat |->
       IF n <= 1 THEN roundedMul(x, y)
       ELSE f[n \div 2][roundedMul(x, x)][IF n % 2 = 1 THEN roundedMul(x, y) ELSE y]]]

LEMMA SquareOfNat ==
    ASSUME NEW n \in Nat, NEW f, n > 1 => f[n \div 2] \in Powers
    PROVE  SquareOf(f, n) \in Powers
<1>1. ASSUME NEW x \in Nat, NEW y \in Nat
      PROVE  /\ roundedMul(x, y) \in Nat
             /\ n > 1 => f[n \div 2][roundedMul(x, x)][IF n % 2 = 1 THEN roundedMul(x, y) ELSE y] \in Nat
  <2>1. roundedMul(x, x) \in Nat /\ roundedMul(x, y) \in Nat
    BY DecimalNat
  <2> QED
    BY <2>1 DEF Powers
<1>2. ASSUME NEW x \in Nat, NEW y \in Nat
      PROVE  (IF n <= 1 THEN roundedMul(x, y)
              ELSE f[n \div 2][roundedMul(x, x)][IF n % 2 = 1 THEN roundedMul(x, y) ELSE y]) \in Nat
  <2>1. CASE n <= 1
    BY <1>1, <2>1
  <2>2. CASE n > 1
    BY <1>1, <2>2
  <2> QED
    BY <2>1, <2>2
<1> QED
  BY <1>2 DEF SquareOf, Powers

LEMMA SquareIs == square = [n \in Nat |-> SquareOf(square, n)]
<1> DEFINE zero == [x \in Nat |-> [y \in Nat |-> 0]]
           step == [n \in Nat |-> [f \in [Nat -> Powers] |-> SquareOf(f, n)]]
<1>1. zero \in Powers
  BY DEF Powers
<1>2. step \in [Nat -> [[Nat -> Powers] -> Powers]]
  <2>1. ASSUME NEW n \in Nat, NEW f \in [Nat -> Powers] PROVE SquareOf(f, n) \in Powers
    BY SquareOfNat, HalfOf
  <2> QED
    BY <2>1
<1>3. PICK f \in [Nat -> Powers] : \A n \in Nat : f[n] = step[n][Below(f, n, zero)]
  <2> HIDE DEF zero, step
  <2> QED
    BY <1>1, <1>2, CourseOfValues
<1>4. ASSUME NEW n \in Nat PROVE f[n] = SquareOf(f, n)
  <2> DEFINE b == Below(f, n, zero)
  <2>1. b \in [Nat -> Powers] /\ (n > 1 => b[n \div 2] = f[n \div 2])
    BY <1>1, HalfOf DEF Below
  <2> HIDE DEF b, zero
  <2>2. f[n] = SquareOf(b, n)
    BY <1>3, <2>1 DEF b
  <2>3. SquareOf(b, n) = SquareOf(f, n)
    BY <2>1 DEF SquareOf
  <2> QED
    BY <2>2, <2>3
<1>5. f = [n \in Nat |-> SquareOf(f, n)]
  BY <1>4
<1>6. square = CHOOSE g : g = [n \in Nat |-> SquareOf(g, n)]
  BY DEF square, SquareOf
<1> QED
  BY <1>5, <1>6

LEMMA SquareNat == \A n \in Nat : square[n] \in Powers
<1> DEFINE T == {n \in Nat : square[n] \in Powers}
<1>1. ASSUME NEW n \in Nat, \A m \in 0 .. n - 1 : m \in T PROVE n \in T
  <2>1. square[n] = SquareOf(square, n)
    BY SquareIs
  <2>2. n > 1 => square[n \div 2] \in Powers
    BY <1>1, HalfOf
  <2> QED
    BY <2>1, <2>2, SquareOfNat
<1>2. Nat \subseteq T
  <2> HIDE DEF T
  <2> QED
    BY <1>1, StrongInduction
<1> QED
  BY <1>2

LEMMA PowNat == ASSUME NEW x \in Nat, NEW n \in Nat PROVE pow(x, n) \in Nat
<1>1. DIGITS \in Nat /\ square[n] \in Powers
  BY SquareNat, DecimalAssumption
<1>2. square[n][x][DIGITS] \in Nat
  BY <1>1 DEF Powers
<1> QED
  BY <1>1, <1>2 DEF pow

FeesRecords == [baseRateWithoutDecay : Nat, lastFeeOperation : Nat, timeOfLatestBlock : Nat, recoveryMode : BOOLEAN]

LEMMA BaseRateNat == ASSUME NEW fees \in FeesRecords PROVE baseRate(fees) \in Nat
<1> DEFINE elapsed == Most(fees.timeOfLatestBlock - fees.lastFeeOperation, 0)
<1>1. elapsed \in Nat /\ fees.baseRateWithoutDecay \in Nat
  BY DEF FeesRecords, Most
<1>2. minuteDecayFactor \in Nat /\ MINUTE \in Nat \ {0}
  BY FeesAssumption, DecimalAssumption
<1>3. elapsed \div MINUTE \in Nat
  BY <1>1, <1>2, QuotientNat
<1>4. pow(minuteDecayFactor, elapsed \div MINUTE) \in Nat
  BY <1>2, <1>3, PowNat
<1> QED
  BY <1>1, <1>4, DecimalNat DEF baseRate

LEMMA RateNat ==
    ASSUME NEW fees \in FeesRecords, NEW fraction \in Nat
    PROVE  redemptionRate(fees, fraction) \in 0 .. DIGITS
<1>1. /\ DIGITS \in Nat /\ beta \in Nat /\ MINIMUM_REDEMPTION_RATE \in Nat
  BY FeesAssumption, DecimalAssumption
<1>2. Div(fraction, beta) \in Nat /\ baseRate(fees) \in Nat
  BY <1>1, DecimalNat, BaseRateNat
<1> QED
  BY <1>1, <1>2 DEF redemptionRate, Least

-------------------------------------------------------------------------------
(* The debt of a list of Troves.                                             *)

LEMMA OpenTroveIs ==
    ASSUME NEW trove \in OpenTrove
    PROVE  /\ trove.net \in Nat /\ trove.net >= HCHF_MINIMUM_NET_DEBT
           /\ trove.collateral \in Int /\ trove.safe \in BOOLEAN
BY DEF OpenTrove

LEMMA NetsNat ==
    ASSUME NEW troves \in Seq(OpenTrove)
    PROVE  \A i \in 1 .. Len(troves) :
             /\ troves[i] \in OpenTrove
             /\ troves[i].net \in Nat /\ troves[i].net >= HCHF_MINIMUM_NET_DEBT
<1>1. \A i \in 1 .. Len(troves) : troves[i] \in OpenTrove
  OBVIOUS
<1> QED
  BY <1>1, OpenTroveIs

DebtAt(troves, before, i) == IF i = 0 THEN 0 ELSE before + troves[i].net + RESERVE
DebtsOf(troves) == CHOOSE f : f = [i \in 0 .. Len(troves) |-> DebtAt(troves, f[i - 1], i)]

LEMMA DebtsAre ==
    ASSUME NEW troves \in Seq(OpenTrove)
    PROVE  /\ debtOf(troves) = DebtsOf(troves)[Len(troves)]
           /\ DebtsOf(troves) \in [0 .. Len(troves) -> Nat]
           /\ DebtsOf(troves)[0] = 0
           /\ \A i \in 1 .. Len(troves) :
                DebtsOf(troves)[i] = DebtsOf(troves)[i - 1] + troves[i].net + RESERVE
<1> DEFINE N == Len(troves)
           step == [i \in 1 .. N |-> [x \in Nat |-> x + troves[i].net + RESERVE]]
<1>1. N \in Nat /\ RESERVE \in Nat /\ \A i \in 1 .. N : troves[i].net \in Nat
  BY DecimalAssumption, NetsNat
<1>2. step \in [1 .. N -> [Nat -> Nat]]
  BY <1>1
<1>3. PICK f \in [0 .. N -> Nat] : Climbs(f, N, 0, step)
  <2> HIDE DEF N, step
  <2>1. N \in Nat /\ 0 \in Nat
    BY <1>1
  <2> QED
    BY <1>2, <2>1, Upwards
<1>4. ASSUME NEW i \in 1 .. N PROVE f[i] = f[i - 1] + troves[i].net + RESERVE
  <2>0. i - 1 \in 0 .. N
    BY <1>1
  <2>1. f[i - 1] \in Nat
    BY <1>3, <2>0
  <2>2. step[i][f[i - 1]] = f[i - 1] + troves[i].net + RESERVE
    BY <2>1
  <2> QED
    BY <1>3, <2>2 DEF Climbs
<1>5. \A i \in 0 .. N : f[i] = DebtAt(troves, f[i - 1], i)
  BY <1>1, <1>3, <1>4 DEF DebtAt, Climbs
<1>6. f = [i \in 0 .. N |-> DebtAt(troves, f[i - 1], i)]
  BY <1>5
<1> DEFINE g == DebtsOf(troves)
<1>7. g = [i \in 0 .. N |-> DebtAt(troves, g[i - 1], i)]
  BY <1>6 DEF DebtsOf
<1>8. debtOf(troves) = g[N]
  BY DEF debtOf, DebtsOf, DebtAt
<1> HIDE DEF g, step
<1>9. g[0] = 0 /\ \A i \in 1 .. N : g[i] = g[i - 1] + troves[i].net + RESERVE
  BY <1>1, <1>7 DEF DebtAt
<1>10. \A i \in 0 .. N : g[i] = f[i]
  <2> DEFINE T == {n \in Nat : n <= N => g[n] = f[n]}
  <2>1. ASSUME NEW n \in Nat, \A m \in 0 .. n - 1 : m \in T PROVE n \in T
    <3>1. CASE n = 0
      BY <1>3, <1>9, <3>1 DEF Climbs
    <3>2. CASE n # 0
      <4>1. n - 1 \in T
        BY <2>1, <3>2
      <4> QED
        BY <1>1, <1>4, <1>9, <3>2, <4>1
    <3> QED
      BY <3>1, <3>2
  <2>2. Nat \subseteq T
    <3> HIDE DEF T
    <3> QED
      BY <2>1, StrongInduction
  <2> QED
    BY <1>1, <2>2
<1>11. g = f
  BY <1>7, <1>10
<1> QED
  BY <1>3, <1>4, <1>8, <1>11 DEF g, Climbs

LEMMA DebtNat == ASSUME NEW troves \in Seq(OpenTrove) PROVE debtOf(troves) \in Nat
  BY DebtsAre

\* What can be redeemed of the first i Troves.
NetOf(troves, i) == DebtsOf(troves)[i] - RESERVE * i

LEMMA NetsAre ==
    ASSUME NEW troves \in Seq(OpenTrove)
    PROVE  /\ debtOf(troves) - RESERVE * Len(troves) = NetOf(troves, Len(troves))
           /\ \A i \in 0 .. Len(troves) : NetOf(troves, i) \in Int
           /\ \A i \in 1 .. Len(troves) : NetOf(troves, i) = NetOf(troves, i - 1) + troves[i].net
<1>1. RESERVE \in Nat /\ \A i \in 1 .. Len(troves) : troves[i].net \in Nat
  BY DecimalAssumption, NetsNat
<1>2. ASSUME NEW i \in 1 .. Len(troves) PROVE NetOf(troves, i) = NetOf(troves, i - 1) + troves[i].net
  <2> DEFINE d == DebtsOf(troves)[i - 1]
             n == troves[i].net
  <2>1. d \in Nat /\ n \in Nat /\ i \in Nat /\ DebtsOf(troves)[i] = d + n + RESERVE
    <3>1. i - 1 \in 0 .. Len(troves) /\ i \in Nat
      OBVIOUS
    <3>2. d \in Nat
      BY <3>1, DebtsAre
    <3>3. DebtsOf(troves)[i] = d + n + RESERVE
      BY DebtsAre
    <3> QED
      BY <1>1, <3>1, <3>2, <3>3
  <2>2. RESERVE * i = RESERVE * (i - 1) + RESERVE /\ RESERVE * (i - 1) \in Int
    BY <1>1, <2>1
  <2> HIDE DEF d, n
  <2>3. DebtsOf(troves)[i] - RESERVE * i = d - RESERVE * (i - 1) + n
    BY <1>1, <2>1, <2>2
  <2> QED
    BY <2>3 DEF NetOf, d, n
<1>3. ASSUME NEW i \in 0 .. Len(troves) PROVE NetOf(troves, i) \in Int
  <2>1. RESERVE * i \in Int /\ DebtsOf(troves)[i] \in Int
    BY <1>1, DebtsAre
  <2> QED
    BY <2>1 DEF NetOf
<1> QED
  BY <1>2, <1>3, DebtsAre DEF NetOf

\* Parts of a list.
LEMMA CountIn ==
    ASSUME NEW n \in Nat, NEW T, T \subseteq 1 .. n
    PROVE  Cardinality(T) \in 0 .. n
<1>1. IsFiniteSet(1 .. n) /\ Cardinality(1 .. n) = n
  <2>1. 1 \in Int /\ n \in Int
    OBVIOUS
  <2>2. Cardinality(1 .. n) = IF 1 > n THEN 0 ELSE n - 1 + 1
    BY <2>1, FS_Interval
  <2> QED
    BY <2>1, <2>2, FS_Interval
<1>2. IsFiniteSet(T) /\ Cardinality(T) <= n
  BY <1>1, FS_Subset
<1>3. Cardinality(T) \in Nat
  BY <1>2, FS_CardinalityType
<1> QED
  BY <1>2, <1>3

LEMMA PartOf ==
    ASSUME NEW S, NEW s \in Seq(S), NEW a \in Nat \ {0}, NEW b \in 0 .. Len(s)
    PROVE  SubSeq(s, a, b) \in Seq(S)
OBVIOUS

LEMMA ListsOpen ==
    ASSUME NEW troves \in Seq(OpenTrove)
    PROVE  risky(troves) \in Seq(OpenTrove) /\ safe(troves) \in Seq(OpenTrove)
<1>1. numberOfRisky(troves) \in 0 .. Len(troves)
  <2> DEFINE T == {i \in DOMAIN troves : ~troves[i].safe}
  <2>1. T \subseteq 1 .. Len(troves) /\ Len(troves) \in Nat
    OBVIOUS
  <2> HIDE DEF T
  <2>2. Cardinality(T) \in 0 .. Len(troves)
    BY <2>1, CountIn
  <2> QED
    BY <2>2 DEF numberOfRisky, T
<1>2. numberOfRisky(troves) + 1 \in Nat \ {0} /\ Len(troves) \in 0 .. Len(troves)
  BY <1>1
<1> QED
  BY <1>1, <1>2, PartOf DEF risky, safe

LEMMA InsertOpen ==
    ASSUME NEW troves \in Seq(OpenTrove), NEW trove \in OpenTrove
    PROVE  insert(troves, trove) \in Seq(OpenTrove)
<1> DEFINE T == {i \in DOMAIN troves : nicr(troves[i]) <= nicr(trove)}
           n == Cardinality(T)
<1>1. T \subseteq 1 .. Len(troves) /\ Len(troves) \in Nat
  OBVIOUS
<1>2. n \in 0 .. Len(troves)
  <2> HIDE DEF T
  <2> QED
    BY <1>1, CountIn
<1>3. insert(troves, trove) = SubSeq(troves, 1, n) \o <<trove>> \o SubSeq(troves, n + 1, Len(troves))
  BY DEF insert
<1> HIDE DEF n
<1>4. n + 1 \in Nat \ {0} /\ Len(troves) \in 0 .. Len(troves)
  BY <1>1, <1>2
<1>5. SubSeq(troves, 1, n) \in Seq(OpenTrove) /\ SubSeq(troves, n + 1, Len(troves)) \in Seq(OpenTrove)
  BY <1>2, <1>4, PartOf
<1>6. <<trove>> \in Seq(OpenTrove)
  OBVIOUS
<1> QED
  BY <1>3, <1>5, <1>6

LEMMA AfterIs ==
    ASSUME NEW trove \in OpenTrove, NEW lot \in Nat, lot <= trove.net
    PROVE  /\ after(trove, lot).net = trove.net - lot
           /\ after(trove, lot).collateral = trove.collateral - lot
           /\ trove.net - lot >= HCHF_MINIMUM_NET_DEBT => after(trove, lot) \in OpenTrove
<1> DEFINE net == trove.net - lot
           collateral == trove.collateral - lot
           new == [trove EXCEPT !.net = net, !.collateral = collateral]
<1>1. DOMAIN trove = {"owner", "net", "collateral", "safe"}
  BY DEF OpenTrove
<1>2. net \in Nat /\ collateral \in Int
  BY OpenTroveIs
<1>3. after(trove, lot) = new
  BY <1>1 DEF after
<1> HIDE DEF net, collateral
<1>4. new.net = net /\ new.collateral = collateral
  BY <1>1
<1>5. ASSUME net >= HCHF_MINIMUM_NET_DEBT PROVE new \in OpenTrove
  BY <1>2, <1>5 DEF OpenTrove
<1> QED
  BY <1>3, <1>4, <1>5 DEF net, collateral

LEMMA NicrInt ==
    ASSUME NEW trove \in OpenTrove, NEW lot \in Nat, lot <= trove.net
    PROVE  nicr(after(trove, lot)) \in Int
<1> DEFINE c == trove.collateral - lot
           d == trove.net - lot + RESERVE
<1>1. DIGITS \in Nat /\ INFINITY \in Nat /\ RESERVE \in Nat \ {0}
  BY DecimalAssumption
<1>2. c \in Int /\ d \in Nat \ {0}
  BY <1>1, OpenTroveIs
<1>3. nicr(after(trove, lot)) = Div(c, d)
  BY AfterIs DEF nicr
<1> HIDE DEF c, d
<1>4. c * DIGITS \in Int
  BY <1>1, <1>2

<1>5. (c * DIGITS) \div d \in Int
  BY <1>2, <1>4
<1> QED
  BY <1>2, <1>3, <1>5 DEF Div

-------------------------------------------------------------------------------
(* The contracts' two walks along the list: what the hints foresee, and what *)
(* is then redeemed.                                                         *)

HintRecords == [truncated : Int, nicr : Int]
Hinting(wanted) ==
    {f \in [Nat -> HintRecords] : \A r \in 0 .. wanted : f[r].truncated \in wanted - r .. wanted}
LotOf(trove, remaining) == Least(remaining, Most(trove.net - HCHF_MINIMUM_NET_DEBT, 0))

\* What hint[i] is, from hint[i + 1].
HintAt(troves, wanted, next, i) ==
    [remaining \in Nat |->
       IF i > Len(troves) \/ i > RedeemMaxIterations \/ remaining = 0
       THEN [truncated |-> wanted - remaining, nicr |-> 0]
       ELSE IF troves[i].net <= remaining THEN next[remaining - troves[i].net]
       ELSE LET lot == Least(remaining, Most(troves[i].net - HCHF_MINIMUM_NET_DEBT, 0))
            IN  [truncated |-> wanted - remaining + lot,
                 nicr |-> IF lot = 0 THEN 0 ELSE nicr(after(troves[i], lot))]]
HintsOf(troves, wanted) ==
    CHOOSE f : f = [i \in 1 .. Len(troves) + 1 |-> HintAt(troves, wanted, f[i + 1], i)]

Ends(troves, i, limit, remaining) == i > Len(troves) \/ i > limit \/ remaining = 0

\* The three ways of a Trove in the walk.
LEMMA HintEnds ==
    ASSUME NEW troves, NEW wanted, NEW next, NEW i, NEW remaining \in Nat,
           Ends(troves, i, RedeemMaxIterations, remaining)
    PROVE  HintAt(troves, wanted, next, i)[remaining] = [truncated |-> wanted - remaining, nicr |-> 0]
BY DEF HintAt, Ends

LEMMA HintCloses ==
    ASSUME NEW troves, NEW wanted, NEW next, NEW i, NEW remaining \in Nat,
           ~Ends(troves, i, RedeemMaxIterations, remaining), troves[i].net <= remaining
    PROVE  HintAt(troves, wanted, next, i)[remaining] = next[remaining - troves[i].net]
BY DEF HintAt, Ends

LEMMA HintLeaves ==
    ASSUME NEW troves, NEW wanted, NEW next, NEW i, NEW remaining \in Nat,
           ~Ends(troves, i, RedeemMaxIterations, remaining), ~(troves[i].net <= remaining)
    PROVE  HintAt(troves, wanted, next, i)[remaining] =
             [truncated |-> wanted - remaining + LotOf(troves[i], remaining),
              nicr |-> IF LotOf(troves[i], remaining) = 0 THEN 0
                       ELSE nicr(after(troves[i], LotOf(troves[i], remaining)))]
BY DEF HintAt, Ends, LotOf

\* The lot leaves the minimum in the Trove.
LEMMA LotIs ==
    ASSUME NEW trove \in OpenTrove, NEW remaining \in Nat, ~(trove.net <= remaining)
    PROVE  /\ LotOf(trove, remaining) \in Nat
           /\ LotOf(trove, remaining) <= remaining /\ LotOf(trove, remaining) < trove.net
           /\ trove.net - LotOf(trove, remaining) >= HCHF_MINIMUM_NET_DEBT
           /\ LotOf(trove, remaining) < remaining =>
                LotOf(trove, remaining) + HCHF_MINIMUM_NET_DEBT = trove.net
<1>1. trove.net \in Nat /\ trove.net >= HCHF_MINIMUM_NET_DEBT /\ HCHF_MINIMUM_NET_DEBT \in Nat
  BY OpenTroveIs, RedemptionAssumption
<1> QED
  BY <1>1 DEF LotOf, Least, Most

LEMMA HintAtType ==
    ASSUME NEW troves \in Seq(OpenTrove), NEW wanted \in Nat, NEW i \in 1 .. Len(troves) + 1, NEW next,
           i <= Len(troves) => next \in Hinting(wanted)
    PROVE  HintAt(troves, wanted, next, i) \in Hinting(wanted)
<1>1. ASSUME NEW remaining \in Nat
      PROVE  /\ HintAt(troves, wanted, next, i)[remaining] \in HintRecords
             /\ remaining <= wanted =>
                  HintAt(troves, wanted, next, i)[remaining].truncated \in wanted - remaining .. wanted
  <2> DEFINE h == HintAt(troves, wanted, next, i)[remaining]
             OK(r) == r \in HintRecords /\ (remaining <= wanted => r.truncated \in wanted - remaining .. wanted)
  <2>1. CASE Ends(troves, i, RedeemMaxIterations, remaining)
    <3>1. h = [truncated |-> wanted - remaining, nicr |-> 0]
      BY <2>1, HintEnds
    <3>2. OK([truncated |-> wanted - remaining, nicr |-> 0])
      BY DEF HintRecords
    <3> QED
      BY <3>1, <3>2
  <2>2. ASSUME ~Ends(troves, i, RedeemMaxIterations, remaining), troves[i].net <= remaining
        PROVE  OK(h)
    <3>1. i <= Len(troves) /\ i \in 1 .. Len(troves)
      BY <2>2 DEF Ends
    <3> DEFINE rest == remaining - troves[i].net
    <3>2. rest \in Nat /\ rest <= remaining
      <4>1. troves[i].net \in Nat
        BY <3>1, NetsNat
      <4> QED
        BY <2>2, <4>1
    <3>3. h = next[rest]
      BY <2>2, HintCloses
    <3> HIDE DEF h, rest
    <3>4. OK(next[rest])
      <4>1. next \in [Nat -> HintRecords] /\ (rest <= wanted => next[rest].truncated \in wanted - rest .. wanted)
        BY <3>1, <3>2 DEF Hinting
      <4> QED
        BY <3>2, <4>1
    <3> QED
      BY <3>3, <3>4
  <2>3. ASSUME ~Ends(troves, i, RedeemMaxIterations, remaining), ~(troves[i].net <= remaining)
        PROVE  OK(h)
    <3> DEFINE lot == LotOf(troves[i], remaining)
               n == IF lot = 0 THEN 0 ELSE nicr(after(troves[i], lot))
    <3>1. i \in 1 .. Len(troves)
      BY <2>3 DEF Ends
    <3>2. troves[i] \in OpenTrove /\ troves[i].net \in Nat
      BY <3>1, NetsNat
    <3>3. lot \in Nat /\ lot <= troves[i].net /\ lot <= remaining
      BY <2>3, <3>2, LotIs
    <3>4. n \in Int
      BY <3>2, <3>3, NicrInt
    <3>5. h = [truncated |-> wanted - remaining + lot, nicr |-> n]
      BY <2>3 DEF HintAt, Ends, LotOf
    <3> HIDE DEF h, lot, n
    <3>6. OK([truncated |-> wanted - remaining + lot, nicr |-> n])
      BY <3>3, <3>4 DEF HintRecords
    <3> QED
      BY <3>5, <3>6
  <2> QED
    BY <2>1, <2>2, <2>3
<1>2. PICK h : h = HintAt(troves, wanted, next, i) /\ h = [remaining \in Nat |-> h[remaining]]
  BY DEF HintAt
<1>3. \A r \in Nat : h[r] \in HintRecords
  BY <1>1, <1>2
<1>4. \A r \in 0 .. wanted : h[r].truncated \in wanted - r .. wanted
  BY <1>1, <1>2
<1>5. h \in [Nat -> HintRecords]
  BY <1>2, <1>3
<1>6. h \in Hinting(wanted)
  BY <1>4, <1>5 DEF Hinting
<1> QED
  BY <1>2, <1>6

LEMMA HintsAre ==
    ASSUME NEW troves \in Seq(OpenTrove), NEW wanted \in Nat
    PROVE  /\ getRedemptionHints(troves, wanted) = HintsOf(troves, wanted)[1][wanted]
           /\ \A i \in 1 .. Len(troves) + 1 :
                /\ HintsOf(troves, wanted)[i] \in Hinting(wanted)
                /\ HintsOf(troves, wanted)[i] = HintAt(troves, wanted, HintsOf(troves, wanted)[i + 1], i)
<1> DEFINE N == Len(troves)
           At(next, i) == HintAt(troves, wanted, next, i)
           last == At(0, N + 1)
           step == [i \in 1 .. N |-> [next \in Hinting(wanted) |-> At(next, i)]]
<1>1. N \in Nat /\ N + 1 \in 1 .. N + 1
  OBVIOUS
<1>2. \A i \in 1 .. N + 1 : \A next : (i <= N => next \in Hinting(wanted)) => At(next, i) \in Hinting(wanted)
  BY HintAtType
<1>3. \A next : At(next, N + 1) = last
  BY <1>1 DEF HintAt
<1> HIDE DEF N, At
<1>4. last \in Hinting(wanted)
  BY <1>1, <1>2
<1>5. step \in [1 .. N -> [Hinting(wanted) -> Hinting(wanted)]]
  BY <1>1, <1>2
<1>6. PICK f \in [1 .. N + 1 -> Hinting(wanted)] : Descends(f, N, last, step)
  <2> HIDE DEF step, last
  <2> QED
    BY <1>1, <1>4, <1>5, Downwards
<1>7. ASSUME NEW i \in 1 .. N + 1 PROVE f[i] = At(f[i + 1], i)
  <2>1. CASE i = N + 1
    BY <1>3, <1>6, <2>1 DEF Descends
  <2>2. CASE i \in 1 .. N
    <3>1. f[i + 1] \in Hinting(wanted)
      BY <1>1, <1>6, <2>2
    <3> QED
      BY <1>6, <2>2, <3>1 DEF Descends
  <2> QED
    BY <1>1, <2>1, <2>2
<1>8. f = [i \in 1 .. N + 1 |-> At(f[i + 1], i)]
  BY <1>6, <1>7
<1> DEFINE g == HintsOf(troves, wanted)
<1>9. g = [i \in 1 .. N + 1 |-> At(g[i + 1], i)]
  BY <1>8 DEF HintsOf, N, At
<1>10. getRedemptionHints(troves, wanted) = g[1][wanted]
  BY DEF getRedemptionHints, HintsOf, HintAt
<1> HIDE DEF g
<1>11. \A i \in 1 .. N + 1 : g[i] = At(g[i + 1], i)
  BY <1>9
<1>12. 1 .. N + 1 \subseteq {i \in 1 .. N + 1 : g[i] \in Hinting(wanted)}
  <2> DEFINE T == {i \in 1 .. N + 1 : g[i] \in Hinting(wanted)}
  <2>1. N + 1 \in T
    BY <1>1, <1>2, <1>11
  <2>2. ASSUME NEW i \in 1 .. N, i + 1 \in T PROVE i \in T
    <3>1. i \in 1 .. N + 1 /\ g[i + 1] \in Hinting(wanted)
      BY <1>1, <2>2
    <3>2. At(g[i + 1], i) \in Hinting(wanted)
      BY <1>2, <3>1
    <3>3. g[i] = At(g[i + 1], i)
      BY <1>11, <3>1
    <3> QED
      BY <3>1, <3>2, <3>3
  <2> HIDE DEF T
  <2>3. 1 .. N + 1 \subseteq T
    BY <1>1, <2>1, <2>2, DownInduction
  <2> QED
    BY <2>3 DEF T
<1> QED
  BY <1>10, <1>11, <1>12 DEF g, N, At

\* What is redeemed, and the Troves left.
RedeemRecords == [amount : Int, left : Seq(OpenTrove)]
Redeeming(wanted) ==
    {f \in [Nat -> RedeemRecords] : \A r \in 0 .. wanted : f[r].amount \in wanted - r .. wanted}
Rest(trove, remaining) == after(trove, Least(remaining, trove.net))

\* What redeem[i] is, from redeem[i + 1].
RedeemAt(troves, wanted, hintNICR, maxIterations, next, i) ==
    [remaining \in Nat |->
       IF i > Len(troves) \/ i > maxIterations \/ remaining = 0
       THEN [amount |-> wanted - remaining, left |-> SubSeq(troves, i, Len(troves))]
       ELSE LET lot == Least(remaining, troves[i].net)
                new == after(troves[i], lot)
            IN  IF new.net = 0 THEN next[remaining - lot]
                ELSE IF nicr(new) # hintNICR \/ new.net < HCHF_MINIMUM_NET_DEBT
                THEN [amount |-> wanted - remaining, left |-> SubSeq(troves, i, Len(troves))]
                ELSE [amount |-> wanted, left |-> insert(SubSeq(troves, i + 1, Len(troves)), new)]]
RedeemsOf(troves, wanted, hintNICR, maxIterations) ==
    CHOOSE f : f = [i \in 1 .. Len(troves) + 1 |->
                      RedeemAt(troves, wanted, hintNICR, maxIterations, f[i + 1], i)]

LEMMA RedeemEnds ==
    ASSUME NEW troves, NEW wanted, NEW hintNICR, NEW maxIterations, NEW next, NEW i, NEW remaining \in Nat,
           Ends(troves, i, maxIterations, remaining)
    PROVE  RedeemAt(troves, wanted, hintNICR, maxIterations, next, i)[remaining] =
             [amount |-> wanted - remaining, left |-> SubSeq(troves, i, Len(troves))]
BY DEF RedeemAt, Ends

LEMMA RedeemCloses ==
    ASSUME NEW troves, NEW wanted, NEW hintNICR, NEW maxIterations, NEW next, NEW i, NEW remaining \in Nat,
           ~Ends(troves, i, maxIterations, remaining), Rest(troves[i], remaining).net = 0
    PROVE  RedeemAt(troves, wanted, hintNICR, maxIterations, next, i)[remaining] =
             next[remaining - Least(remaining, troves[i].net)]
BY DEF RedeemAt, Ends, Rest

LEMMA RedeemStops ==
    ASSUME NEW troves, NEW wanted, NEW hintNICR, NEW maxIterations, NEW next, NEW i, NEW remaining \in Nat,
           ~Ends(troves, i, maxIterations, remaining), Rest(troves[i], remaining).net # 0,
           nicr(Rest(troves[i], remaining)) # hintNICR \/ Rest(troves[i], remaining).net < HCHF_MINIMUM_NET_DEBT
    PROVE  RedeemAt(troves, wanted, hintNICR, maxIterations, next, i)[remaining] =
             [amount |-> wanted - remaining, left |-> SubSeq(troves, i, Len(troves))]
BY DEF RedeemAt, Ends, Rest

LEMMA RedeemLeaves ==
    ASSUME NEW troves, NEW wanted, NEW hintNICR, NEW maxIterations, NEW next, NEW i, NEW remaining \in Nat,
           ~Ends(troves, i, maxIterations, remaining), Rest(troves[i], remaining).net # 0,
           nicr(Rest(troves[i], remaining)) = hintNICR,
           ~(Rest(troves[i], remaining).net < HCHF_MINIMUM_NET_DEBT)
    PROVE  RedeemAt(troves, wanted, hintNICR, maxIterations, next, i)[remaining] =
             [amount |-> wanted,
              left |-> insert(SubSeq(troves, i + 1, Len(troves)), Rest(troves[i], remaining))]
BY DEF RedeemAt, Ends, Rest

LEMMA RedeemAtType ==
    ASSUME NEW troves \in Seq(OpenTrove), NEW wanted \in Nat, NEW hintNICR, NEW maxIterations,
           NEW i \in 1 .. Len(troves) + 1, NEW next, i <= Len(troves) => next \in Redeeming(wanted)
    PROVE  RedeemAt(troves, wanted, hintNICR, maxIterations, next, i) \in Redeeming(wanted)
<1>1. ASSUME NEW remaining \in Nat
      PROVE  LET h == RedeemAt(troves, wanted, hintNICR, maxIterations, next, i)[remaining]
             IN  /\ h \in RedeemRecords
                 /\ remaining <= wanted => h.amount \in wanted - remaining .. wanted
  <2> DEFINE h == RedeemAt(troves, wanted, hintNICR, maxIterations, next, i)[remaining]
             OK(r) == r \in RedeemRecords /\ (remaining <= wanted => r.amount \in wanted - remaining .. wanted)
             rest == SubSeq(troves, i, Len(troves))
  <2>0. rest \in Seq(OpenTrove)
    <3>1. i \in Nat \ {0} /\ Len(troves) \in 0 .. Len(troves)
      OBVIOUS
    <3> QED
      BY <3>1, PartOf
  <2>1. OK([amount |-> wanted - remaining, left |-> rest])
    <3> HIDE DEF rest
    <3> QED
      BY <2>0 DEF RedeemRecords
  <2>2. CASE Ends(troves, i, maxIterations, remaining)
    <3>1. h = [amount |-> wanted - remaining, left |-> rest]
      BY <2>2 DEF RedeemAt, Ends
    <3> QED
      BY <2>1, <3>1
  <2>3. ASSUME ~Ends(troves, i, maxIterations, remaining) PROVE OK(h)
    <3> DEFINE trove == troves[i]
               lot == Least(remaining, trove.net)
               new == Rest(trove, remaining)
    <3>1. i \in 1 .. Len(troves) /\ remaining # 0
      BY <2>3 DEF Ends
    <3>2. trove \in OpenTrove /\ trove.net \in Nat
      BY <3>1, NetsNat
    <3>3. lot \in Nat /\ lot <= trove.net /\ lot <= remaining
      BY <3>2 DEF Least
    <3>4. new.net = trove.net - lot /\ (trove.net - lot >= HCHF_MINIMUM_NET_DEBT => new \in OpenTrove)
      BY <3>2, <3>3, AfterIs DEF Rest
    <3>5. CASE new.net = 0
      <4> DEFINE left == remaining - lot
      <4>1. left \in Nat /\ left <= remaining
        BY <3>3
      <4>2. h = next[left]
        BY <2>3, <3>5 DEF RedeemAt, Ends, Rest
      <4> HIDE DEF h, left
      <4>3. /\ next \in [Nat -> RedeemRecords]
            /\ left <= wanted => next[left].amount \in wanted - left .. wanted
        BY <3>1, <4>1 DEF Redeeming
      <4>4. OK(next[left])
        BY <4>1, <4>3
      <4> QED
        BY <4>2, <4>4
    <3>6. CASE new.net # 0 /\ (nicr(new) # hintNICR \/ new.net < HCHF_MINIMUM_NET_DEBT)
      <4>1. h = [amount |-> wanted - remaining, left |-> rest]
        BY <2>3, <3>6 DEF RedeemAt, Ends, Rest
      <4> QED
        BY <2>1, <4>1
    <3>7. CASE new.net # 0 /\ nicr(new) = hintNICR /\ ~(new.net < HCHF_MINIMUM_NET_DEBT)
      <4> DEFINE others == SubSeq(troves, i + 1, Len(troves))
                 list == insert(others, new)
      <4>1. h = [amount |-> wanted, left |-> list]
        BY <2>3, <3>7 DEF RedeemAt, Ends, Rest
      <4>2. others \in Seq(OpenTrove)
        <5>1. i + 1 \in Nat \ {0} /\ Len(troves) \in 0 .. Len(troves)
          OBVIOUS
        <5> QED
          BY <5>1, PartOf
      <4>3. new \in OpenTrove
        <5>1. HCHF_MINIMUM_NET_DEBT \in Nat /\ trove.net - lot \in Int
          BY <3>2, <3>3, RedemptionAssumption
        <5> HIDE DEF new, lot, trove
        <5> QED
          BY <3>4, <3>7, <5>1
      <4>4. list \in Seq(OpenTrove)
        <5> HIDE DEF others, new
        <5> QED
          BY <4>2, <4>3, InsertOpen
      <4> HIDE DEF list, h
      <4>5. OK([amount |-> wanted, left |-> list])
        BY <4>4 DEF RedeemRecords
      <4> QED
        BY <4>1, <4>5
    <3> QED
      BY <3>5, <3>6, <3>7
  <2> QED
    BY <2>2, <2>3
<1>2. PICK h : /\ h = RedeemAt(troves, wanted, hintNICR, maxIterations, next, i)
               /\ h = [remaining \in Nat |-> h[remaining]]
  BY DEF RedeemAt
<1>3. \A r \in Nat : h[r] \in RedeemRecords
  BY <1>1, <1>2
<1>4. \A r \in 0 .. wanted : h[r].amount \in wanted - r .. wanted
  BY <1>1, <1>2
<1>5. h \in [Nat -> RedeemRecords]
  BY <1>2, <1>3
<1>6. h \in Redeeming(wanted)
  BY <1>4, <1>5 DEF Redeeming
<1> QED
  BY <1>2, <1>6

LEMMA RedeemsAre ==
    ASSUME NEW troves \in Seq(OpenTrove), NEW wanted \in Nat, NEW hintNICR, NEW maxIterations
    PROVE  LET g == RedeemsOf(troves, wanted, hintNICR, maxIterations)
           IN  /\ redeemed(troves, wanted, hintNICR, maxIterations) = g[1][wanted]
               /\ \A i \in 1 .. Len(troves) + 1 :
                    /\ g[i] \in Redeeming(wanted)
                    /\ g[i] = RedeemAt(troves, wanted, hintNICR, maxIterations, g[i + 1], i)
<1> DEFINE N == Len(troves)
           At(next, i) == RedeemAt(troves, wanted, hintNICR, maxIterations, next, i)
           last == At(0, N + 1)
           step == [i \in 1 .. N |-> [next \in Redeeming(wanted) |-> At(next, i)]]
<1>1. N \in Nat /\ N + 1 \in 1 .. N + 1
  OBVIOUS
<1>2. \A i \in 1 .. N + 1 : \A next : (i <= N => next \in Redeeming(wanted)) => At(next, i) \in Redeeming(wanted)
  BY RedeemAtType
<1>3. \A next : At(next, N + 1) = last
  BY <1>1 DEF RedeemAt
<1> HIDE DEF N, At
<1>4. last \in Redeeming(wanted)
  BY <1>1, <1>2
<1>5. step \in [1 .. N -> [Redeeming(wanted) -> Redeeming(wanted)]]
  BY <1>1, <1>2
<1>6. PICK f \in [1 .. N + 1 -> Redeeming(wanted)] : Descends(f, N, last, step)
  <2> HIDE DEF step, last
  <2> QED
    BY <1>1, <1>4, <1>5, Downwards
<1>7. ASSUME NEW i \in 1 .. N + 1 PROVE f[i] = At(f[i + 1], i)
  <2>1. CASE i = N + 1
    BY <1>3, <1>6, <2>1 DEF Descends
  <2>2. CASE i \in 1 .. N
    <3>1. f[i + 1] \in Redeeming(wanted)
      BY <1>1, <1>6, <2>2
    <3> QED
      BY <1>6, <2>2, <3>1 DEF Descends
  <2> QED
    BY <1>1, <2>1, <2>2
<1>8. f = [i \in 1 .. N + 1 |-> At(f[i + 1], i)]
  BY <1>6, <1>7
<1> DEFINE g == RedeemsOf(troves, wanted, hintNICR, maxIterations)
<1>9. g = [i \in 1 .. N + 1 |-> At(g[i + 1], i)]
  BY <1>8 DEF RedeemsOf, N, At
<1>10. redeemed(troves, wanted, hintNICR, maxIterations) = g[1][wanted]
  BY DEF redeemed, RedeemsOf, RedeemAt
<1> HIDE DEF g
<1>11. \A i \in 1 .. N + 1 : g[i] = At(g[i + 1], i)
  BY <1>9
<1>12. 1 .. N + 1 \subseteq {i \in 1 .. N + 1 : g[i] \in Redeeming(wanted)}
  <2> DEFINE T == {i \in 1 .. N + 1 : g[i] \in Redeeming(wanted)}
  <2>1. N + 1 \in T
    BY <1>1, <1>2, <1>11
  <2>2. ASSUME NEW i \in 1 .. N, i + 1 \in T PROVE i \in T
    <3>1. i \in 1 .. N + 1 /\ g[i + 1] \in Redeeming(wanted)
      BY <1>1, <2>2
    <3>2. At(g[i + 1], i) \in Redeeming(wanted)
      BY <1>2, <3>1
    <3>3. g[i] = At(g[i + 1], i)
      BY <1>11, <3>1
    <3> QED
      BY <3>1, <3>2, <3>3
  <2> HIDE DEF T
  <2>3. 1 .. N + 1 \subseteq T
    BY <1>1, <2>1, <2>2, DownInduction
  <2> QED
    BY <2>3 DEF T
<1> QED
  BY <1>10, <1>11, <1>12 DEF g, N, At

\* What the hints foresee is what is redeemed with them: the second walk stops
\* where the first did.
LEMMA ForeseenIsRedeemed ==
    ASSUME NEW troves \in Seq(OpenTrove), NEW wanted \in Nat, NEW limit \in Nat,
           limit >= RedeemMaxIterations
    PROVE  LET hints == getRedemptionHints(troves, wanted)
           IN  redeemed(troves, hints.truncated, hints.nicr, limit).amount = hints.truncated
<1> DEFINE N == Len(troves)
           g == HintsOf(troves, wanted)
           t == g[1][wanted].truncated
           k == g[1][wanted].nicr
           r == RedeemsOf(troves, t, k, limit)
           T == {i \in 1 .. N + 1 : \A rem \in 0 .. wanted :
                   g[i][rem] = g[1][wanted] => r[i][t - (wanted - rem)].amount = t}
<1>1. N \in Nat /\ 1 \in 1 .. N + 1 /\ wanted \in 0 .. wanted /\ RedeemMaxIterations \in Nat
  BY RedemptionAssumption
<1>2. \A i \in 1 .. N + 1 : g[i] \in Hinting(wanted) /\ g[i] = HintAt(troves, wanted, g[i + 1], i)
  BY HintsAre
<1>3. getRedemptionHints(troves, wanted) = g[1][wanted]
  BY HintsAre
<1>4. ASSUME NEW i \in 1 .. N + 1, NEW rem \in 0 .. wanted
      PROVE  g[i][rem].truncated \in wanted - rem .. wanted
  BY <1>2 DEF Hinting
<1> HIDE DEF g
<1>5. t \in 0 .. wanted
  BY <1>1, <1>4
<1>6. \A i \in 1 .. N + 1 : r[i] = RedeemAt(troves, t, k, limit, r[i + 1], i)
  <2> HIDE DEF t, k
  <2> QED
    BY <1>5, RedeemsAre
<1>7. redeemed(troves, t, k, limit) = r[1][t]
  <2> HIDE DEF t, k
  <2> QED
    BY <1>5, RedeemsAre
<1> HIDE DEF r
<1>8. ASSUME NEW i \in 1 .. N + 1 PROVE r[i][0].amount = t
  <2>1. Ends(troves, i, limit, 0) /\ 0 \in Nat
    BY DEF Ends
  <2>2. r[i][0] = [amount |-> t - 0, left |-> SubSeq(troves, i, Len(troves))]
    <3>1. r[i] = RedeemAt(troves, t, k, limit, r[i + 1], i)
      BY <1>6
    <3> HIDE DEF t, k
    <3> QED
      BY <2>1, <3>1 DEF RedeemAt, Ends
  <2> HIDE DEF t
  <2> QED
    BY <1>5, <2>2
<1>9. ASSUME NEW i \in 1 .. N + 1, i \in 1 .. N => i + 1 \in T PROVE i \in T
  <2> SUFFICES ASSUME NEW rem \in 0 .. wanted, g[i][rem] = g[1][wanted]
               PROVE  r[i][t - (wanted - rem)].amount = t
    OBVIOUS
  <2> DEFINE left == t - (wanted - rem)
  <2>0. left \in 0 .. rem /\ g[i][rem].truncated = t /\ g[i][rem].nicr = k
    <3>1. t \in wanted - rem .. wanted /\ g[i][rem].truncated = t /\ g[i][rem].nicr = k
      BY <1>4
    <3> HIDE DEF t
    <3> QED
      BY <3>1
  <2> HIDE DEF t, k
  <2>1. CASE Ends(troves, i, RedeemMaxIterations, rem)
    <3>1. g[i][rem] = [truncated |-> wanted - rem, nicr |-> 0]
      <4>1. g[i] = HintAt(troves, wanted, g[i + 1], i)
        BY <1>2
      <4> QED
        BY <2>1, <4>1 DEF HintAt, Ends
    <3>2. left = 0
      BY <2>0, <3>1
    <3> QED
      BY <1>8, <3>2
  <2>2. ASSUME ~Ends(troves, i, RedeemMaxIterations, rem)
        PROVE  r[i][left].amount = t
    <3> DEFINE trove == troves[i]
               n == trove.net
    <3>1. i \in 1 .. N /\ i <= limit
      BY <1>1, <2>2 DEF Ends
    <3>2. trove \in OpenTrove /\ n \in Nat /\ i + 1 \in 1 .. N + 1
      BY <3>1, NetsNat
    <3> HIDE DEF trove
    <3>3. CASE n <= rem
      <4>1. g[i][rem] = g[i + 1][rem - n] /\ rem - n \in 0 .. wanted
        BY <1>2, <2>2, <3>2, <3>3, HintCloses DEF trove
      <4>2. r[i + 1][t - (wanted - (rem - n))].amount = t
        BY <1>9, <3>1, <4>1 DEF T, t
      <4>3. g[i + 1][rem - n].truncated = t
        BY <2>0, <4>1
      <4>4. left - n \in Nat /\ t - (wanted - (rem - n)) = left - n
        <5>1. t \in wanted - (rem - n) .. wanted
          BY <1>4, <3>2, <4>1, <4>3
        <5> QED
          BY <1>5, <3>2, <5>1
      <4>5. CASE left = 0
        BY <1>8, <4>5
      <4>6. CASE left # 0
        <5>1. ~Ends(troves, i, limit, left) /\ left \in Nat
          BY <1>1, <2>0, <3>1, <4>6 DEF Ends
        <5>2. Least(left, n) = n
          BY <2>0, <3>2, <4>4 DEF Least
        <5>3. Rest(trove, left).net = 0
          BY <3>2, <5>2, AfterIs DEF Rest
        <5> HIDE DEF left
        <5>4. r[i][left] = r[i + 1][left - n]
          BY <1>6, <5>1, <5>2, <5>3, RedeemCloses DEF trove
        <5> QED
          BY <4>2, <4>4, <5>4
      <4> QED
        BY <4>5, <4>6
    <3>4. CASE ~(n <= rem)
      <4> DEFINE lot == LotOf(trove, rem)
      <4>1. /\ lot \in Nat /\ lot < n /\ lot <= rem /\ n - lot >= HCHF_MINIMUM_NET_DEBT
        BY <3>2, <3>4, LotIs
      <4>2. g[i][rem] = [truncated |-> wanted - rem + lot,
                         nicr |-> IF lot = 0 THEN 0 ELSE nicr(after(trove, lot))]
        <5>1. g[i] = HintAt(troves, wanted, g[i + 1], i) /\ rem \in Nat
          BY <1>2
        <5> QED
          BY <2>2, <3>4, <5>1 DEF trove, HintAt, Ends, LotOf
      <4> HIDE DEF lot
      <4>3. left = lot /\ (lot # 0 => k = nicr(after(trove, lot)))
        BY <2>0, <4>1, <4>2
      <4>4. CASE lot = 0
        BY <1>8, <4>3, <4>4
      <4>5. CASE lot # 0
        <5>1. ~Ends(troves, i, limit, lot)
          BY <1>1, <3>1, <4>1, <4>5 DEF Ends
        <5>2. Least(lot, n) = lot
          BY <3>2, <4>1 DEF Least
        <5>3. Rest(trove, lot) = after(trove, lot)
          BY <5>2 DEF Rest
        <5>4. after(trove, lot).net = n - lot
          BY <3>2, <4>1, AfterIs
        <5>5. /\ Rest(trove, lot).net # 0 /\ ~(Rest(trove, lot).net < HCHF_MINIMUM_NET_DEBT)
              /\ nicr(Rest(trove, lot)) = k
          BY <3>2, <4>1, <4>3, <4>5, <5>3, <5>4, RedemptionAssumption
        <5>6. r[i][lot] = [amount |-> t, left |-> insert(SubSeq(troves, i + 1, Len(troves)), Rest(trove, lot))]
          <6>1. r[i] = RedeemAt(troves, t, k, limit, r[i + 1], i)
            BY <1>6
          <6> QED
            BY <4>1, <5>1, <5>5, <6>1 DEF trove, RedeemAt, Ends, Rest
        <5>7. r[i][lot].amount = t
          BY <5>6
        <5> QED
          BY <4>3, <5>7
      <4> QED
        BY <4>4, <4>5
    <3> QED
      BY <3>3, <3>4
  <2> QED
    BY <2>1, <2>2
<1>10. 1 \in T
  <2>1. N + 1 \in T
    <3>1. N + 1 \in 1 .. N + 1 /\ N + 1 \notin 1 .. N
      BY <1>1
    <3> HIDE DEF T
    <3> QED
      BY <1>9, <3>1
  <2>2. \A i \in 1 .. N : i + 1 \in T => i \in T
    <3>1. 1 .. N \subseteq 1 .. N + 1
      BY <1>1
    <3> HIDE DEF T
    <3> QED
      BY <1>9, <3>1
  <2> HIDE DEF T
  <2> QED
    BY <1>1, <2>1, <2>2, DownInduction
<1>11. r[1][t].amount = t
  <2>1. r[1][t - (wanted - wanted)].amount = t
    BY <1>1, <1>10
  <2> HIDE DEF t
  <2> QED
    BY <1>5, <2>1
<1> QED
  BY <1>3, <1>7, <1>11

LEMMA LeftAfter ==
    ASSUME NEW t \in Int, NEW min \in Nat, NEW wanted \in Int, NEW rem \in Int, NEW n \in Int,
           t >= wanted - (rem - n)
    PROVE  /\ (t + min) - (wanted - rem) - n \in Nat
           /\ (t + min) - (wanted - (rem - n)) = (t + min) - (wanted - rem) - n
<1>1. /\ (t + min) - (wanted - rem) - n \in Int
      /\ (t + min) - (wanted - rem) - n >= 0
  OBVIOUS
<1> QED
  BY <1>1

\* The minimum more closes the last Trove as well, if its debt is there and its
\* turn comes.
LEMMA IncreasedIsRedeemed ==
    ASSUME NEW troves \in Seq(OpenTrove), NEW wanted \in Nat, NEW limit \in Nat, NEW k,
           limit >= RedeemMaxIterations, Len(troves) <= RedeemMaxIterations,
           getRedemptionHints(troves, wanted).truncated < wanted,
           getRedemptionHints(troves, wanted).truncated + HCHF_MINIMUM_NET_DEBT
             <= debtOf(troves) - RESERVE * Len(troves)
    PROVE  LET a == getRedemptionHints(troves, wanted).truncated + HCHF_MINIMUM_NET_DEBT
           IN  redeemed(troves, a, k, limit).amount = a
<1> DEFINE N == Len(troves)
           min == HCHF_MINIMUM_NET_DEBT
           g == HintsOf(troves, wanted)
           t == g[1][wanted].truncated
           a == t + min
           r == RedeemsOf(troves, a, k, limit)
           Fits(i, rem) == NetOf(troves, i - 1) + (t - (wanted - rem)) + min <= NetOf(troves, N)
           T == {i \in 1 .. N + 1 : \A rem \in 0 .. wanted :
                   g[i][rem].truncated = t /\ Fits(i, rem) => r[i][a - (wanted - rem)].amount = a}
<1>1. /\ N \in Nat /\ 1 \in 1 .. N + 1 /\ wanted \in 0 .. wanted /\ RedeemMaxIterations \in Nat
      /\ min \in Nat
  BY RedemptionAssumption
<1>2. \A i \in 1 .. N + 1 : g[i] \in Hinting(wanted) /\ g[i] = HintAt(troves, wanted, g[i + 1], i)
  BY HintsAre
<1>3. getRedemptionHints(troves, wanted).truncated = t
  BY HintsAre
<1>4. ASSUME NEW i \in 1 .. N + 1, NEW rem \in 0 .. wanted
      PROVE  g[i][rem].truncated \in wanted - rem .. wanted
  BY <1>2 DEF Hinting
<1> HIDE DEF g
<1>5. t \in 0 .. wanted /\ t < wanted /\ a \in Nat
  BY <1>1, <1>3, <1>4
<1>6. /\ redeemed(troves, a, k, limit) = r[1][a]
      /\ \A i \in 1 .. N + 1 : r[i] = RedeemAt(troves, a, k, limit, r[i + 1], i)
  <2> HIDE DEF a
  <2> QED
    BY <1>5, RedeemsAre
<1>n. /\ \A i \in 0 .. N : NetOf(troves, i) \in Int
      /\ \A i \in 1 .. N : NetOf(troves, i) = NetOf(troves, i - 1) + troves[i].net
      /\ NetOf(troves, 0) = 0
      /\ a <= NetOf(troves, N)
  <2>1. NetOf(troves, 0) = 0
    BY DebtsAre, DecimalAssumption DEF NetOf
  <2> QED
    BY <2>1, <1>3, NetsAre
<1> HIDE DEF r, t
<1>8. ASSUME NEW i \in 1 .. N + 1 PROVE r[i][0].amount = a
  <2>1. Ends(troves, i, limit, 0) /\ 0 \in Nat
    BY DEF Ends
  <2>2. r[i][0] = [amount |-> a - 0, left |-> SubSeq(troves, i, Len(troves))]
    <3>1. r[i] = RedeemAt(troves, a, k, limit, r[i + 1], i)
      BY <1>6
    <3> HIDE DEF a
    <3> QED
      BY <2>1, <3>1 DEF RedeemAt, Ends
  <2> HIDE DEF a
  <2> QED
    BY <1>5, <2>2
<1>9. ASSUME NEW i \in 1 .. N + 1, i \in 1 .. N => i + 1 \in T PROVE i \in T
  <2> SUFFICES ASSUME NEW rem \in 0 .. wanted, g[i][rem].truncated = t, Fits(i, rem)
               PROVE  r[i][a - (wanted - rem)].amount = a
    OBVIOUS
  <2> DEFINE left == a - (wanted - rem)
  <2>0. t \in wanted - rem .. wanted /\ left \in Nat
    <3>1. t \in wanted - rem .. wanted
      BY <1>4
    <3> QED
      BY <1>1, <3>1
  <2>1. CASE Ends(troves, i, RedeemMaxIterations, rem)
    <3>1. g[i][rem] = [truncated |-> wanted - rem, nicr |-> 0]
      <4>1. g[i] = HintAt(troves, wanted, g[i + 1], i)
        BY <1>2
      <4> QED
        BY <2>1, <4>1 DEF HintAt, Ends
    <3>2. t = wanted - rem
      BY <3>1
    <3>3. i = N + 1
      BY <1>1, <1>5, <2>1, <3>2 DEF Ends
    <3>4. min = 0
      BY <1>1, <1>n, <3>2, <3>3
    <3> QED
      BY <1>8, <3>2, <3>4
  <2>2. ASSUME ~Ends(troves, i, RedeemMaxIterations, rem)
        PROVE  r[i][left].amount = a
    <3> DEFINE trove == troves[i]
               n == trove.net
    <3>1. i \in 1 .. N /\ i <= limit
      BY <1>1, <2>2 DEF Ends
    <3>2. trove \in OpenTrove /\ n \in Nat /\ i + 1 \in 1 .. N + 1
      BY <3>1, NetsNat
    <3> HIDE DEF trove
    <3>3. CASE n <= rem
      <4>1. g[i][rem] = g[i + 1][rem - n] /\ rem - n \in 0 .. wanted
        BY <1>2, <2>2, <3>2, <3>3, HintCloses DEF trove
      <4>2. g[i + 1][rem - n].truncated = t
        BY <4>1
      <4>3. Fits(i + 1, rem - n)
        <5>1. NetOf(troves, i) = NetOf(troves, i - 1) + n /\ NetOf(troves, i - 1) \in Int
              /\ NetOf(troves, i + 1 - 1) = NetOf(troves, i)
          BY <1>n, <3>1 DEF trove
        <5> DEFINE p == NetOf(troves, i - 1)
                   q == NetOf(troves, i)
                   m == NetOf(troves, N)
        <5>2. m \in Int /\ t \in Int /\ rem \in Int /\ wanted \in Int /\ min \in Int
          BY <1>1, <1>5, <1>n
        <5>3. q = p + n /\ p \in Int /\ q \in Int
          BY <3>2, <5>1
        <5>f. p + (t - (wanted - rem)) + min <= m
          BY <5>2, <5>3
        <5>4. q + (t - (wanted - (rem - n))) + min = p + (t - (wanted - rem)) + min
          <6> HIDE DEF p, q, m, n
          <6> QED
            BY <3>2, <5>2, <5>3
        <5>5. q + (t - (wanted - (rem - n))) + min <= m
          <6> HIDE DEF p, q, m
          <6> QED
            BY <3>2, <5>f, <5>2, <5>3, <5>4
        <5>6. NetOf(troves, i + 1 - 1) = q
          BY <5>1
        <5> HIDE DEF p, q, m
        <5> QED
          BY <5>5, <5>6 DEF m
      <4>4. r[i + 1][a - (wanted - (rem - n))].amount = a
        BY <1>9, <3>1, <4>1, <4>2, <4>3 DEF T
      <4>5. left - n \in Nat /\ a - (wanted - (rem - n)) = left - n
        <5>1. t \in wanted - (rem - n) .. wanted
          BY <1>4, <3>2, <4>1, <4>2
        <5>2. /\ t \in Int /\ rem \in Int /\ wanted \in Int /\ min \in Nat /\ n \in Nat
              /\ t >= wanted - (rem - n)
          BY <1>1, <1>5, <3>2, <5>1
        <5> HIDE DEF n, min
        <5> QED
          BY <5>2, LeftAfter
      <4>6. CASE left = 0
        BY <1>8, <4>6
      <4>7. CASE left # 0
        <5>1. ~Ends(troves, i, limit, left) /\ left \in Nat
          BY <1>1, <2>0, <3>1, <4>7 DEF Ends
        <5>2. Least(left, n) = n
          BY <2>0, <3>2, <4>5 DEF Least
        <5>3. Rest(trove, left).net = 0
          BY <3>2, <5>2, AfterIs DEF Rest
        <5> HIDE DEF left
        <5>4. r[i][left] = r[i + 1][left - n]
          BY <1>6, <5>1, <5>2, <5>3, RedeemCloses DEF trove
        <5> QED
          BY <4>4, <4>5, <5>4
      <4> QED
        BY <4>6, <4>7
    <3>4. CASE ~(n <= rem)
      <4> DEFINE lot == LotOf(trove, rem)
      <4>1. /\ lot \in Nat /\ lot < n /\ lot <= rem /\ (lot < rem => lot + min = n)
        BY <3>2, <3>4, LotIs
      <4>2. g[i][rem].truncated = wanted - rem + lot
        <5>1. g[i] = HintAt(troves, wanted, g[i + 1], i) /\ rem \in Nat
          BY <1>2
        <5> QED
          BY <2>2, <3>4, <5>1 DEF trove, HintAt, Ends, LotOf
      <4> HIDE DEF lot
      <4>3. left = n /\ n # 0
        <5>1. t = wanted - rem + lot /\ rem \in Nat /\ t \in Nat
          BY <1>5, <4>2
        <5>2. lot < rem
          BY <1>5, <4>1, <5>1
        <5> HIDE DEF n
        <5>3. (t + min) - (wanted - rem) = lot + min
          BY <1>1, <4>1, <5>1
        <5>4. lot + min = n
          BY <4>1, <5>2
        <5>5. lot \in Nat /\ lot < n
          BY <4>1
        <5>6. left = n
          BY <5>3, <5>4
        <5>7. n # 0
          BY <3>2, <5>5
        <5> QED
          BY <5>6, <5>7
      <4>4. ~Ends(troves, i, limit, n)
        BY <1>1, <3>1, <4>3 DEF Ends
      <4>5. Least(n, n) = n /\ n - n = 0
        BY <3>2 DEF Least
      <4>6. Rest(trove, n).net = 0
        BY <3>2, <4>5, AfterIs DEF Rest
      <4>7. r[i][n] = r[i + 1][0]
        BY <1>6, <3>1, <3>2, <4>4, <4>5, <4>6, RedeemCloses DEF trove
      <4> QED
        BY <1>8, <3>2, <4>3, <4>7
    <3> QED
      BY <3>3, <3>4
  <2> QED
    BY <2>1, <2>2
<1>10. 1 \in T
  <2>1. N + 1 \in T
    <3>1. N + 1 \in 1 .. N + 1 /\ N + 1 \notin 1 .. N
      BY <1>1
    <3> HIDE DEF T
    <3> QED
      BY <1>9, <3>1
  <2>2. \A i \in 1 .. N : i + 1 \in T => i \in T
    <3>1. 1 .. N \subseteq 1 .. N + 1
      BY <1>1
    <3> HIDE DEF T
    <3> QED
      BY <1>9, <3>1
  <2> HIDE DEF T
  <2> QED
    BY <1>1, <2>1, <2>2, DownInduction
<1>11. r[1][a].amount = a
  <2>1. Fits(1, wanted) /\ g[1][wanted].truncated = t
    BY <1>1, <1>5, <1>n DEF t
  <2>2. r[1][a - (wanted - wanted)].amount = a
    BY <1>1, <1>10, <2>1
  <2> HIDE DEF a
  <2> QED
    BY <1>5, <2>2
<1> QED
  BY <1>3, <1>6, <1>11

-------------------------------------------------------------------------------
(* The states of the contracts.                                              *)

State == [troves : Seq(OpenTrove), baseRate : Nat, lastFeeOperationTime : Nat, now : Nat]
ChainInv == chain \in Seq(State) /\ Len(chain) >= 1

LEMMA StateIs ==
    ASSUME NEW c \in State
    PROVE  /\ c.troves \in Seq(OpenTrove) /\ c.baseRate \in Nat
           /\ c.lastFeeOperationTime \in Nat /\ c.now \in Nat
           /\ safe(c.troves) \in Seq(OpenTrove) /\ risky(c.troves) \in Seq(OpenTrove)
           /\ debtOf(c.troves) \in Nat
<1>1. /\ c.troves \in Seq(OpenTrove) /\ c.baseRate \in Nat
      /\ c.lastFeeOperationTime \in Nat /\ c.now \in Nat
  BY DEF State
<1> QED
  BY <1>1, ListsOpen, DebtNat

LEMMA FeesAtType ==
    ASSUME NEW rate \in Nat, NEW last \in Nat, NEW time \in Nat
    PROVE  feesAt(rate, last, time) \in FeesRecords
BY DEF feesAt, MakeFees, FeesRecords

LEMMA FeesOfType == ASSUME NEW c \in State PROVE feesOf(c) \in FeesRecords
  BY StateIs, FeesAtType DEF feesOf

LEMMA RateOfNat == ASSUME NEW c \in State, NEW wanted \in Nat PROVE rateOf(c, wanted) \in 0 .. DIGITS
<1>1. Div(wanted, debtOf(c.troves)) \in Nat
  BY StateIs, DecimalNat
<1> QED
  BY <1>1, FeesOfType, RateNat DEF rateOf

\* What is redeemed, and what is left.
LEMMA RedeemedType ==
    ASSUME NEW troves \in Seq(OpenTrove), NEW wanted \in Nat, NEW k, NEW limit
    PROVE  /\ redeemed(troves, wanted, k, limit).amount \in 0 .. wanted
           /\ redeemed(troves, wanted, k, limit).left \in Seq(OpenTrove)
<1> DEFINE r == redeemed(troves, wanted, k, limit)
<1>1. PICK f \in Redeeming(wanted) : r = f[wanted]
  <2>1. 1 \in 1 .. Len(troves) + 1
    OBVIOUS
  <2> QED
    BY <2>1, RedeemsAre
<1>2. r \in RedeemRecords /\ r.amount \in wanted - wanted .. wanted
  BY <1>1 DEF Redeeming
<1> QED
  BY <1>2 DEF RedeemRecords

LEMMA HintsType ==
    ASSUME NEW troves \in Seq(OpenTrove), NEW wanted \in Nat
    PROVE  /\ getRedemptionHints(troves, wanted).truncated \in 0 .. wanted
           /\ getRedemptionHints(troves, wanted).nicr \in Int
<1> DEFINE h == getRedemptionHints(troves, wanted)
<1>1. PICK f \in Hinting(wanted) : h = f[wanted]
  <2>1. 1 \in 1 .. Len(troves) + 1
    OBVIOUS
  <2> QED
    BY <2>1, HintsAre
<1>2. h \in HintRecords /\ h.truncated \in wanted - wanted .. wanted
  BY <1>1 DEF Hinting
<1> QED
  BY <1>2 DEF HintRecords

LEMMA AfterRedemptionState ==
    ASSUME NEW c \in State, NEW r, r.amount \in Nat, r.left \in Seq(OpenTrove)
    PROVE  afterRedemption(c, r) \in State
<1> DEFINE troves == risky(c.troves) \o r.left
           rate == Least(baseRate(feesOf(c)) + Div(Div(r.amount, debtOf(c.troves)), beta), DIGITS)
           last == IF c.now - c.lastFeeOperationTime >= MINUTE THEN c.now ELSE c.lastFeeOperationTime
<1>1. troves \in Seq(OpenTrove)
  BY StateIs
<1>2. rate \in Nat
  <2>1. baseRate(feesOf(c)) \in Nat /\ DIGITS \in Nat /\ beta \in Nat
    BY FeesOfType, BaseRateNat, DecimalAssumption, FeesAssumption
  <2>2. Div(Div(r.amount, debtOf(c.troves)), beta) \in Nat
    BY <2>1, StateIs, DecimalNat
  <2> QED
    BY <2>1, <2>2 DEF Least
<1>3. last \in Nat
  BY StateIs
<1>4. afterRedemption(c, r) = [c EXCEPT !.troves = troves, !.baseRate = rate, !.lastFeeOperationTime = last]
  BY DEF afterRedemption, State
<1> HIDE DEF troves, rate, last
<1> QED
  BY <1>1, <1>2, <1>3, <1>4 DEF State

LEMMA ChainGrows ==
    ASSUME ChainInv, NEW c \in State, chain' = Append(chain, c)
    PROVE  /\ ChainInv' /\ Len(chain') = Len(chain) + 1
           /\ \A i \in 1 .. Len(chain) : chain'[i] = chain[i]
BY DEF ChainInv

\* The chain keeps its states.
ChainKept ==
    /\ ChainInv' /\ Len(chain') >= Len(chain)
    /\ \A i \in 1 .. Len(chain) : chain'[i] = chain[i]

LEMMA ChainStays == ASSUME ChainInv, UNCHANGED chain PROVE ChainKept
  BY DEF ChainInv, ChainKept

LEMMA MovesKeeps == ASSUME ChainInv, NEW c \in State, Moves(c) PROVE ChainKept
<1>1. chain' = Append(chain, c)
  BY DEF Moves
<1>2. Len(chain) \in Nat
  BY DEF ChainInv
<1> QED
  BY <1>1, <1>2, ChainGrows DEF ChainKept

LEMMA HeadState == ASSUME ChainInv PROVE head \in State
  BY DEF ChainInv, head

LEMMA OthersRedeemKeeps ==
    ASSUME ChainInv, NEW wanted \in Amount, OthersRedeem(wanted) PROVE ChainKept
<1> DEFINE troves == safe(head.troves)
           hints == getRedemptionHints(troves, wanted)
           r == redeemed(troves, hints.truncated, hints.nicr, RedeemMaxIterations)
<1>1. wanted \in Nat /\ troves \in Seq(OpenTrove)
  BY RedemptionAssumption, HeadState, StateIs
<1>2. hints.truncated \in Nat
  BY <1>1, HintsType
<1>3. r.amount \in Nat /\ r.left \in Seq(OpenTrove)
  <2> HIDE DEF troves, hints
  <2> QED
    BY <1>1, <1>2, RedeemedType
<1>4. Moves(afterRedemption(head, r))
  BY DEF OthersRedeem
<1> HIDE DEF r
<1>5. afterRedemption(head, r) \in State
  BY <1>3, HeadState, AfterRedemptionState
<1> QED
  BY <1>4, <1>5, MovesKeeps

LEMMA OthersOpenKeeps ==
    ASSUME ChainInv, NEW trove \in NewTrove, OthersOpen(trove) PROVE ChainKept
<1> DEFINE troves == risky(head.troves) \o insert(safe(head.troves), trove)
           c == [head EXCEPT !.troves = troves]
<1>1. head \in State /\ trove \in OpenTrove
  BY HeadState, RedemptionAssumption
<1>2. insert(safe(head.troves), trove) \in Seq(OpenTrove)
  BY <1>1, StateIs, InsertOpen
<1>3. troves \in Seq(OpenTrove)
  BY <1>1, <1>2, StateIs
<1>4. Moves(c)
  BY <1>1 DEF OthersOpen, State
<1> HIDE DEF troves
<1>5. c \in State
  BY <1>1, <1>3 DEF State
<1> QED
  BY <1>4, <1>5, MovesKeeps

LEMMA PriceMovesKeeps ==
    ASSUME ChainInv, NEW n \in 1 .. 2, PriceMoves(n) PROVE ChainKept
<1> DEFINE old == head.troves
           troves == [i \in DOMAIN old |-> [old[i] EXCEPT !.safe = i > n]]
           c == [head EXCEPT !.troves = troves]
<1>1. head \in State /\ old \in Seq(OpenTrove)
  BY HeadState, StateIs
<1>2. ASSUME NEW i \in 1 .. Len(old) PROVE [old[i] EXCEPT !.safe = i > n] \in OpenTrove
  <2>1. old[i] \in OpenTrove /\ (i > n) \in BOOLEAN
    BY <1>1
  <2> QED
    BY <2>1 DEF OpenTrove
<1>3. troves \in Seq(OpenTrove)
  <2>1. DOMAIN old = 1 .. Len(old) /\ Len(old) \in Nat
    BY <1>1
  <2>2. troves \in [1 .. Len(old) -> OpenTrove]
    <3> HIDE DEF old
    <3> QED
      BY <1>2, <2>1
  <2> HIDE DEF troves
  <2> QED
    BY <2>1, <2>2
<1>4. Moves(c)
  BY <1>1 DEF PriceMoves, State
<1> HIDE DEF troves
<1>5. c \in State
  BY <1>1, <1>3 DEF State
<1> QED
  BY <1>4, <1>5, MovesKeeps

LEMMA TimePassesKeeps == ASSUME ChainInv, TimePasses PROVE ChainKept
<1> DEFINE time == head.now + MINUTE
           c == [head EXCEPT !.now = time]
<1>1. head \in State /\ MINUTE \in Nat
  BY HeadState, FeesAssumption
<1>2. time \in Nat
  BY <1>1, StateIs
<1>3. Moves(c)
  BY <1>1 DEF TimePasses, State
<1> HIDE DEF time
<1>4. c \in State
  BY <1>1, <1>2 DEF State
<1> QED
  BY <1>3, <1>4, MovesKeeps

LEMMA LiquidateUpToKeeps ==
    ASSUME ChainInv, NEW n \in 1 .. 2, LiquidateUpTo(n) PROVE ChainKept
<1> DEFINE first == Least(n * DIGITS, Len(risky(head.troves)))
           troves == SubSeq(head.troves, first + 1, Len(head.troves))
           c == [head EXCEPT !.troves = troves]
<1>1. head \in State /\ head.troves \in Seq(OpenTrove) /\ risky(head.troves) \in Seq(OpenTrove)
  BY HeadState, StateIs
<1>2. first \in Nat
  <2>1. n \in Nat /\ DIGITS \in Nat
    BY DecimalAssumption
  <2>2. n * DIGITS \in Nat
    BY <2>1, ProductNat
  <2> QED
    BY <1>1, <2>2 DEF Least
<1>3. troves \in Seq(OpenTrove)
  <2>1. first + 1 \in Nat \ {0} /\ Len(head.troves) \in 0 .. Len(head.troves)
    BY <1>1, <1>2
  <2> HIDE DEF first
  <2> QED
    BY <1>1, <2>1, PartOf
<1>4. Moves(c)
  <2>1. Hashgraph!populateLiquidateUpTo(n).functionParameters[1][2] = n * DIGITS
    BY DEF Hashgraph!populateLiquidateUpTo, Hashgraph!TypedContractExecuteTransaction, Hashgraph!uint256
  <2> QED
    BY <1>1, <2>1 DEF LiquidateUpTo, State
<1> HIDE DEF troves
<1>5. c \in State
  BY <1>1, <1>3 DEF State
<1> QED
  BY <1>4, <1>5, MovesKeeps

-------------------------------------------------------------------------------
(* A redemption, from its reads to the contract.                             *)

LEMMA SameSquare == Hashgraph!square = square
BY DEF square, Hashgraph!square, roundedMul, Hashgraph!roundedMul

LEMMA SameBaseRate == ASSUME NEW fees PROVE Hashgraph!baseRate(fees) = baseRate(fees)
<1>1. \A x, n : Hashgraph!pow(x, n) = pow(x, n)
  BY SameSquare DEF pow, Hashgraph!pow
<1> QED
  BY <1>1 DEF baseRate, Hashgraph!baseRate, Most, Hashgraph!Most, Mul, Hashgraph!Mul

\* lib-hashgraph computes the rate as the form does.
LEMMA SameRate ==
    ASSUME NEW fees, NEW fraction
    PROVE  Hashgraph!redemptionRate(fees, fraction) = redemptionRate(fees, fraction)
BY SameBaseRate DEF redemptionRate, Hashgraph!redemptionRate, Least, Hashgraph!Least, Div, Hashgraph!Div

\* The rate that is accepted if none is given.
AcceptedRate(fees, debt, wanted) ==
    Least(redemptionRate(fees, Div(wanted, debt)) + RedemptionTolerance, DIGITS)

arg(redemption, i) == redemption.rawPopulatedTransaction.functionParameters[i][2]

\* What is in a populated redemption.
LEMMA PopulationIs ==
    ASSUME NEW reads, NEW attempted, NEW max, NEW truncated, NEW partialHints
    PROVE  LET r == Hashgraph!populateRedemption(reads, attempted, max, truncated, partialHints)
           IN  /\ r.reads = reads /\ r.redeemableHCHFAmount = truncated /\ r.maxRedemptionRate = max
               /\ arg(r, 1) = truncated /\ arg(r, 5) = partialHints.nicr
               /\ arg(r, 6) = RedeemMaxIterations * DIGITS
               /\ arg(r, 7) = IF max # NONE THEN max ELSE AcceptedRate(reads.fees, reads.total.debt, truncated)
<1> DEFINE r == Hashgraph!populateRedemption(reads, attempted, max, truncated, partialHints)
           args == r.rawPopulatedTransaction.functionParameters
<1>1. r.reads = reads /\ r.redeemableHCHFAmount = truncated /\ r.maxRedemptionRate = max
  BY DEF Hashgraph!populateRedemption
<1>2. args = <<Hashgraph!uint256(truncated), Hashgraph!address(reads.firstRedemptionHint),
               Hashgraph!address(partialHints.upper), Hashgraph!address(partialHints.lower),
               Hashgraph!uint256(partialHints.nicr), Hashgraph!uint256(RedeemMaxIterations * DIGITS),
               Hashgraph!uint256(IF max # NONE THEN max
                   ELSE Hashgraph!defaultMaxRedemptionRate(reads.fees, reads.total, truncated))>>
  BY DEF Hashgraph!populateRedemption, Hashgraph!TypedContractExecuteTransaction
<1>3. Hashgraph!defaultMaxRedemptionRate(reads.fees, reads.total, truncated) =
        AcceptedRate(reads.fees, reads.total.debt, truncated)
  BY SameRate DEF Hashgraph!defaultMaxRedemptionRate, AcceptedRate, Least, Hashgraph!Least, Div, Hashgraph!Div
<1>4. /\ args[1][2] = truncated /\ args[5][2] = partialHints.nicr
      /\ args[6][2] = RedeemMaxIterations * DIGITS
      /\ args[7][2] = IF max # NONE THEN max
                      ELSE Hashgraph!defaultMaxRedemptionRate(reads.fees, reads.total, truncated)
  <2> HIDE DEF args
  <2> QED
    BY <1>2 DEF Hashgraph!uint256
<1> QED
  BY <1>1, <1>3, <1>4 DEF arg

ReadsOK(reads) ==
    /\ reads.fees \in FeesRecords /\ reads.total.debt \in Nat
    /\ reads.truncatedHCHFamount \in Nat \ {0}

\* What is read of one state.
ReadOf(reads, wanted, c) ==
    /\ reads.fees = feesOf(c) /\ reads.total.debt = debtOf(c.troves)
    /\ reads.truncatedHCHFamount = getRedemptionHints(safe(c.troves), wanted).truncated
    /\ reads.partialHints.nicr = getRedemptionHints(safe(c.troves), wanted).nicr

Original(redemption, reads, given, wanted) ==
    redemption = Hashgraph!populateRedemption(reads, wanted, given, reads.truncatedHCHFamount, reads.partialHints)
Increased(redemption, reads, given, wanted) ==
    /\ reads.truncatedHCHFamount < wanted
    /\ redemption = Hashgraph!populateRedemption(reads, reads.truncatedHCHFamount + HCHF_MINIMUM_NET_DEBT,
                      given, reads.truncatedHCHFamount + HCHF_MINIMUM_NET_DEBT, Hashgraph!noPartialHints)

Wants(p, wanted) ==
    /\ Original(p.redemption, p.redemption.reads, p.given, wanted)
       \/ Increased(p.redemption, p.redemption.reads, p.given, wanted)
    /\ p.readAt # 0 => ReadOf(p.redemption.reads, wanted, chain[p.readAt])

\* A populated redemption is the one of what was read, or that one increased,
\* and its maximum is the one given last.
PopulatedOK(p) ==
    /\ DOMAIN p = {"pc", "given", "redemption", "readAt"}
    /\ p.given \in MaxRate \cup {NONE}
    /\ p.readAt \in 0 .. Len(chain)
    /\ ReadsOK(p.redemption.reads)
    /\ \E wanted \in Nat : Wants(p, wanted)

TxInv ==
    /\ tx.pc \in {"idle", "reading", "populated", "executed", "reverted"}
    /\ tx.pc = "reading" =>
         tx.amount \in Nat /\ tx.given \in MaxRate \cup {NONE} /\ tx.from \in 1 .. Len(chain)
    /\ tx.pc = "populated" => PopulatedOK(tx)
    /\ tx.pc \in {"executed", "reverted"} => tx.version \in 1 .. Len(chain)
    /\ PaysAtMost
    /\ RedeemsWhatIsShown

LEMMA NoTxOK == ASSUME tx' = NoTx PROVE TxInv'
BY DEF NoTx, TxInv, PaysAtMost, RedeemsWhatIsShown

LEMMA ReadsAre ==
    ASSUME NEW fees, NEW t, NEW h
    PROVE  LET r == Reads(fees, t, h)
               hints == getRedemptionHints(safe(chain[h].troves), tx.amount)
           IN  /\ r.fees = fees /\ r.total.debt = debtOf(chain[t].troves)
               /\ r.truncatedHCHFamount = hints.truncated
               /\ r.partialHints.nicr = hints.nicr
<1> DEFINE hints == getRedemptionHints(safe(chain[h].troves), tx.amount)
           partial == [Hashgraph!noPartialHints EXCEPT !.nicr = hints.nicr]
<1>1. partial.nicr = hints.nicr
  BY DEF Hashgraph!noPartialHints
<1> HIDE DEF partial
<1>2. Reads(fees, t, h).partialHints = partial
  BY DEF Reads, partial
<1> QED
  BY <1>1, <1>2 DEF Reads

\* Steps that leave the redemption as it is.
LEMMA TxStays ==
    ASSUME ChainInv, TxInv, ChainKept, UNCHANGED tx PROVE TxInv'
<1>1. Len(chain) \in Nat /\ Len(chain') \in Nat
  BY DEF ChainInv, ChainKept
<1>2. 1 .. Len(chain) \subseteq 1 .. Len(chain') /\ 0 .. Len(chain) \subseteq 0 .. Len(chain')
  BY <1>1 DEF ChainKept
<1>3. CASE tx.pc = "populated"
  <2> DEFINE p == tx
  <2>1. PopulatedOK(tx)
    BY <1>3 DEF TxInv
  <2>2. PICK wanted \in Nat : Wants(tx, wanted)
    BY <2>1 DEF PopulatedOK
  <2>3. tx.readAt # 0 => chain'[tx.readAt] = chain[tx.readAt]
    BY <1>1, <2>1 DEF PopulatedOK, ChainKept
  <2>4. Wants(tx, wanted)'
    BY <2>2, <2>3 DEF Wants, ReadOf, feesOf
  <2>5. PopulatedOK(tx)'
    BY <1>2, <2>1, <2>4 DEF PopulatedOK
  <2> QED
    BY <1>3, <2>5 DEF TxInv, PaysAtMost, RedeemsWhatIsShown
<1>4. CASE tx.pc = "reading"
  BY <1>2, <1>4 DEF TxInv, PaysAtMost, RedeemsWhatIsShown
<1>5. CASE tx.pc \in {"executed", "reverted"}
  <2>1. tx.version \in 1 .. Len(chain)
    BY <1>5 DEF TxInv
  <2>2. chain'[tx.version] = chain[tx.version]
    BY <2>1 DEF ChainKept
  <2>3. RedeemsWhatIsShown'
    BY <2>2 DEF TxInv, RedeemsWhatIsShown
  <2>4. PaysAtMost'
    BY DEF TxInv, PaysAtMost
  <2> QED
    BY <1>2, <1>5, <2>1, <2>3, <2>4 DEF TxInv
<1>6. CASE tx.pc = "idle"
  BY <1>6 DEF TxInv, PaysAtMost, RedeemsWhatIsShown
<1> QED
  BY <1>3, <1>4, <1>5, <1>6 DEF TxInv

LEMMA RedeemTx ==
    ASSUME ChainInv, NEW wanted \in Amount \ {0}, NEW max \in MaxRate \cup {NONE}, Redeem(wanted, max)
    PROVE  TxInv'
<1>1. /\ tx' = [pc |-> "reading", amount |-> wanted, given |-> max, from |-> Len(chain)]
      /\ UNCHANGED chain
  BY DEF Redeem
<1>2. wanted \in Nat
  BY RedemptionAssumption
<1>3. Len(chain) \in 1 .. Len(chain)
  BY DEF ChainInv
<1> QED
  BY <1>1, <1>2, <1>3 DEF TxInv, PaysAtMost, RedeemsWhatIsShown

LEMMA PopulateTx == ASSUME ChainInv, TxInv, Populate PROVE TxInv'
<1>1. /\ tx.amount \in Nat /\ tx.given \in MaxRate \cup {NONE} /\ tx.from \in 1 .. Len(chain)
      /\ Len(chain) \in Nat
  BY DEF Populate, TxInv, ChainInv
<1>2. PICK fees \in FeesRead, t \in tx.from .. Len(chain), h \in tx.from .. Len(chain) :
        LET reads == Reads(fees, t, h)
            current == Reads(feesOf(head), Len(chain), Len(chain))
        IN  tx' = IF Hashgraph!CanRedeem(reads)
                  THEN [pc |-> "populated", given |-> tx.given,
                        redemption |-> Hashgraph!populateRedeemHCHF(tx.amount, tx.given, reads),
                        readAt |-> IF reads = current THEN Len(chain) ELSE 0]
                  ELSE NoTx
  BY DEF Populate
<1> DEFINE reads == Reads(fees, t, h)
           current == Reads(feesOf(head), Len(chain), Len(chain))
           redemption == Hashgraph!populateRedemption(reads, tx.amount, tx.given,
                           reads.truncatedHCHFamount, reads.partialHints)
           readAt == IF reads = current THEN Len(chain) ELSE 0
           new == [pc |-> "populated", given |-> tx.given, redemption |-> redemption, readAt |-> readAt]
<1>3. CASE ~Hashgraph!CanRedeem(reads)
  BY <1>2, <1>3, NoTxOK
<1>4. CASE Hashgraph!CanRedeem(reads)
  <2>1. Hashgraph!populateRedeemHCHF(tx.amount, tx.given, reads) = redemption
    <3>1. (IF tx.given # 0 THEN tx.given ELSE NONE) = tx.given
      BY <1>1, RedemptionAssumption
    <3> QED
      BY <3>1 DEF Hashgraph!populateRedeemHCHF
  <2>2. tx' = new
    BY <1>2, <1>4, <2>1
  <2>3. \A i \in tx.from .. Len(chain) : chain[i] \in State
    BY <1>1 DEF ChainInv
  <2>4. fees \in FeesRecords
    <3>1. PICK b \in tx.from .. Len(chain), l \in tx.from .. Len(chain), n \in tx.from .. Len(chain) :
            fees = feesAt(chain[b].baseRate, chain[l].lastFeeOperationTime, chain[n].now)
      BY DEF FeesRead
    <3> QED
      BY <2>3, <3>1, StateIs, FeesAtType
  <2>5. ReadsOK(reads)
    <3>1. chain[t] \in State /\ chain[h] \in State
      BY <2>3
    <3>2. reads.fees = fees /\ reads.total.debt = debtOf(chain[t].troves)
          /\ reads.truncatedHCHFamount = getRedemptionHints(safe(chain[h].troves), tx.amount).truncated
      BY ReadsAre
    <3>3. getRedemptionHints(safe(chain[h].troves), tx.amount).truncated \in Nat
      BY <1>1, <3>1, StateIs, HintsType
    <3> QED
      BY <1>4, <2>4, <3>1, <3>2, <3>3, StateIs DEF ReadsOK, Hashgraph!CanRedeem
  <2>6. readAt \in 0 .. Len(chain) /\ (readAt # 0 => readAt = Len(chain) /\ reads = current)
    BY <1>1
  <2>7. readAt # 0 => ReadOf(reads, tx.amount, chain[readAt])
    <3> SUFFICES ASSUME readAt # 0 PROVE ReadOf(reads, tx.amount, chain[readAt])
      OBVIOUS
    <3>1. reads = current /\ chain[readAt] = head
      BY <2>6 DEF head
    <3>2. /\ current.fees = feesOf(head) /\ current.total.debt = debtOf(chain[Len(chain)].troves)
          /\ LET hints == getRedemptionHints(safe(chain[Len(chain)].troves), tx.amount)
             IN  current.truncatedHCHFamount = hints.truncated /\ current.partialHints.nicr = hints.nicr
      BY ReadsAre
    <3> HIDE DEF reads, current, readAt
    <3> QED
      BY <3>1, <3>2 DEF ReadOf, head
  <2> HIDE DEF reads, current, readAt
  <2>8. redemption.reads = reads
    BY PopulationIs
  <2>9. Original(redemption, reads, tx.given, tx.amount)
    BY DEF Original
  <2> HIDE DEF redemption
  <2>10. /\ new.pc = "populated" /\ new.given = tx.given /\ new.redemption = redemption
         /\ new.readAt = readAt /\ DOMAIN new = {"pc", "given", "redemption", "readAt"}
    OBVIOUS
  <2> HIDE DEF new
  <2>11. UNCHANGED chain
    BY DEF Populate
  <2>12. Wants(new, tx.amount) /\ PopulatedOK(new)
    BY <1>1, <2>5, <2>6, <2>7, <2>8, <2>9, <2>10 DEF Wants, PopulatedOK
  <2>13. PopulatedOK(tx)'
    BY <2>2, <2>11, <2>12 DEF PopulatedOK, Wants, ReadOf
  <2> QED
    BY <2>2, <2>10, <2>13 DEF TxInv, PaysAtMost, RedeemsWhatIsShown
<1> QED
  BY <1>3, <1>4

LEMMA IncreaseTx ==
    ASSUME ChainInv, TxInv, NEW newMax \in MaxRate \cup {NONE}, Increase(newMax) PROVE TxInv'
<1>1. PopulatedOK(tx) /\ tx.pc = "populated" /\ UNCHANGED chain
  BY DEF Increase, TxInv
<1>2. PICK wanted \in Nat : Wants(tx, wanted)
  BY <1>1 DEF PopulatedOK
<1> DEFINE old == tx.redemption
           reads == old.reads
           truncated == reads.truncatedHCHFamount
           a == truncated + HCHF_MINIMUM_NET_DEBT
           given == IF newMax # NONE THEN newMax ELSE tx.given
           redemption == Hashgraph!populateRedemption(reads, a, given, a, Hashgraph!noPartialHints)
           new == [tx EXCEPT !.redemption = redemption, !.given = given]
<1>3. truncated \in Nat /\ a \in Nat
  BY <1>1, RedemptionAssumption DEF PopulatedOK, ReadsOK
\* Only the redemption that was populated first can be truncated.
<1>4. Original(old, reads, tx.given, wanted) /\ truncated < wanted
  <2>1. old.isTruncated
    BY DEF Increase
  <2>2. CASE Original(old, reads, tx.given, wanted)
    <3>1. old.isTruncated = (truncated < wanted)
      BY <2>2 DEF Original, Hashgraph!populateRedemption
    <3> QED
      BY <2>1, <2>2, <3>1
  <2>3. CASE Increased(old, reads, tx.given, wanted)
    <3>1. old.isTruncated = (a < a)
      BY <2>3 DEF Increased, Hashgraph!populateRedemption
    <3>2. ~(a < a)
      BY <1>3
    <3> QED
      BY <2>1, <3>1, <3>2
  <2> QED
    BY <1>2, <2>2, <2>3 DEF Wants
<1>5. old.redeemableHCHFAmount = truncated /\ old.maxRedemptionRate = tx.given
  BY <1>4, PopulationIs DEF Original
<1>6. Hashgraph!increaseAmountByMinimumNetDebt(old, newMax) = redemption
  <2>1. (IF newMax \notin {NONE, 0} THEN newMax ELSE tx.given) = given
    BY RedemptionAssumption
  <2> QED
    BY <1>5, <2>1 DEF Hashgraph!increaseAmountByMinimumNetDebt
<1>7. tx' = new
  BY <1>6 DEF Increase
<1>8. redemption.reads = reads
  BY PopulationIs
<1>9. Increased(redemption, reads, given, wanted)
  BY <1>4 DEF Increased
<1>10. given \in MaxRate \cup {NONE}
  BY <1>1 DEF PopulatedOK
<1> HIDE DEF redemption, given
<1>11. /\ new.pc = "populated" /\ new.given = given /\ new.redemption = redemption
       /\ new.readAt = tx.readAt /\ DOMAIN new = {"pc", "given", "redemption", "readAt"}
  BY <1>1 DEF PopulatedOK
<1> HIDE DEF new
<1>12. Wants(new, wanted) /\ PopulatedOK(new)
  BY <1>1, <1>2, <1>8, <1>9, <1>10, <1>11 DEF Wants, PopulatedOK
<1>13. PopulatedOK(tx)'
  BY <1>1, <1>7, <1>12 DEF PopulatedOK, Wants, ReadOf
<1> QED
  BY <1>7, <1>11, <1>13 DEF TxInv, PaysAtMost, RedeemsWhatIsShown

\* What the contract executes.
LEMMA CallOf ==
    ASSUME ChainInv, TxInv, tx.pc = "populated"
    PROVE  LET redemption == tx.redemption
               reads == redemption.reads
           IN  /\ redemption.redeemableHCHFAmount = arg(redemption, 1) /\ arg(redemption, 1) \in Nat \ {0}
               /\ arg(redemption, 6) \in Nat /\ arg(redemption, 6) >= RedeemMaxIterations
               /\ arg(redemption, 7) = IF tx.given # NONE THEN tx.given
                                       ELSE AcceptedRate(reads.fees, reads.total.debt, arg(redemption, 1))
<1>1. PopulatedOK(tx)
  BY DEF TxInv
<1>2. PICK wanted \in Nat : Wants(tx, wanted)
  BY <1>1 DEF PopulatedOK
<1> DEFINE redemption == tx.redemption
           reads == redemption.reads
           truncated == reads.truncatedHCHFamount
<1>3. truncated \in Nat \ {0} /\ truncated + HCHF_MINIMUM_NET_DEBT \in Nat \ {0}
  BY <1>1, RedemptionAssumption DEF PopulatedOK, ReadsOK
<1>4. PICK attempted, amountOf, partialHints :
        /\ redemption = Hashgraph!populateRedemption(reads, attempted, tx.given, amountOf, partialHints)
        /\ amountOf \in Nat \ {0}
  BY <1>2, <1>3 DEF Wants, Original, Increased
<1>5. RedeemMaxIterations * DIGITS \in Nat /\ RedeemMaxIterations * DIGITS >= RedeemMaxIterations
  <2>1. RedeemMaxIterations \in Nat /\ DIGITS \in Nat \ {0}
    BY RedemptionAssumption, DecimalAssumption
  <2>2. \A i \in Nat, d \in Nat \ {0} : i * d \in Nat /\ i * d >= i
    OBVIOUS
  <2> QED
    BY <2>1, <2>2
<1>6. /\ redemption.redeemableHCHFAmount = amountOf /\ arg(redemption, 1) = amountOf
      /\ arg(redemption, 6) = RedeemMaxIterations * DIGITS
      /\ arg(redemption, 7) = IF tx.given # NONE THEN tx.given
                              ELSE AcceptedRate(reads.fees, reads.total.debt, amountOf)
  <2> HIDE DEF reads
  <2> DEFINE x == Hashgraph!populateRedemption(reads, attempted, tx.given, amountOf, partialHints)
  <2>1. /\ x.redeemableHCHFAmount = amountOf /\ arg(x, 1) = amountOf
        /\ arg(x, 6) = RedeemMaxIterations * DIGITS
        /\ arg(x, 7) = IF tx.given # NONE THEN tx.given
                       ELSE AcceptedRate(reads.fees, reads.total.debt, amountOf)
    BY PopulationIs
  <2>2. redemption = x
    BY <1>4
  <2> HIDE DEF x
  <2> QED
    BY <2>1, <2>2
<1> QED
  BY <1>4, <1>5, <1>6

LEMMA AcceptedAtMost ==
    ASSUME NEW fees \in FeesRecords, NEW debt \in Nat, NEW wanted \in Nat, NEW rate \in 0 .. DIGITS
    PROVE  /\ rate <= AcceptedRate(fees, debt, wanted) =>
                rate <= RedemptionTolerance + redemptionRate(fees, Div(wanted, debt))
           /\ rate = redemptionRate(fees, Div(wanted, debt)) => rate <= AcceptedRate(fees, debt, wanted)
           /\ AcceptedRate(fees, debt, wanted) \in Nat
<1>1. redemptionRate(fees, Div(wanted, debt)) \in 0 .. DIGITS
  BY DecimalNat, RateNat
<1>2. DIGITS \in Nat /\ RedemptionTolerance \in Nat
  BY DecimalAssumption, RedemptionAssumption
<1> QED
  BY <1>1, <1>2 DEF AcceptedRate, Least

LEMMA ExecuteTx == ASSUME ChainInv, TxInv, Execute PROVE ChainKept /\ TxInv'
<1> DEFINE redemption == tx.redemption
           reads == redemption.reads
           wanted == arg(redemption, 1)
           troves == safe(head.troves)
           r == redeemed(troves, wanted, arg(redemption, 5), arg(redemption, 6))
           rate == rateOf(head, r.amount)
           n == Len(chain)
           reverted == [pc |-> "reverted", before |-> tx, version |-> n]
           executed == [pc |-> "executed", before |-> tx, version |-> n, amount |-> r.amount, rate |-> rate]
<1>1. tx.pc = "populated" /\ PopulatedOK(tx)
  BY DEF Execute, TxInv
<1>2. /\ redemption.redeemableHCHFAmount = wanted /\ wanted \in Nat \ {0}
      /\ arg(redemption, 6) \in Nat /\ arg(redemption, 6) >= RedeemMaxIterations
      /\ arg(redemption, 7) = IF tx.given # NONE THEN tx.given
                              ELSE AcceptedRate(reads.fees, reads.total.debt, wanted)
  BY <1>1, CallOf
<1>3. /\ IF r.amount = 0 \/ rate > arg(redemption, 7)
         THEN tx' = reverted /\ UNCHANGED chain
         ELSE tx' = executed /\ chain' = Append(chain, afterRedemption(head, r))
  BY DEF Execute, arg
<1>4. head \in State /\ troves \in Seq(OpenTrove) /\ head = chain[n] /\ n \in 1 .. Len(chain) /\ n \in Nat
  BY HeadState, StateIs DEF head, ChainInv
<1>5. r.amount \in 0 .. wanted /\ r.left \in Seq(OpenTrove)
  <2> HIDE DEF troves, wanted
  <2> QED
    BY <1>2, <1>4, RedeemedType
<1> HIDE DEF r, wanted
<1>6. rate \in 0 .. DIGITS
  <2>1. r.amount \in Nat
    BY <1>2, <1>5
  <2> QED
    BY <1>4, <2>1, RateOfNat
<1> HIDE DEF rate
<1>a. /\ rate <= AcceptedRate(reads.fees, reads.total.debt, wanted) =>
           rate <= RedemptionTolerance + redemptionRate(reads.fees, Div(wanted, reads.total.debt))
      /\ rate = redemptionRate(reads.fees, Div(wanted, reads.total.debt)) =>
           rate <= AcceptedRate(reads.fees, reads.total.debt, wanted)
      /\ AcceptedRate(reads.fees, reads.total.debt, wanted) \in Nat
  <2>1. wanted \in Nat /\ reads.fees \in FeesRecords /\ reads.total.debt \in Nat
    BY <1>1, <1>2 DEF PopulatedOK, ReadsOK
  <2> HIDE DEF reads
  <2> QED
    BY <1>6, <2>1, AcceptedAtMost
<1>8. ChainKept /\ tx' \in {reverted, executed}
  <2>1. CASE r.amount = 0 \/ rate > arg(redemption, 7)
    BY <1>3, <2>1, ChainStays
  <2>2. CASE ~(r.amount = 0 \/ rate > arg(redemption, 7))
    <3>1. afterRedemption(head, r) \in State
      BY <1>2, <1>4, <1>5, AfterRedemptionState
    <3>2. chain' = Append(chain, afterRedemption(head, r)) /\ tx' = executed
      BY <1>3, <2>2
    <3> QED
      BY <1>4, <3>1, <3>2, ChainGrows DEF ChainKept
  <2> QED
    BY <2>1, <2>2
<1>9. /\ tx'.pc \in {"reverted", "executed"} /\ tx'.before = tx /\ tx'.version = n
      /\ tx'.pc = "executed" => tx'.amount = r.amount /\ tx'.rate = rate
  BY <1>8
<1>10. tx'.pc = "executed" => rate <= arg(redemption, 7)
  <2> SUFFICES ASSUME rate > arg(redemption, 7) PROVE tx'.pc # "executed"
    <3>1. arg(redemption, 7) \in Int
      <4>1. tx.given \in MaxRate \cup {NONE}
        BY <1>1 DEF PopulatedOK
      <4>2. tx.given # NONE => tx.given \in Int
        <5>1. \A x \in MaxRate : x \in 1 .. DIGITS
          BY RedemptionAssumption
        <5>2. DIGITS \in Nat
          BY DecimalAssumption
        <5> QED
          BY <4>1, <5>1, <5>2
      <4> QED
        BY <1>2, <1>a, <4>2
    <3> HIDE DEF redemption
    <3> QED
      BY <1>6, <3>1
  <2>1. tx' = reverted
    BY <1>3
  <2> QED
    BY <2>1
<1>11. PaysAtMost'
  <2> SUFFICES ASSUME tx'.pc = "executed"
               PROVE  IF tx.given # NONE THEN rate <= tx.given
                      ELSE rate <= RedemptionTolerance + redemptionRate(reads.fees, Div(wanted, reads.total.debt))
    BY <1>2, <1>9 DEF PaysAtMost
  <2>1. CASE tx.given # NONE
    BY <1>2, <1>10, <2>1
  <2>2. CASE tx.given = NONE
    <3>1. rate <= AcceptedRate(reads.fees, reads.total.debt, wanted)
      BY <1>2, <1>10, <2>2
    <3> QED
      BY <1>2, <1>9, <1>a, <2>2, <3>1
  <2> QED
    BY <2>1, <2>2
<1>12. RedeemsWhatIsShown'
  <2>1. chain'[n] = head
    BY <1>4, <1>8 DEF ChainKept
  <2> SUFFICES ASSUME tx.readAt = n, tx.given = NONE,
                      \/ wanted = reads.truncatedHCHFamount
                      \/ wanted <= Redeemable(head) /\ Len(troves) <= RedeemMaxIterations
               PROVE  tx'.pc = "executed" /\ r.amount = wanted
    BY <1>2, <1>9, <2>1 DEF RedeemsWhatIsShown
  <2>2. PICK want \in Nat : Wants(tx, want)
    BY <1>1 DEF PopulatedOK
  <2> DEFINE hints == getRedemptionHints(troves, want)
  <2>3. /\ reads.fees = feesOf(head) /\ reads.total.debt = debtOf(head.troves)
        /\ reads.truncatedHCHFamount = hints.truncated /\ reads.partialHints.nicr = hints.nicr
    BY <1>4, <2>2 DEF Wants, ReadOf
  <2>4. r.amount = wanted
    <3>1. HCHF_MINIMUM_NET_DEBT \in Nat \ {0} /\ hints.truncated \in Nat
      BY <1>4, HintsType, RedemptionAssumption
    <3>2. CASE Original(redemption, reads, tx.given, want)
      <4>1. wanted = hints.truncated /\ arg(redemption, 5) = hints.nicr
        <5> DEFINE x == Hashgraph!populateRedemption(reads, want, tx.given, reads.truncatedHCHFamount, reads.partialHints)
        <5>1. arg(x, 1) = reads.truncatedHCHFamount /\ arg(x, 5) = reads.partialHints.nicr
          BY PopulationIs
        <5>2. redemption = x
          BY <3>2 DEF Original
        <5> HIDE DEF x
        <5> QED
          BY <2>3, <5>1, <5>2 DEF wanted
      <4> DEFINE limit == arg(redemption, 6)
      <4>2. r = redeemed(troves, hints.truncated, hints.nicr, limit) /\ limit \in Nat /\ limit >= RedeemMaxIterations
        BY <1>2, <4>1 DEF r
      <4> HIDE DEF troves, limit
      <4>3. redeemed(troves, hints.truncated, hints.nicr, limit).amount = hints.truncated
        BY <1>4, <4>2, ForeseenIsRedeemed
      <4> QED
        BY <4>1, <4>2, <4>3
    <3>3. CASE Increased(redemption, reads, tx.given, want)
      <4> DEFINE a == hints.truncated + HCHF_MINIMUM_NET_DEBT
                 limit == arg(redemption, 6)
                 k == arg(redemption, 5)
      <4>1. wanted = a /\ hints.truncated < want
        <5> DEFINE b == reads.truncatedHCHFamount + HCHF_MINIMUM_NET_DEBT
                   x == Hashgraph!populateRedemption(reads, b, tx.given, b, Hashgraph!noPartialHints)
        <5>1. arg(x, 1) = b
          <6> HIDE DEF b
          <6> QED
            BY PopulationIs
        <5>2. redemption = x /\ reads.truncatedHCHFamount < want
          BY <3>3 DEF Increased
        <5> HIDE DEF x
        <5> QED
          BY <2>3, <5>1, <5>2 DEF wanted
      <4>2. wanted # reads.truncatedHCHFamount
        BY <2>3, <3>1, <4>1
      <4>3. a <= debtOf(troves) - RESERVE * Len(troves) /\ Len(troves) <= RedeemMaxIterations
        BY <4>1, <4>2 DEF Redeemable
      <4>4. r = redeemed(troves, a, k, limit) /\ limit \in Nat /\ limit >= RedeemMaxIterations
        BY <1>2, <4>1 DEF r
      <4> HIDE DEF troves, limit, k
      <4>5. redeemed(troves, a, k, limit).amount = a
        BY <1>4, <4>1, <4>3, <4>4, IncreasedIsRedeemed
      <4> QED
        BY <4>1, <4>4, <4>5
    <3> QED
      BY <2>2, <3>2, <3>3 DEF Wants
  <2>5. rate = redemptionRate(reads.fees, Div(wanted, reads.total.debt))
    BY <2>3, <2>4 DEF rateOf, rate
  <2>6. rate <= arg(redemption, 7) /\ arg(redemption, 7) \in Nat
    BY <1>2, <1>a, <2>5
  <2>7. ~(rate > arg(redemption, 7)) /\ r.amount # 0
    <3>1. ~(rate > arg(redemption, 7))
      <4> HIDE DEF redemption
      <4> QED
        BY <1>6, <2>6
    <3> QED
      BY <1>2, <2>4, <3>1
  <2>8. tx' = executed
    BY <1>3, <2>7
  <2> QED
    BY <2>4, <2>8
<1>13. tx'.version \in 1 .. Len(chain')
  BY <1>4, <1>8, <1>9 DEF ChainKept, ChainInv
<1> QED
  BY <1>8, <1>9, <1>11, <1>12, <1>13 DEF TxInv

LEMMA RedeemInitially == Init => ChainInv /\ TxInv
<1> SUFFICES ASSUME Init PROVE ChainInv /\ TxInv
  OBVIOUS
<1>1. PICK troves \in InitialTroves :
        chain = <<[troves |-> troves, baseRate |-> 0, lastFeeOperationTime |-> 0, now |-> 0]>>
  BY DEF Init
<1>2. troves \in Seq(OpenTrove)
  BY RedemptionAssumption
<1>3. ChainInv
  BY <1>1, <1>2 DEF ChainInv, State
<1>4. tx.pc = "idle"
  BY DEF Init, NoTx
<1> QED
  BY <1>3, <1>4 DEF TxInv, PaysAtMost, RedeemsWhatIsShown

LEMMA RedeemNext == ChainInv /\ TxInv /\ [PagesNext]_allVars => (ChainInv /\ TxInv)'
<1> SUFFICES ASSUME ChainInv, TxInv, [PagesNext]_allVars PROVE ChainInv' /\ TxInv'
  OBVIOUS
<1> USE DEF formVars
<1>0. ASSUME UNCHANGED <<chain, tx>> PROVE ChainInv' /\ TxInv'
  BY <1>0, ChainStays, TxStays DEF ChainKept
<1>a. ASSUME ChainKept, UNCHANGED tx PROVE ChainInv' /\ TxInv'
  BY <1>a, TxStays DEF ChainKept
<1>b. ASSUME UNCHANGED chain, TxInv' PROVE ChainInv' /\ TxInv'
  BY <1>b, ChainStays DEF ChainKept
<1>1. CASE UNCHANGED vars \/ UNCHANGED allVars
  BY <1>0, <1>1 DEF vars, allVars
<1>2. ASSUME NEW a \in Amount, OthersRedeem(a) PROVE ChainInv' /\ TxInv'
  BY <1>a, <1>2, OthersRedeemKeeps DEF OthersRedeem
<1>3. ASSUME NEW a \in Amount, Type(a) PROVE ChainInv' /\ TxInv'
  BY <1>0, <1>3 DEF Type
<1>4. ASSUME NEW t \in NewTrove, OthersOpen(t) PROVE ChainInv' /\ TxInv'
  BY <1>a, <1>4, OthersOpenKeeps DEF OthersOpen
<1>5. ASSUME NEW n \in 1 .. 2, PriceMoves(n) PROVE ChainInv' /\ TxInv'
  BY <1>a, <1>5, PriceMovesKeeps DEF PriceMoves
<1>6. ASSUME NEW n \in 1 .. 2, LiquidateUpTo(n) PROVE ChainInv' /\ TxInv'
  BY <1>a, <1>6, LiquidateUpToKeeps DEF LiquidateUpTo
<1>7. ASSUME TimePasses PROVE ChainInv' /\ TxInv'
  BY <1>a, <1>7, TimePassesKeeps DEF TimePasses
<1>8. ASSUME NEW q \in Reading, RunEffect(q) \/ DetailsAnswered(q) \/ DetailsFail(q)
      PROVE  ChainInv' /\ TxInv'
  BY <1>0, <1>8 DEF RunEffect, DetailsAnswered, DetailsFail
<1>9. ASSUME NEW a \in Amount \ {0}, NEW rate \in MaxRate \cup {NONE}, Redeem(a, rate)
      PROVE  ChainInv' /\ TxInv'
  BY <1>b, <1>9, RedeemTx DEF Redeem
<1>10. ASSUME NEW rate \in MaxRate \cup {NONE}, Increase(rate) PROVE ChainInv' /\ TxInv'
  BY <1>b, <1>10, IncreaseTx DEF Increase
<1>11. ASSUME Populate PROVE ChainInv' /\ TxInv'
  BY <1>b, <1>11, PopulateTx DEF Populate
<1>12. ASSUME Rejected \/ Receipt PROVE ChainInv' /\ TxInv'
  BY <1>b, <1>12, NoTxOK DEF Rejected, Receipt
<1>13. ASSUME Execute PROVE ChainInv' /\ TxInv'
  BY <1>13, ExecuteTx DEF ChainKept
<1> QED
  BY <1>1, <1>2, <1>3, <1>4, <1>5, <1>6, <1>7, <1>8, <1>9, <1>10, <1>11, <1>12, <1>13
     DEF PagesNext, Next

\* A redemption of which the contracts have not moved on since it was read is
\* executed, and redeems the amount shown, for any list of Troves: the walk that
\* foresees it and the one that redeems end at the same Trove, also after the
\* minimum was added.
THEOREM WhatIsShownIsRedeemed == PagesSpec => []RedeemsWhatIsShown
<1>1. PagesInit => ChainInv /\ TxInv
  BY RedeemInitially DEF PagesInit
<1>2. TxInv => RedeemsWhatIsShown
  BY DEF TxInv
<1> QED
  BY <1>1, <1>2, RedeemNext, PTL DEF PagesSpec

\* The contract never charges more than the maximum that was given last, or than
\* what the reads lead to and the tolerance, however old or torn the reads.
THEOREM NeverPaysMore == PagesSpec => []PaysAtMost
<1>1. PagesInit => ChainInv /\ TxInv
  BY RedeemInitially DEF PagesInit
<1>2. TxInv => PaysAtMost
  BY DEF TxInv
<1> QED
  BY <1>1, <1>2, RedeemNext, PTL DEF PagesSpec

-------------------------------------------------------------------------------
(* The hints for a Trove's place in the list, which both libraries find.     *)

LEMMA DivideLess ==
    ASSUME NEW a \in Nat, NEW m \in Nat \ {0}, a < m
    PROVE  a \div m = 0 /\ a % m = a
OBVIOUS

LEMMA Divides ==
    ASSUME NEW a \in Nat, NEW m \in Nat \ {0}
    PROVE  a = m * (a \div m) + (a % m) /\ a \div m \in Nat /\ a % m \in 0 .. m - 1
<1>1. a \div m \in Nat /\ a % m \in 0 .. m - 1
  OBVIOUS
<1>2. a = m * (a \div m) + (a % m)
  OBVIOUS
<1> QED
  BY <1>1, <1>2

LEMMA Multiples ==
    ASSUME NEW m \in Nat \ {0}, NEW x \in Int, m * x < m, m * x > -m
    PROVE  x = 0
<1>1. ASSUME x >= 1 PROVE m * x >= m
  BY <1>1
<1>2. ASSUME x <= -1 PROVE m * x <= -m
  BY <1>2
<1> QED
  BY <1>1, <1>2

LEMMA DivideMore ==
    ASSUME NEW a \in Nat, NEW m \in Nat \ {0}, a >= m
    PROVE  /\ a \div m \in Nat \ {0} /\ a % m \in 0 .. m - 1
           /\ (a - m) \div m = a \div m - 1 /\ (a - m) % m = a % m
<1> DEFINE q == a \div m
           r == a % m
           p == (a - m) \div m
           s == (a - m) % m
<1>1. a = m * q + r /\ q \in Nat /\ r \in 0 .. m - 1
  BY Divides
<1>2. a - m = m * p + s /\ p \in Nat /\ s \in 0 .. m - 1
  <2>1. a - m \in Nat
    OBVIOUS
  <2> QED
    BY <2>1, Divides
<1> HIDE DEF q, r, p, s
<1>3. m * (q - p - 1) = m * q - m * p - m
  BY <1>1, <1>2
<1>4. m * q \in Int /\ m * p \in Int
  BY <1>1, <1>2
<1>5. m * (q - p - 1) = s - r
  BY <1>1, <1>2, <1>3, <1>4
<1>6. m * (q - p - 1) < m /\ m * (q - p - 1) > -m
  BY <1>1, <1>2, <1>5
<1>7. q - p - 1 = 0
  <2>1. q - p - 1 \in Int
    BY <1>1, <1>2
  <2> QED
    BY <1>6, <2>1, Multiples
<1>8. s = r
  BY <1>1, <1>2, <1>5, <1>7
<1> QED
  BY <1>1, <1>2, <1>7, <1>8 DEF q, r, p, s

\* generateTrials() of both libraries.
TrialsAt(f, total) ==
    IF total = 0 THEN <<>>
    ELSE <<Least(total, MaxTrialsAtOnce)>> \o f[total - Least(total, MaxTrialsAtOnce)]

LEMMA SmallerTrials ==
    ASSUME NEW n \in Nat, n # 0
    PROVE  Least(n, MaxTrialsAtOnce) \in Nat /\ n - Least(n, MaxTrialsAtOnce) \in 0 .. n - 1
<1>1. MaxTrialsAtOnce \in Nat \ {0}
  BY RedemptionAssumption
<1> QED
  BY <1>1 DEF Least

LEMMA TrialsAre ==
    \A n \in Nat : Hashgraph!trials[n] = TrialsAt(Hashgraph!trials, n)
<1> DEFINE S == Seq(Nat)
           step == [n \in Nat |-> [f \in [Nat -> S] |-> TrialsAt(f, n)]]
<1>1. <<>> \in S
  OBVIOUS
<1>2. step \in [Nat -> [[Nat -> S] -> S]]
  <2>1. ASSUME NEW n \in Nat, NEW f \in [Nat -> S] PROVE TrialsAt(f, n) \in S
    <3>1. CASE n = 0
      BY <3>1 DEF TrialsAt
    <3>2. CASE n # 0
      <4> DEFINE k == Least(n, MaxTrialsAtOnce)
      <4>1. k \in Nat /\ n - k \in Nat
        BY <3>2, SmallerTrials
      <4> HIDE DEF k
      <4>2. <<k>> \o f[n - k] \in S
        BY <4>1
      <4> QED
        BY <3>2, <4>2 DEF TrialsAt, k
    <3> QED
      BY <3>1, <3>2
  <2> HIDE DEF S
  <2> QED
    BY <2>1
<1>3. PICK f \in [Nat -> S] : \A n \in Nat : f[n] = step[n][Below(f, n, <<>>)]
  <2> HIDE DEF S, step
  <2> QED
    BY <1>1, <1>2, CourseOfValues
<1>4. ASSUME NEW n \in Nat PROVE f[n] = TrialsAt(f, n)
  <2> DEFINE b == Below(f, n, <<>>)
  <2>1. b \in [Nat -> S]
    BY <1>1 DEF Below
  <2>2. n # 0 => b[n - Least(n, MaxTrialsAtOnce)] = f[n - Least(n, MaxTrialsAtOnce)]
    BY SmallerTrials DEF Below
  <2> HIDE DEF b, S
  <2>3. f[n] = TrialsAt(b, n)
    BY <1>3, <2>1 DEF b
  <2> QED
    BY <2>2, <2>3 DEF TrialsAt
<1>5. f = [n \in Nat |-> TrialsAt(f, n)]
  BY <1>4
<1>6. Hashgraph!trials = CHOOSE g : g = [n \in Nat |-> TrialsAt(g, n)]
  BY DEF Hashgraph!trials, TrialsAt, Least, Hashgraph!Least
<1>7. Hashgraph!trials = [n \in Nat |-> TrialsAt(Hashgraph!trials, n)]
  BY <1>5, <1>6
<1> QED
  BY <1>7

LEMMA OneMore ==
    ASSUME NEW s \in Seq(Nat), NEW x \in Nat
    PROVE  (s \o <<x>>)[Len(s) + 1] = x
OBVIOUS

Rounds(total) == Ethers!generateTrials(total)

LEMMA RoundsAre ==
    ASSUME NEW n \in Nat
    PROVE  LET M == MaxTrialsAtOnce
               rest == IF n % M = 0 THEN 0 ELSE 1
           IN  /\ Rounds(n) \in Seq(Nat) /\ Len(Rounds(n)) = n \div M + rest
               /\ \A i \in 1 .. n \div M + rest : Rounds(n)[i] = IF i <= n \div M THEN M ELSE n % M
<1> DEFINE M == MaxTrialsAtOnce
           q == n \div M
           r == n % M
           full == [i \in 1 .. q |-> M]
           last == IF r = 0 THEN <<>> ELSE <<r>>
           rest == IF r = 0 THEN 0 ELSE 1
<1>1. q \in Nat /\ r \in Nat /\ M \in Nat
  <2>1. M \in Nat \ {0}
    BY RedemptionAssumption
  <2> QED
    BY <2>1, Divides
<1>2. Rounds(n) = full \o last
  BY DEF Rounds, Ethers!generateTrials
<1> HIDE DEF q, r, M
<1>3. full \in Seq(Nat) /\ Len(full) = q /\ \A i \in 1 .. q : full[i] = M
  BY <1>1
<1>4. last \in Seq(Nat) /\ Len(last) = rest /\ (rest = 1 => last[1] = r) /\ rest \in {0, 1}
  BY <1>1
<1> HIDE DEF full, last, rest
<1>5. Len(full \o last) = q + rest /\ full \o last \in Seq(Nat)
  BY <1>3, <1>4
<1>6. ASSUME NEW i \in 1 .. q + rest PROVE (full \o last)[i] = IF i <= q THEN M ELSE r
  <2>1. CASE i <= q
    BY <1>1, <1>3, <1>4, <2>1
  <2>2. CASE ~(i <= q)
    <3>1. rest = 1 /\ i = q + 1
      BY <1>1, <1>4, <2>2
    <3>2. last = <<r>>
      BY <3>1 DEF last, rest
    <3>3. (full \o <<r>>)[Len(full) + 1] = r
      BY <1>1, <1>3, OneMore
    <3> QED
      BY <1>3, <2>2, <3>1, <3>2, <3>3
  <2> QED
    BY <2>1, <2>2
<1> QED
  BY <1>2, <1>5, <1>6 DEF M, q, r, rest

LEMMA SameElements ==
    ASSUME NEW s \in Seq(Nat), NEW u \in Seq(Nat), Len(s) = Len(u), \A i \in 1 .. Len(s) : s[i] = u[i]
    PROVE  s = u
OBVIOUS

\* One round, and those of the trials that are left.
LEMMA OneRound ==
    ASSUME NEW n \in Nat, n # 0
    PROVE  Rounds(n) = <<Least(n, MaxTrialsAtOnce)>> \o Rounds(n - Least(n, MaxTrialsAtOnce))
<1> DEFINE M == MaxTrialsAtOnce
           k == Least(n, M)
           q == n \div M
           r == n % M
           p == (n - k) \div M
           v == (n - k) % M
           more(x) == IF x = 0 THEN 0 ELSE 1
           left == Rounds(n - k)
           all == Rounds(n)
<1>1. M \in Nat \ {0} /\ k \in Nat /\ n - k \in Nat
  BY RedemptionAssumption, SmallerTrials
<1>2. /\ all \in Seq(Nat) /\ Len(all) = q + more(r)
      /\ \A i \in 1 .. q + more(r) : all[i] = IF i <= q THEN M ELSE r
  BY RoundsAre
<1>3. /\ left \in Seq(Nat) /\ Len(left) = p + more(v)
      /\ \A i \in 1 .. p + more(v) : left[i] = IF i <= p THEN M ELSE v
  BY <1>1, RoundsAre
<1> HIDE DEF left, all
<1> DEFINE u == <<k>> \o left
<1>4. /\ u \in Seq(Nat) /\ Len(u) = 1 + Len(left) /\ u[1] = k
      /\ \A i \in 2 .. 1 + Len(left) : u[i] = left[i - 1]
  <2> HIDE DEF k
  <2> QED
    BY <1>1, <1>3
<1> HIDE DEF u
<1>5. CASE n < M
  <2>1. k = n /\ n - k = 0
    BY <1>1, <1>5 DEF Least
  <2>2. q = 0 /\ r = n
    BY <1>1, <1>5, DivideLess
  <2>3. p = 0 /\ v = 0
    BY <1>1, <2>1, DivideLess
  <2>4. Len(u) = 1 /\ u[1] = n
    BY <1>3, <1>4, <2>1, <2>3
  <2>5. Len(all) = 1 /\ all[1] = n
    BY <1>2, <2>2
  <2> HIDE DEF k
  <2>6. all = u
    BY <1>2, <1>4, <2>4, <2>5, SameElements
  <2> QED
    BY <2>6 DEF u, all, left, k
<1>6. CASE n >= M
  <2>1. k = M
    BY <1>1, <1>6 DEF Least
  <2>2. q \in Nat \ {0} /\ p = q - 1 /\ v = r /\ r \in 0 .. M - 1
    BY <1>1, <1>6, <2>1, DivideMore
  <2> HIDE DEF k, M, q, r, p, v
  <2>3. Len(u) = Len(all)
    BY <1>2, <1>3, <1>4, <2>2
  <2>4. ASSUME NEW i \in 1 .. Len(all) PROVE all[i] = u[i]
    <3>1. CASE i = 1
      BY <1>2, <1>4, <2>1, <2>2, <3>1
    <3>2. CASE i # 1
      <4>1. i - 1 \in 1 .. Len(left) /\ i \in 2 .. 1 + Len(left)
        BY <1>2, <1>3, <1>4, <2>2, <2>3, <3>2
      <4>2. u[i] = left[i - 1]
        BY <1>4, <4>1
      <4>3. left[i - 1] = IF i - 1 <= p THEN M ELSE v
        BY <1>3, <4>1
      <4>4. all[i] = IF i <= q THEN M ELSE r
        BY <1>2
      <4>5. (i - 1 <= p) = (i <= q)
        BY <2>2
      <4> QED
        BY <2>2, <4>2, <4>3, <4>4, <4>5
    <3> QED
      BY <3>1, <3>2
  <2>5. all = u
    BY <1>2, <1>4, <2>3, <2>4, SameElements
  <2> QED
    BY <2>5 DEF u, all, left, k, M
<1> QED
  BY <1>1, <1>5, <1>6

LEMMA TrialsAgree == \A n \in Nat : Hashgraph!trials[n] = Rounds(n)
<1> DEFINE T == {n \in Nat : Hashgraph!trials[n] = Rounds(n)}
<1>1. ASSUME NEW n \in Nat, \A m \in 0 .. n - 1 : m \in T PROVE n \in T
  <2>1. Hashgraph!trials[n] = TrialsAt(Hashgraph!trials, n)
    BY TrialsAre
  <2>2. CASE n = 0
    <3>1. Rounds(0) = <<>>
      <4>1. MaxTrialsAtOnce \in Nat \ {0} /\ 0 \in Nat
        BY RedemptionAssumption
      <4>2. 0 \div MaxTrialsAtOnce = 0 /\ 0 % MaxTrialsAtOnce = 0
        BY <4>1, DivideLess
      <4>3. Rounds(0) \in Seq(Nat) /\ Len(Rounds(0)) = 0
        BY <4>1, <4>2, RoundsAre
      <4> QED
        BY <4>3
    <3> QED
      BY <2>1, <2>2, <3>1 DEF TrialsAt
  <2>3. CASE n # 0
    <3> DEFINE k == Least(n, MaxTrialsAtOnce)
    <3>1. n - k \in 0 .. n - 1
      BY <2>3, SmallerTrials
    <3>2. Hashgraph!trials[n - k] = Rounds(n - k)
      BY <1>1, <3>1
    <3>3. Rounds(n) = <<k>> \o Rounds(n - k)
      BY <2>3, OneRound
    <3> QED
      BY <2>1, <2>3, <3>2, <3>3 DEF TrialsAt
  <2> QED
    BY <2>2, <2>3
<1>2. Nat \subseteq T
  <2> HIDE DEF T
  <2> QED
    BY <1>1, StrongInduction
<1> QED
  BY <1>2

\* There are no more rounds than trials, and each is within the limit.
LEMMA RoundsFit ==
    ASSUME NEW n \in Nat \ {0}
    PROVE  /\ Rounds(n) \in Seq(Nat) /\ Len(Rounds(n)) \in 1 .. n
           /\ \A i \in 1 .. Len(Rounds(n)) : Rounds(n)[i] \in 1 .. MaxTrialsAtOnce
<1> DEFINE M == MaxTrialsAtOnce
           q == n \div M
           r == n % M
           rest == IF r = 0 THEN 0 ELSE 1
           all == Rounds(n)
<1>1. M \in Nat \ {0}
  BY RedemptionAssumption
<1>2. n = M * q + r /\ q \in Nat /\ r \in 0 .. M - 1
  BY <1>1, Divides
<1>3. /\ all \in Seq(Nat) /\ Len(all) = q + rest
      /\ \A i \in 1 .. q + rest : all[i] = IF i <= q THEN M ELSE r
  BY RoundsAre
<1> HIDE DEF q, r, M, all
<1>4. M * q >= q /\ (q = 0 => M * q = 0) /\ M * q \in Nat
  BY <1>1, <1>2
<1>5. q + rest \in 1 .. n
  BY <1>1, <1>2, <1>4
<1>6. \A i \in 1 .. q + rest : all[i] \in 1 .. M
  BY <1>1, <1>2, <1>3
<1> QED
  BY <1>3, <1>5, <1>6 DEF M, all

\* The closest of approximate hints: the last one of equals.
ApproxHint == [diff : Nat, hintAddress : STRING]
Better(s, i) ==
    \A j \in DOMAIN s : s[i].diff < s[j].diff \/ (s[i].diff = s[j].diff /\ j <= i)
Best(s) == CHOOSE i \in DOMAIN s : Better(s, i)

LEMMA BestStep ==
    ASSUME NEW s \in Seq(ApproxHint), Len(s) >= 2, NEW i \in 1 .. Len(s) - 1,
           Better(SubSeq(s, 1, Len(s) - 1), i)
    PROVE  IF s[i].diff < s[Len(s)].diff THEN Better(s, i) ELSE Better(s, Len(s))
<1> DEFINE n == Len(s)
           p == SubSeq(s, 1, n - 1)
<1>1. n \in Nat /\ \A j \in 1 .. n : s[j] \in ApproxHint
  OBVIOUS
<1>2. \A j \in 1 .. n : s[j].diff \in Nat
  BY <1>1 DEF ApproxHint
<1>3. DOMAIN p = 1 .. n - 1 /\ \A j \in 1 .. n - 1 : p[j] = s[j]
  BY <1>1
<1> HIDE DEF p
<1>4. \A j \in 1 .. n - 1 : s[i].diff < s[j].diff \/ (s[i].diff = s[j].diff /\ j <= i)
  BY <1>3 DEF Better, p
<1>5. DOMAIN s = 1 .. n
  OBVIOUS
<1> HIDE DEF n
<1>6. CASE s[i].diff < s[n].diff
  BY <1>1, <1>2, <1>4, <1>5, <1>6 DEF Better, n
<1>7. CASE ~(s[i].diff < s[n].diff)
  <2>1. i \in 1 .. n /\ n \in 1 .. n
    BY <1>1 DEF n
  <2>2. s[n].diff <= s[i].diff /\ s[i].diff \in Nat /\ s[n].diff \in Nat
    BY <1>2, <1>7, <2>1
  <2>3. ASSUME NEW j \in 1 .. n PROVE s[n].diff < s[j].diff \/ (s[n].diff = s[j].diff /\ j <= n)
    <3>1. s[j].diff \in Nat
      BY <1>2
    <3>2. CASE j = n
      BY <1>1, <3>1, <3>2
    <3>3. CASE j # n
      <4>1. j \in 1 .. n - 1
        BY <1>1, <3>3
      <4> QED
        BY <1>1, <1>4, <2>2, <3>1, <4>1
    <3> QED
      BY <3>2, <3>3
  <2>4. Better(s, n)
    BY <1>5, <2>3 DEF Better
  <2> QED
    BY <1>7, <2>4 DEF n
<1> QED
  BY <1>6, <1>7 DEF n

LEMMA BestIs ==
    \A s \in Seq(ApproxHint) : Len(s) >= 1 => Best(s) \in DOMAIN s /\ Better(s, Best(s))
<1> DEFINE T == {n \in Nat : \A s \in Seq(ApproxHint) : Len(s) = n /\ n >= 1 => \E i \in DOMAIN s : Better(s, i)}
<1>1. ASSUME NEW n \in Nat, \A m \in 0 .. n - 1 : m \in T PROVE n \in T
  <2> SUFFICES ASSUME NEW s \in Seq(ApproxHint), Len(s) = n, n >= 1
               PROVE  \E i \in DOMAIN s : Better(s, i)
    OBVIOUS
  <2>1. CASE n = 1
    <3>1. DOMAIN s = {1} /\ s[1] \in ApproxHint
      BY <2>1
    <3>2. s[1].diff \in Nat
      BY <3>1 DEF ApproxHint
    <3>3. Better(s, 1)
      BY <3>1, <3>2 DEF Better
    <3> QED
      BY <3>1, <3>3
  <2>2. CASE n # 1
    <3> DEFINE p == SubSeq(s, 1, n - 1)
    <3>1. p \in Seq(ApproxHint) /\ Len(p) = n - 1 /\ n - 1 >= 1 /\ n - 1 \in 0 .. n - 1 /\ DOMAIN p = 1 .. n - 1
      BY <2>2
    <3> HIDE DEF p
    <3>2. PICK i \in 1 .. n - 1 : Better(p, i)
      BY <1>1, <3>1
    <3>3. Better(s, i) \/ Better(s, n)
      BY <2>2, <3>2, BestStep DEF p
    <3>4. i \in DOMAIN s /\ n \in DOMAIN s
      OBVIOUS
    <3> QED
      BY <3>3, <3>4
  <2> QED
    BY <2>1, <2>2
<1>2. Nat \subseteq T
  <2> HIDE DEF T
  <2> QED
    BY <1>1, StrongInduction
<1> SUFFICES ASSUME NEW s \in Seq(ApproxHint), Len(s) >= 1
             PROVE  Best(s) \in DOMAIN s /\ Better(s, Best(s))
  OBVIOUS
<1>3. Len(s) \in T
  BY <1>2
<1>4. \E i \in DOMAIN s : Better(s, i)
  BY <1>3
<1> QED
  BY <1>4 DEF Best

LEMMA BestUnique ==
    ASSUME NEW s \in Seq(ApproxHint), NEW i \in DOMAIN s, NEW j \in DOMAIN s, Better(s, i), Better(s, j)
    PROVE  i = j
<1>1. i \in Nat /\ j \in Nat /\ s[i] \in ApproxHint /\ s[j] \in ApproxHint
  OBVIOUS
<1>2. s[i].diff \in Nat /\ s[j].diff \in Nat
  BY <1>1 DEF ApproxHint
<1>3. s[i].diff < s[j].diff \/ (s[i].diff = s[j].diff /\ j <= i)
  BY DEF Better
<1>4. s[j].diff < s[i].diff \/ (s[j].diff = s[i].diff /\ i <= j)
  BY DEF Better
<1> QED
  BY <1>1, <1>2, <1>3, <1>4

\* What closest[s] is, with f for its values at shorter lists.
ClosestAt(f, s) ==
    IF Len(s) = 1 THEN s[1]
    ELSE LET a == f[SubSeq(s, 1, Len(s) - 1)]
             b == s[Len(s)]
         IN  IF a.diff < b.diff THEN a ELSE b

LEMMA BestOne ==
    ASSUME NEW s \in Seq(ApproxHint), Len(s) = 1 PROVE s[Best(s)] = s[1]
<1>1. Best(s) \in DOMAIN s /\ DOMAIN s = {1}
  BY BestIs
<1> QED
  BY <1>1

LEMMA BestOfMore ==
    ASSUME NEW s \in Seq(ApproxHint), Len(s) >= 2, NEW a, a = SubSeq(s, 1, Len(s) - 1)[Best(SubSeq(s, 1, Len(s) - 1))]
    PROVE  s[Best(s)] = IF a.diff < s[Len(s)].diff THEN a ELSE s[Len(s)]
<1> DEFINE n == Len(s)
           p == SubSeq(s, 1, n - 1)
           i == Best(p)
<1>1. p \in Seq(ApproxHint) /\ Len(p) = n - 1 /\ DOMAIN p = 1 .. n - 1 /\ n \in Nat
  OBVIOUS
<1>2. \A j \in 1 .. n - 1 : p[j] = s[j]
  OBVIOUS
<1>3. i \in 1 .. n - 1 /\ Better(p, i)
  <2> HIDE DEF p
  <2> QED
    BY <1>1, BestIs
<1>4. a = s[i]
  BY <1>2, <1>3
<1>5. IF s[i].diff < s[n].diff THEN Better(s, i) ELSE Better(s, n)
  <2> HIDE DEF i
  <2> QED
    BY <1>3, BestStep
<1>6. Best(s) \in DOMAIN s /\ Better(s, Best(s))
  BY BestIs
<1>7. i \in DOMAIN s /\ n \in DOMAIN s
  BY <1>1, <1>3
<1> HIDE DEF i, n
<1>8. Best(s) = IF s[i].diff < s[n].diff THEN i ELSE n
  BY <1>5, <1>6, <1>7, BestUnique
<1> QED
  BY <1>4, <1>8 DEF n

LEMMA ClosestIs ==
    \A s \in Seq(ApproxHint) : Len(s) >= 1 => Hashgraph!closest[s] = s[Best(s)]
<1> DEFINE S == Seq(ApproxHint)
           f == [s \in S |-> IF Len(s) = 0 THEN s[0] ELSE s[Best(s)]]
           c == Hashgraph!closest
<1>1. ASSUME NEW s \in S PROVE f[s] = ClosestAt(f, s)
  <2>1. CASE Len(s) = 0
    <3>1. SubSeq(s, 1, Len(s) - 1) = s
      BY <2>1
    <3>2. f[s] = s[0]
      BY <2>1
    <3> HIDE DEF f
    <3> QED
      BY <2>1, <3>1, <3>2 DEF ClosestAt
  <2>2. CASE Len(s) = 1
    BY <2>2, BestOne DEF ClosestAt
  <2>3. CASE Len(s) >= 2
    <3> DEFINE p == SubSeq(s, 1, Len(s) - 1)
               a == p[Best(p)]
    <3>1. p \in S /\ Len(p) # 0
      <4>1. p \in S /\ Len(p) = Len(s) - 1 /\ Len(s) \in Nat
        BY <2>3
      <4> HIDE DEF p
      <4> QED
        BY <2>3, <4>1
    <3>2. f[p] = a
      BY <3>1
    <3>3. f[s] = s[Best(s)]
      BY <2>3
    <3>4. s[Best(s)] = IF a.diff < s[Len(s)].diff THEN a ELSE s[Len(s)]
      <4> HIDE DEF f
      <4> QED
        BY <2>3, BestOfMore
    <3> HIDE DEF f, a
    <3> QED
      BY <2>3, <3>2, <3>3, <3>4 DEF ClosestAt
  <2> HIDE DEF f
  <2>a. Len(s) \in Nat
    OBVIOUS
  <2>b. \A n \in Nat : n = 0 \/ n = 1 \/ n >= 2
    OBVIOUS
  <2>4. Len(s) = 0 \/ Len(s) = 1 \/ Len(s) >= 2
    BY <2>a, <2>b
  <2> QED
    BY <2>1, <2>2, <2>3, <2>4
<1>2. f = [s \in S |-> ClosestAt(f, s)]
  <2>1. f = [s \in S |-> f[s]]
    OBVIOUS
  <2> HIDE DEF f, S
  <2> QED
    BY <1>1, <2>1
<1>3. c = CHOOSE g : g = [s \in S |-> ClosestAt(g, s)]
  BY DEF Hashgraph!closest, ClosestAt, ApproxHint
<1> HIDE DEF f, c
<1>4. c = [s \in S |-> ClosestAt(c, s)]
  BY <1>2, <1>3
<1> DEFINE T == {n \in Nat : \A s \in S : Len(s) = n /\ n >= 1 => c[s] = s[Best(s)]}
<1>5. ASSUME NEW n \in Nat, \A m \in 0 .. n - 1 : m \in T PROVE n \in T
  <2> SUFFICES ASSUME NEW s \in S, Len(s) = n, n >= 1 PROVE c[s] = s[Best(s)]
    OBVIOUS
  <2>1. c[s] = ClosestAt(c, s)
    BY <1>4
  <2>2. CASE n = 1
    BY <2>1, <2>2, BestOne DEF ClosestAt
  <2>3. CASE n # 1
    <3> DEFINE p == SubSeq(s, 1, Len(s) - 1)
               a == p[Best(p)]
    <3>1. p \in S /\ Len(p) = n - 1 /\ n - 1 >= 1 /\ n - 1 \in 0 .. n - 1 /\ Len(s) >= 2
      BY <2>3
    <3>2. c[p] = a
      <4> HIDE DEF p
      <4> QED
        BY <1>5, <3>1
    <3>3. s[Best(s)] = IF a.diff < s[Len(s)].diff THEN a ELSE s[Len(s)]
      BY <3>1, BestOfMore
    <3> HIDE DEF a
    <3> QED
      BY <2>1, <2>3, <3>2, <3>3 DEF ClosestAt
  <2> QED
    BY <2>2, <2>3
<1>6. Nat \subseteq T
  <2> HIDE DEF T
  <2> QED
    BY <1>5, StrongInduction
<1> SUFFICES ASSUME NEW s \in S, Len(s) >= 1 PROVE c[s] = s[Best(s)]
  BY DEF c
<1>7. Len(s) \in T
  BY <1>6
<1> QED
  BY <1>7

\* What the contracts answer about the list of Troves, as CallsAgree has it.
ApproxHints(troves, a) ==
    [i \in 1 .. Len(troves) + 2 |-> [n \in 1 .. MaxTrialsAtOnce |->
       [diff |-> ((i * i) + a) % 3, hintAddress |-> troves[1 + (i % Len(troves))].owner]]]
Positions(troves) == [o \in {troves[i].owner : i \in DOMAIN troves} |-> <<o, "next">>]
ListOf(troves, a) ==
    [numberOfTroves |-> Len(troves), totalNumberOfTrials |-> Len(troves) + 2, first |-> "first",
     getApproxHint |-> ApproxHints(troves, a), findInsertPosition |-> Positions(troves)]

OurHints(a, list) == Hashgraph!findHintsForNominalCollateralRatio(a, list)
TheirHints(a, list) == Ethers!_findHintsForNominalCollateralRatio(a, list)

\* The answers to a list's rounds.
Answers(rounds, answer) == [i \in DOMAIN rounds |-> answer[i][rounds[i]]]

LEMMA AnswersAre ==
    ASSUME NEW troves \in Seq(OpenTrove), Len(troves) # 0, NEW a \in Nat,
           NEW rounds, rounds = Rounds(Len(troves) + 2),
           NEW s, s = Answers(rounds, ApproxHints(troves, a))
    PROVE  /\ s \in Seq(ApproxHint) /\ Len(s) >= 1
           /\ \A i \in DOMAIN s : s[i].hintAddress \in {troves[j].owner : j \in DOMAIN troves}
<1> DEFINE n == Len(troves)
           owners == {troves[j].owner : j \in DOMAIN troves}
<1>1. n \in Nat \ {0} /\ DOMAIN troves = 1 .. n /\ \A j \in 1 .. n : troves[j] \in OpenTrove
  OBVIOUS
<1>2. \A j \in 1 .. n : troves[j].owner \in STRING /\ troves[j].owner \in owners
  BY <1>1 DEF OpenTrove
<1>3. n + 2 \in Nat \ {0}
  BY <1>1
<1>4. /\ rounds \in Seq(Nat) /\ Len(rounds) \in 1 .. n + 2
      /\ \A i \in 1 .. Len(rounds) : rounds[i] \in 1 .. MaxTrialsAtOnce
  BY <1>3, RoundsFit
<1> HIDE DEF n, owners
<1>5. DOMAIN rounds = 1 .. Len(rounds)
  BY <1>4
<1>6. s = [i \in 1 .. Len(rounds) |-> ApproxHints(troves, a)[i][rounds[i]]]
  BY <1>5 DEF Answers
<1>7. ASSUME NEW i \in 1 .. Len(rounds)
      PROVE  s[i] \in ApproxHint /\ s[i].hintAddress \in owners
  <2> DEFINE d == ((i * i) + a) % 3
             j == 1 + (i % n)
             o == troves[j].owner
  <2>1. i \in 1 .. n + 2 /\ i \in Nat
    BY <1>1, <1>4
  <2>2. rounds[i] \in 1 .. MaxTrialsAtOnce
    BY <1>4
  <2>3. s[i] = [diff |-> d, hintAddress |-> o]
    BY <1>6, <2>1, <2>2 DEF ApproxHints, n
  <2>4. d \in Nat
    <3>1. i * i \in Nat
      BY <2>1
    <3>2. (i * i) + a \in Nat
      BY <3>1
    <3> HIDE DEF d
    <3> QED
      BY <3>2, Divides DEF d
  <2>5. j \in 1 .. n
    <3>1. i % n \in 0 .. n - 1
      BY <1>1, <2>1, Divides
    <3> QED
      BY <1>1, <3>1
  <2>6. o \in STRING /\ o \in owners
    BY <1>2, <2>5
  <2> HIDE DEF d, o
  <2> QED
    BY <2>3, <2>4, <2>6 DEF ApproxHint
<1>8. Len(rounds) \in Nat /\ Len(rounds) >= 1
  BY <1>3, <1>4
<1>9. s \in Seq(ApproxHint) /\ Len(s) = Len(rounds) /\ DOMAIN s = 1 .. Len(rounds)
  BY <1>6, <1>7, <1>8
<1> QED
  BY <1>7, <1>8, <1>9 DEF owners

\* Both libraries find the same hints.
LEMMA HintsAgree ==
    ASSUME NEW troves \in Seq(OpenTrove), NEW a \in Nat
    PROVE  \E x, y : /\ OurHints(a, ListOf(troves, a)) = <<x, y>>
                     /\ TheirHints(a, ListOf(troves, a)) = <<x, y>>
<1> DEFINE list == ListOf(troves, a)
           n == Len(troves)
<1>1. /\ list.numberOfTroves = n /\ list.totalNumberOfTrials = n + 2 /\ list.first = "first"
      /\ list.getApproxHint = ApproxHints(troves, a) /\ list.findInsertPosition = Positions(troves)
  BY DEF ListOf
<1> HIDE DEF list
<1>2. CASE n = 0
  <2>1. OurHints(a, list) = <<"0x0", "0x0">>
    BY <1>1, <1>2 DEF OurHints, Hashgraph!findHintsForNominalCollateralRatio, Hashgraph!AddressZero
  <2>2. TheirHints(a, list) = <<"0x0", "0x0">>
    BY <1>1, <1>2 DEF TheirHints, Ethers!_findHintsForNominalCollateralRatio, Ethers!AddressZero
  <2> QED
    BY <2>1, <2>2 DEF list
<1>3. CASE n # 0 /\ a = INFINITY
  <2>1. OurHints(a, list) = <<"0x0", "first">>
    BY <1>1, <1>3 DEF OurHints, Hashgraph!findHintsForNominalCollateralRatio, Hashgraph!AddressZero
  <2>2. TheirHints(a, list) = <<"0x0", "first">>
    BY <1>1, <1>3 DEF TheirHints, Ethers!_findHintsForNominalCollateralRatio, Ethers!AddressZero
  <2> QED
    BY <2>1, <2>2 DEF list
<1>4. CASE n # 0 /\ a # INFINITY
  <2> DEFINE rounds == Rounds(n + 2)
             s == Answers(rounds, ApproxHints(troves, a))
             o == s[Best(s)].hintAddress
  <2>1. /\ s \in Seq(ApproxHint) /\ Len(s) >= 1
        /\ \A i \in DOMAIN s : s[i].hintAddress \in {troves[j].owner : j \in DOMAIN troves}
    BY <1>4, AnswersAre
  <2>2. Hashgraph!trials[n + 2] = rounds
    <3>1. n + 2 \in Nat
      OBVIOUS
    <3> QED
      BY <3>1, TrialsAgree
  <2>3. Best(s) \in DOMAIN s
    <3> HIDE DEF s
    <3> QED
      BY <2>1, BestIs
  <2>4. Positions(troves)[o] = <<o, "next">>
    <3> HIDE DEF s
    <3> QED
      BY <2>1, <2>3 DEF Positions
  <2>5. OurHints(a, list) = Positions(troves)[o]
    <3>1. OurHints(a, list) =
            list.findInsertPosition[Hashgraph!closest[
              Answers(Hashgraph!trials[list.totalNumberOfTrials], list.getApproxHint)].hintAddress]
      BY <1>1, <1>4 DEF OurHints, Hashgraph!findHintsForNominalCollateralRatio,
                        Answers, Hashgraph!generateTrials
    <3>2. OurHints(a, list) = Positions(troves)[Hashgraph!closest[s].hintAddress]
      BY <1>1, <2>2, <3>1
    <3>3. Hashgraph!closest[s] = s[Best(s)]
      <4> HIDE DEF s
      <4> QED
        BY <2>1, ClosestIs
    <3> QED
      BY <3>2, <3>3
  <2>6. TheirHints(a, list) = Positions(troves)[o]
    <3>1. TheirHints(a, list) =
            list.findInsertPosition[
              Answers(Rounds(list.totalNumberOfTrials), list.getApproxHint)[
                Best(Answers(Rounds(list.totalNumberOfTrials), list.getApproxHint))].hintAddress]
      BY <1>1, <1>4 DEF TheirHints, Ethers!_findHintsForNominalCollateralRatio,
                        Answers, Rounds, Best, Better
    <3> QED
      BY <1>1, <3>1
  <2> HIDE DEF o
  <2> QED
    BY <2>4, <2>5, <2>6 DEF list
<1> QED
  BY <1>2, <1>3, <1>4

-------------------------------------------------------------------------------
(* The calls that both libraries populate.                                   *)

LEMMA SameSquareEthers == Ethers!square = Hashgraph!square
BY DEF Ethers!square, Hashgraph!square, Ethers!roundedMul, Hashgraph!roundedMul

LEMMA SameBaseRateEthers == ASSUME NEW fees PROVE Ethers!baseRate(fees) = Hashgraph!baseRate(fees)
<1>1. \A x, n : Ethers!pow(x, n) = Hashgraph!pow(x, n)
  BY SameSquareEthers DEF Ethers!pow, Hashgraph!pow
<1> QED
  BY <1>1 DEF Ethers!baseRate, Hashgraph!baseRate, Ethers!Most, Hashgraph!Most, Ethers!Mul, Hashgraph!Mul

LEMMA SameBorrowingRate ==
    ASSUME NEW fees PROVE Ethers!borrowingRate(fees) = Hashgraph!borrowingRate(fees)
BY SameBaseRateEthers DEF Ethers!borrowingRate, Hashgraph!borrowingRate, Ethers!Least, Hashgraph!Least

LEMMA SameDefaultRate ==
    ASSUME NEW fees, NEW total, NEW wanted
    PROVE  Ethers!defaultMaxRedemptionRate(fees, total, wanted) =
             Hashgraph!defaultMaxRedemptionRate(fees, total, wanted)
<1>1. \A f : Ethers!redemptionRate(fees, f) = Hashgraph!redemptionRate(fees, f)
  BY SameBaseRateEthers
     DEF Ethers!redemptionRate, Hashgraph!redemptionRate, Ethers!Least, Hashgraph!Least, Ethers!Div, Hashgraph!Div
<1> QED
  BY <1>1 DEF Ethers!defaultMaxRedemptionRate, Hashgraph!defaultMaxRedemptionRate,
              Ethers!Least, Hashgraph!Least, Ethers!Div, Hashgraph!Div

\* The part of CallsAgree about one method: our call and theirs.
Fits(m, ours, theirs) ==
    \/ ours = theirs
    \/ m \in {"liquidateUpTo", "redeemHCHF"} /\ ours = theirs * DIGITS
Agrees(m, ours, theirs) ==
    LET interface == Abi[ours.contract][ours.functionName]
        args == ours.functionParameters
    IN  /\ ours.contract = theirs.contract
        /\ ours.functionName = theirs.functionName
        /\ [i \in DOMAIN args |-> args[i][1]] = interface.inputs
        /\ ours.hbar = theirs.value
        /\ ours.hbar > 0 => interface.stateMutability = "payable"
        /\ \A i \in DOMAIN args : Fits(m, args[i][2], theirs.args[i])

OurCall(c, f, args, hbar, gas) == Hashgraph!TypedContractExecuteTransaction(c, f, args, hbar, gas)
TheirCall(c, f, hbar, args) == Ethers!estimateAndPopulate(c, f, hbar, args)

LEMMA CallAgrees ==
    ASSUME NEW m, NEW c, NEW f, NEW ours, NEW theirs, NEW hbar, NEW gas, NEW inputs, NEW mutability,
           Abi[c][f] = Function(inputs, mutability), hbar > 0 => mutability = "payable",
           [i \in DOMAIN ours |-> ours[i][1]] = inputs,
           \A i \in DOMAIN ours : Fits(m, ours[i][2], theirs[i])
    PROVE  Agrees(m, OurCall(c, f, ours, hbar, gas), TheirCall(c, f, hbar, theirs))
<1> DEFINE o == OurCall(c, f, ours, hbar, gas)
           t == TheirCall(c, f, hbar, theirs)
<1>1. o.contract = c /\ o.functionName = f /\ o.functionParameters = ours /\ o.hbar = hbar
  BY DEF OurCall, Hashgraph!TypedContractExecuteTransaction
<1>2. t.contract = c /\ t.functionName = f /\ t.args = theirs /\ t.value = hbar
  BY DEF TheirCall, Ethers!estimateAndPopulate
<1>3. Abi[c][f].inputs = inputs /\ Abi[c][f].stateMutability = mutability
  BY DEF Function
<1> HIDE DEF o, t
<1>4. Agrees(m, o, t)
  BY <1>1, <1>2, <1>3 DEF Agrees
<1> QED
  BY <1>4 DEF o, t

LEMMA NoArguments ==
    ASSUME NEW m, NEW c, NEW f, NEW gas, NEW mutability, Abi[c][f] = Function(<<>>, mutability)
    PROVE  Agrees(m, OurCall(c, f, <<>>, 0, gas), TheirCall(c, f, 0, <<>>))
<1>1. [i \in DOMAIN <<>> |-> <<>>[i][1]] = <<>>
  OBVIOUS
<1>2. \A i \in DOMAIN <<>> : Fits(m, <<>>[i][2], <<>>[i])
  OBVIOUS
<1>3. 0 > 0 => mutability = "payable"
  OBVIOUS
<1> QED
  BY <1>1, <1>2, <1>3, CallAgrees

LEMMA OneArgument ==
    ASSUME NEW m, NEW c, NEW f, NEW gas, NEW mutability, NEW t, NEW v, NEW w,
           Abi[c][f] = Function(<<t>>, mutability), Fits(m, v, w)
    PROVE  Agrees(m, OurCall(c, f, << <<t, v>> >>, 0, gas), TheirCall(c, f, 0, <<w>>))
<1> DEFINE ours == << <<t, v>> >>
           theirs == <<w>>
<1>1. [i \in DOMAIN ours |-> ours[i][1]] = <<t>>
  OBVIOUS
<1>2. \A i \in DOMAIN ours : Fits(m, ours[i][2], theirs[i])
  OBVIOUS
<1>3. 0 > 0 => mutability = "payable"
  OBVIOUS
<1> HIDE DEF ours, theirs
<1>4. Agrees(m, OurCall(c, f, ours, 0, gas), TheirCall(c, f, 0, theirs))
  BY <1>1, <1>2, <1>3, CallAgrees
<1> QED
  BY <1>4 DEF ours, theirs

LEMMA TwoArguments ==
    ASSUME NEW m, NEW c, NEW f, NEW gas, NEW mutability, NEW t1, NEW v1, NEW t2, NEW v2,
           Abi[c][f] = Function(<<t1, t2>>, mutability)
    PROVE  Agrees(m, OurCall(c, f, << <<t1, v1>>, <<t2, v2>> >>, 0, gas), TheirCall(c, f, 0, <<v1, v2>>))
<1> DEFINE ours == << <<t1, v1>>, <<t2, v2>> >>
           theirs == <<v1, v2>>
<1>1. [i \in DOMAIN ours |-> ours[i][1]] = <<t1, t2>>
  OBVIOUS
<1>2. \A i \in DOMAIN ours : Fits(m, ours[i][2], theirs[i])
  BY DEF Fits
<1>3. 0 > 0 => mutability = "payable"
  OBVIOUS
<1> HIDE DEF ours, theirs
<1>4. Agrees(m, OurCall(c, f, ours, 0, gas), TheirCall(c, f, 0, theirs))
  BY <1>1, <1>2, <1>3, CallAgrees
<1> QED
  BY <1>4 DEF ours, theirs

LEMMA ConcatAt ==
    ASSUME NEW S, NEW s \in Seq(S), NEW u \in Seq(S), NEW i \in 1 .. Len(s) + Len(u)
    PROVE  /\ s \o u \in Seq(S) /\ Len(s \o u) = Len(s) + Len(u)
           /\ (s \o u)[i] = IF i <= Len(s) THEN s[i] ELSE u[i - Len(s)]
OBVIOUS

LEMMA SameSeq ==
    ASSUME NEW S, NEW s \in Seq(S), NEW u \in Seq(S), Len(s) = Len(u), \A i \in 1 .. Len(s) : s[i] = u[i]
    PROVE  s = u
OBVIOUS

LEMMA Joined2 ==
    ASSUME NEW p, NEW q, NEW x, NEW y PROVE <<p, q>> \o <<x, y>> = <<p, q, x, y>>
<1> DEFINE S == {p, q, x, y}
           s == <<p, q>>
           u == <<x, y>>
           v == <<p, q, x, y>>
<1>1. s \in Seq(S) /\ u \in Seq(S) /\ v \in Seq(S) /\ Len(s) = 2 /\ Len(u) = 2 /\ Len(v) = 4
  OBVIOUS
<1>2. s[1] = p /\ s[2] = q /\ u[1] = x /\ u[2] = y
  OBVIOUS
<1>3. v[1] = p /\ v[2] = q /\ v[3] = x /\ v[4] = y
  OBVIOUS
<1> HIDE DEF s, u, S, v
<1>4. ASSUME NEW i \in 1 .. 4
      PROVE  s \o u \in Seq(S) /\ Len(s \o u) = 4 /\ (s \o u)[i] = IF i <= 2 THEN s[i] ELSE u[i - 2]
  <2>1. i \in 1 .. Len(s) + Len(u)
    BY <1>1
  <2>2. /\ s \o u \in Seq(S) /\ Len(s \o u) = Len(s) + Len(u)
        /\ (s \o u)[i] = IF i <= Len(s) THEN s[i] ELSE u[i - Len(s)]
    <3>1. s \in Seq(S) /\ u \in Seq(S)
      BY <1>1
    <3> QED
      BY <2>1, <3>1, ConcatAt
  <2> QED
    BY <1>1, <2>2
<1>5. ASSUME NEW i \in 1 .. 4 PROVE (s \o u)[i] = v[i]
  <2>1. i = 1 \/ i = 2 \/ i = 3 \/ i = 4
    OBVIOUS
  <2> QED
    BY <1>2, <1>3, <1>4, <2>1
<1>6. s \o u = v
  <2>1. 1 \in 1 .. 4 /\ Len(v) = 4
    BY <1>1
  <2>2. s \o u \in Seq(S) /\ Len(s \o u) = 4
    BY <1>4, <2>1
  <2>3. v \in Seq(S) /\ Len(s \o u) = Len(v) /\ \A i \in 1 .. Len(s \o u) : (s \o u)[i] = v[i]
    BY <1>1, <1>5, <2>2
  <2> QED
    BY <2>2, <2>3, SameSeq
<1> QED
  BY <1>6 DEF s, u, v

LEMMA Joined4 ==
    ASSUME NEW p, NEW q, NEW r, NEW b, NEW x, NEW y
    PROVE  <<p, q, r, b>> \o <<x, y>> = <<p, q, r, b, x, y>>
<1> DEFINE S == {p, q, r, b, x, y}
           s == <<p, q, r, b>>
           u == <<x, y>>
           v == <<p, q, r, b, x, y>>
<1>1. s \in Seq(S) /\ u \in Seq(S) /\ v \in Seq(S) /\ Len(s) = 4 /\ Len(u) = 2 /\ Len(v) = 6
  OBVIOUS
<1>2. s[1] = p /\ s[2] = q /\ s[3] = r /\ s[4] = b /\ u[1] = x /\ u[2] = y
  OBVIOUS
<1>3. v[1] = p /\ v[2] = q /\ v[3] = r /\ v[4] = b /\ v[5] = x /\ v[6] = y
  OBVIOUS
<1> HIDE DEF s, u, S, v
<1>4. ASSUME NEW i \in 1 .. 6
      PROVE  s \o u \in Seq(S) /\ Len(s \o u) = 6 /\ (s \o u)[i] = IF i <= 4 THEN s[i] ELSE u[i - 4]
  <2>1. i \in 1 .. Len(s) + Len(u)
    BY <1>1
  <2>2. /\ s \o u \in Seq(S) /\ Len(s \o u) = Len(s) + Len(u)
        /\ (s \o u)[i] = IF i <= Len(s) THEN s[i] ELSE u[i - Len(s)]
    <3>1. s \in Seq(S) /\ u \in Seq(S)
      BY <1>1
    <3> QED
      BY <2>1, <3>1, ConcatAt
  <2> QED
    BY <1>1, <2>2
<1>5. ASSUME NEW i \in 1 .. 6 PROVE (s \o u)[i] = v[i]
  <2>1. i = 1 \/ i = 2 \/ i = 3 \/ i = 4 \/ i = 5 \/ i = 6
    OBVIOUS
  <2> QED
    BY <1>2, <1>3, <1>4, <2>1
<1>6. s \o u = v
  <2>1. 1 \in 1 .. 6 /\ Len(v) = 6
    BY <1>1
  <2>2. s \o u \in Seq(S) /\ Len(s \o u) = 6
    BY <1>4, <2>1
  <2>3. v \in Seq(S) /\ Len(s \o u) = Len(v) /\ \A i \in 1 .. Len(s \o u) : (s \o u)[i] = v[i]
    BY <1>1, <1>5, <2>2
  <2> QED
    BY <2>2, <2>3, SameSeq
<1> QED
  BY <1>6 DEF s, u, v

\* Rates are not zero, and NONE is none.
Rate == 1 .. DIGITS \cup {NONE}
LEMMA RatesAre ==
    /\ \A max \in Rate : max # 0
    /\ \A n \in Nat : n # NONE
    /\ "frontend" # NONE
<1>1. NONE \notin Nat \cup {"frontend"} /\ DIGITS \in Nat
  BY RedemptionAssumption, DecimalAssumption
<1> QED
  BY <1>1 DEF Rate

LEMMA FourArguments ==
    ASSUME NEW m, NEW c, NEW f, NEW hbar, NEW gas, NEW v1, NEW v2, NEW v3, NEW v4,
           Abi[c][f] = Function(<<"uint256", "uint256", "address", "address">>, "payable")
    PROVE  Agrees(m, OurCall(c, f, << <<"uint256", v1>>, <<"uint256", v2>>, <<"address", v3>>, <<"address", v4>> >>,
                             hbar, gas),
                     TheirCall(c, f, hbar, <<v1, v2, v3, v4>>))
<1> DEFINE ours == << <<"uint256", v1>>, <<"uint256", v2>>, <<"address", v3>>, <<"address", v4>> >>
           theirs == <<v1, v2, v3, v4>>
           inputs == <<"uint256", "uint256", "address", "address">>
<1>1. [i \in DOMAIN ours |-> ours[i][1]] = inputs
  OBVIOUS
<1>2. \A i \in DOMAIN ours : Fits(m, ours[i][2], theirs[i])
  BY DEF Fits
<1> HIDE DEF ours, theirs
<1>3. Agrees(m, OurCall(c, f, ours, hbar, gas), TheirCall(c, f, hbar, theirs))
  BY <1>1, <1>2, CallAgrees
<1> QED
  BY <1>3 DEF ours, theirs

LEMMA SixArguments ==
    ASSUME NEW m, NEW c, NEW f, NEW hbar, NEW gas, NEW v1, NEW v2, NEW v3, NEW v4, NEW v5, NEW v6,
           Abi[c][f] = Function(<<"uint256", "uint256", "uint256", "bool", "address", "address">>, "payable")
    PROVE  Agrees(m, OurCall(c, f, << <<"uint256", v1>>, <<"uint256", v2>>, <<"uint256", v3>>, <<"bool", v4>>,
                                      <<"address", v5>>, <<"address", v6>> >>, hbar, gas),
                     TheirCall(c, f, hbar, <<v1, v2, v3, v4, v5, v6>>))
<1> DEFINE ours == << <<"uint256", v1>>, <<"uint256", v2>>, <<"uint256", v3>>, <<"bool", v4>>,
                      <<"address", v5>>, <<"address", v6>> >>
           theirs == <<v1, v2, v3, v4, v5, v6>>
           inputs == <<"uint256", "uint256", "uint256", "bool", "address", "address">>
<1>1. [i \in DOMAIN ours |-> ours[i][1]] = inputs
  OBVIOUS
<1>2. \A i \in DOMAIN ours : Fits(m, ours[i][2], theirs[i])
  BY DEF Fits
<1> HIDE DEF ours, theirs
<1>3. Agrees(m, OurCall(c, f, ours, hbar, gas), TheirCall(c, f, hbar, theirs))
  BY <1>1, <1>2, CallAgrees
<1> QED
  BY <1>3 DEF ours, theirs

LEMMA OpenAgrees ==
    ASSUME NEW m, NEW a \in Nat, NEW max, NEW fees, NEW x, NEW y
    PROVE  LET params == [depositCollateral |-> a, borrowHCHF |-> a + 1]
           IN  Agrees(m, Hashgraph!populateOpenTrove(params, max, fees, <<x, y>>),
                         Ethers!openTrove(params, max, fees, <<x, y>>))
<1> DEFINE params == [depositCollateral |-> a, borrowHCHF |-> a + 1]
           rate == IF max # NONE THEN max ELSE Hashgraph!borrowingRate(fees) + BorrowingTolerance
           gas == Hashgraph!base + Hashgraph!gasForPotentialLastFeeOperationTimeUpdate
                    + Hashgraph!gasForPotentialListTraversal
<1>1. Abi["BorrowerOperations"]["openTrove"] =
        Function(<<"uint256", "uint256", "address", "address">>, "payable")
  BY DEF Abi, BorrowerOperations_openTrove
<1>2. Hashgraph!populateOpenTrove(params, max, fees, <<x, y>>) =
        OurCall("BorrowerOperations", "openTrove",
          << <<"uint256", rate>>, <<"uint256", a + 1>>, <<"address", x>>, <<"address", y>> >>, a, gas)
  BY DEF Hashgraph!populateOpenTrove, OurCall, Hashgraph!uint256, Hashgraph!address
<1>3. Ethers!openTrove(params, max, fees, <<x, y>>) =
        TheirCall("BorrowerOperations", "openTrove", a, <<rate, a + 1, x, y>>)
  BY SameBorrowingRate, Joined2 DEF Ethers!openTrove, TheirCall
<1> HIDE DEF rate, gas
<1> QED
  BY <1>1, <1>2, <1>3, FourArguments

\* What is asked of a Trove: its parameters are functions of their names.
LEMMA AdjustAgrees ==
    ASSUME NEW m, NEW params, NEW max \in Rate, NEW fees, NEW x, NEW y
    PROVE  Agrees(m, Hashgraph!populateAdjustTrove(params, max, fees, <<x, y>>),
                     Ethers!adjustTrove(params, max, fees, <<x, y>>))
<1> DEFINE given(p) == IF p \in DOMAIN params THEN params[p] ELSE 0
           rate == IF max # NONE THEN max ELSE Hashgraph!borrowingRate(fees) + BorrowingTolerance
           gas == Hashgraph!base + Hashgraph!gasForPotentialListTraversal
<1>1. Abi["BorrowerOperations"]["adjustTrove"] =
        Function(<<"uint256", "uint256", "uint256", "bool", "address", "address">>, "payable")
  BY DEF Abi, BorrowerOperations_adjustTrove
<1>2. max # 0
  BY RatesAre
<1>3. CASE "borrowHCHF" \in DOMAIN params
  <2> DEFINE hbar == given("depositCollateral")
             out == given("withdrawCollateral")
             b == "borrowHCHF" \in DOMAIN params
             more == gas + Hashgraph!gasForPotentialLastFeeOperationTimeUpdate
  <2>1. Hashgraph!populateAdjustTrove(params, max, fees, <<x, y>>) =
          OurCall("BorrowerOperations", "adjustTrove",
            << <<"uint256", rate>>, <<"uint256", out>>, <<"uint256", params.borrowHCHF>>, <<"bool", b>>,
               <<"address", x>>, <<"address", y>> >>, hbar, more)
    BY <1>2, <1>3 DEF Hashgraph!populateAdjustTrove, OurCall, Hashgraph!uint256, Hashgraph!address, Hashgraph!bool
  <2>2. Ethers!adjustTrove(params, max, fees, <<x, y>>) =
          TheirCall("BorrowerOperations", "adjustTrove", hbar, <<rate, out, params.borrowHCHF, b>> \o <<x, y>>)
    BY <1>2, <1>3, SameBorrowingRate DEF Ethers!adjustTrove, TheirCall
  <2> HIDE DEF rate, gas, hbar, out, more, b
  <2>3. <<rate, out, params.borrowHCHF, b>> \o <<x, y>> = <<rate, out, params.borrowHCHF, b, x, y>>
    BY Joined4
  <2> QED
    BY <1>1, <2>1, <2>2, <2>3, SixArguments
<1>4. CASE "borrowHCHF" \notin DOMAIN params
  <2> DEFINE hbar == given("depositCollateral")
             out == given("withdrawCollateral")
             repaid == given("repayHCHF")
             less == IF max # NONE THEN max ELSE 0
             b == "borrowHCHF" \in DOMAIN params
             more == gas + 0
  <2>1. Hashgraph!populateAdjustTrove(params, max, fees, <<x, y>>) =
          OurCall("BorrowerOperations", "adjustTrove",
            << <<"uint256", less>>, <<"uint256", out>>, <<"uint256", repaid>>, <<"bool", b>>,
               <<"address", x>>, <<"address", y>> >>, hbar, more)
    BY <1>2, <1>4 DEF Hashgraph!populateAdjustTrove, OurCall, Hashgraph!uint256, Hashgraph!address, Hashgraph!bool
  <2>2. Ethers!adjustTrove(params, max, fees, <<x, y>>) =
          TheirCall("BorrowerOperations", "adjustTrove", hbar, <<less, out, repaid, b>> \o <<x, y>>)
    BY <1>2, <1>4 DEF Ethers!adjustTrove, TheirCall
  <2> HIDE DEF less, gas, hbar, out, repaid, more, b
  <2>3. <<less, out, repaid, b>> \o <<x, y>> = <<less, out, repaid, b, x, y>>
    BY Joined4
  <2> QED
    BY <1>1, <2>1, <2>2, <2>3, SixArguments
<1> QED
  BY <1>3, <1>4

LEMMA RedemptionAgrees ==
    ASSUME NEW a, NEW max \in Rate, NEW reads
    PROVE  Agrees("redeemHCHF", Hashgraph!populateRedeemHCHF(a, max, reads).rawPopulatedTransaction,
                                Ethers!redeemHCHF(a, max, reads).rawPopulatedTransaction)
<1> DEFINE v1 == reads.truncatedHCHFamount
           v2 == reads.firstRedemptionHint
           v3 == reads.partialHints.upper
           v4 == reads.partialHints.lower
           v5 == reads.partialHints.nicr
           k == RedeemMaxIterations
           rate == IF max # NONE THEN max
                   ELSE Hashgraph!defaultMaxRedemptionRate(reads.fees, reads.total, reads.truncatedHCHFamount)
           gas == Hashgraph!base + Hashgraph!gasForPotentialLastFeeOperationTimeUpdate
           ours == << <<"uint256", v1>>, <<"address", v2>>, <<"address", v3>>, <<"address", v4>>, <<"uint256", v5>>,
                      <<"uint256", k * DIGITS>>, <<"uint256", rate>> >>
           theirs == <<v1, v2, v3, v4, v5, k, rate>>
           inputs == <<"uint256", "address", "address", "address", "uint256", "uint256", "uint256">>
<1>1. Abi["TroveManager"]["redeemCollateral"] = Function(inputs, "nonpayable")
  BY DEF Abi, TroveManager_redeemCollateral
<1>2. max # 0
  BY RatesAre
<1>3. Hashgraph!populateRedeemHCHF(a, max, reads).rawPopulatedTransaction =
        OurCall("TroveManager", "redeemCollateral", ours, 0, gas)
  BY <1>2 DEF Hashgraph!populateRedeemHCHF, Hashgraph!populateRedemption, OurCall, Hashgraph!uint256, Hashgraph!address
<1>4. Ethers!redeemHCHF(a, max, reads).rawPopulatedTransaction =
        TheirCall("TroveManager", "redeemCollateral", 0, theirs)
  BY SameDefaultRate DEF Ethers!redeemHCHF, Ethers!populateRedemption, TheirCall
<1> HIDE DEF v1, v2, v3, v4, v5, k, rate, gas
<1>5. [i \in DOMAIN ours |-> ours[i][1]] = inputs
  OBVIOUS
<1>6. \A i \in DOMAIN ours : Fits("redeemHCHF", ours[i][2], theirs[i])
  BY DEF Fits
<1>7. 0 > 0 => "nonpayable" = "payable"
  OBVIOUS
<1> HIDE DEF ours, theirs, inputs
<1>8. Agrees("redeemHCHF", OurCall("TroveManager", "redeemCollateral", ours, 0, gas),
                           TheirCall("TroveManager", "redeemCollateral", 0, theirs))
  BY <1>1, <1>5, <1>6, <1>7, CallAgrees
<1> QED
  BY <1>3, <1>4, <1>8

\* The methods whose calls have no arguments, or one.
LEMMA PlainCallsAgree ==
    ASSUME NEW a, NEW x, NEW y
    PROVE  /\ Agrees("closeTrove", Hashgraph!populateCloseTrove, Ethers!closeTrove)
           /\ Agrees("claimCollateralSurplus", Hashgraph!populateClaimCollateralSurplus, Ethers!claimCollateralSurplus)
           /\ Agrees("withdrawHLQTRewardFromLiquidityMining", Hashgraph!populateWithdrawHLQTRewardFromLiquidityMining, Ethers!withdrawHLQTRewardFromLiquidityMining)
           /\ Agrees("exitLiquidityMining", Hashgraph!populateExitLiquidityMining, Ethers!exitLiquidityMining)
           /\ Agrees("liquidate", Hashgraph!populateLiquidate(<<x, y>>), Ethers!liquidate(<<x, y>>))
           /\ Agrees("liquidateOne", Hashgraph!populateLiquidateOne(x), Ethers!liquidateOne(x))
           /\ Agrees("withdrawHCHFFromStabilityPool", Hashgraph!populateWithdrawHCHFFromStabilityPool(a), Ethers!withdrawHCHFFromStabilityPool(a))
           /\ Agrees("withdrawGainsFromStabilityPool", Hashgraph!populateWithdrawGainsFromStabilityPool, Ethers!withdrawGainsFromStabilityPool)
           /\ Agrees("registerFrontend", Hashgraph!populateRegisterFrontend(a), Ethers!registerFrontend(a))
           /\ Agrees("stakeHLQT", Hashgraph!populateStakeHLQT(a), Ethers!stakeHLQT(a))
           /\ Agrees("unstakeHLQT", Hashgraph!populateUnstakeHLQT(a), Ethers!unstakeHLQT(a))
           /\ Agrees("withdrawGainsFromStaking", Hashgraph!populateWithdrawGainsFromStaking, Ethers!withdrawGainsFromStaking)
           /\ Agrees("stakeUniTokens", Hashgraph!populateStakeUniTokens(a), Ethers!stakeUniTokens(a))
           /\ Agrees("unstakeUniTokens", Hashgraph!populateUnstakeUniTokens(a), Ethers!unstakeUniTokens(a))
<1>1. Agrees("closeTrove", Hashgraph!populateCloseTrove, Ethers!closeTrove)
  <2> DEFINE c == "BorrowerOperations"
             f == "closeTrove"
  <2>1. Abi[c][f] = Function(<<>>, "nonpayable")
    BY DEF Abi, BorrowerOperations_closeTrove
  <2>2. /\ Hashgraph!populateCloseTrove = OurCall(c, f, <<>>, 0, Hashgraph!populateCloseTrove.gas)
        /\ Ethers!closeTrove = TheirCall(c, f, 0, <<>>)
    BY DEF Hashgraph!populateCloseTrove, Hashgraph!TypedContractExecuteTransaction, OurCall,
           Ethers!closeTrove, TheirCall
  <2> HIDE DEF c, f
  <2> QED
    BY <2>1, <2>2, NoArguments
<1>2. Agrees("claimCollateralSurplus", Hashgraph!populateClaimCollateralSurplus, Ethers!claimCollateralSurplus)
  <2> DEFINE c == "BorrowerOperations"
             f == "claimCollateral"
  <2>1. Abi[c][f] = Function(<<>>, "nonpayable")
    BY DEF Abi, BorrowerOperations_claimCollateral
  <2>2. /\ Hashgraph!populateClaimCollateralSurplus = OurCall(c, f, <<>>, 0, Hashgraph!populateClaimCollateralSurplus.gas)
        /\ Ethers!claimCollateralSurplus = TheirCall(c, f, 0, <<>>)
    BY DEF Hashgraph!populateClaimCollateralSurplus, Hashgraph!TypedContractExecuteTransaction, OurCall,
           Ethers!claimCollateralSurplus, TheirCall
  <2> HIDE DEF c, f
  <2> QED
    BY <2>1, <2>2, NoArguments
<1>3. Agrees("withdrawHLQTRewardFromLiquidityMining", Hashgraph!populateWithdrawHLQTRewardFromLiquidityMining, Ethers!withdrawHLQTRewardFromLiquidityMining)
  <2> DEFINE c == "Unipool"
             f == "claimReward"
  <2>1. Abi[c][f] = Function(<<>>, "nonpayable")
    BY DEF Abi, Unipool_claimReward
  <2>2. /\ Hashgraph!populateWithdrawHLQTRewardFromLiquidityMining = OurCall(c, f, <<>>, 0, Hashgraph!populateWithdrawHLQTRewardFromLiquidityMining.gas)
        /\ Ethers!withdrawHLQTRewardFromLiquidityMining = TheirCall(c, f, 0, <<>>)
    BY DEF Hashgraph!populateWithdrawHLQTRewardFromLiquidityMining, Hashgraph!TypedContractExecuteTransaction, OurCall,
           Ethers!withdrawHLQTRewardFromLiquidityMining, TheirCall
  <2> HIDE DEF c, f
  <2> QED
    BY <2>1, <2>2, NoArguments
<1>4. Agrees("exitLiquidityMining", Hashgraph!populateExitLiquidityMining, Ethers!exitLiquidityMining)
  <2> DEFINE c == "Unipool"
             f == "withdrawAndClaim"
  <2>1. Abi[c][f] = Function(<<>>, "nonpayable")
    BY DEF Abi, Unipool_withdrawAndClaim
  <2>2. /\ Hashgraph!populateExitLiquidityMining = OurCall(c, f, <<>>, 0, Hashgraph!populateExitLiquidityMining.gas)
        /\ Ethers!exitLiquidityMining = TheirCall(c, f, 0, <<>>)
    BY DEF Hashgraph!populateExitLiquidityMining, Hashgraph!TypedContractExecuteTransaction, OurCall,
           Ethers!exitLiquidityMining, TheirCall
  <2> HIDE DEF c, f
  <2> QED
    BY <2>1, <2>2, NoArguments
<1>5. Agrees("liquidate", Hashgraph!populateLiquidate(<<x, y>>), Ethers!liquidate(<<x, y>>))
  <2> DEFINE c == "TroveManager"
             f == "batchLiquidateTroves"
             v == <<x, y>>
             gas == Hashgraph!populateLiquidate(<<x, y>>).gas
  <2>1. Abi[c][f] = Function(<<"address[]">>, "nonpayable")
    BY DEF Abi, TroveManager_batchLiquidateTroves
  <2>2. /\ Hashgraph!populateLiquidate(<<x, y>>) = OurCall(c, f, << <<"address[]", v>> >>, 0, gas)
        /\ Ethers!liquidate(<<x, y>>) = TheirCall(c, f, 0, <<v>>)
    BY DEF Hashgraph!populateLiquidate, Hashgraph!TypedContractExecuteTransaction, OurCall, Hashgraph!addressArray,
           Ethers!liquidate, TheirCall
  <2>3. Fits("liquidate", v, v)
    BY DEF Fits
  <2> HIDE DEF c, f, v, gas
  <2> QED
    BY <2>1, <2>2, <2>3, OneArgument
<1>6. Agrees("liquidateOne", Hashgraph!populateLiquidateOne(x), Ethers!liquidateOne(x))
  <2> DEFINE c == "TroveManager"
             f == "liquidate"
             v == x
             gas == Hashgraph!populateLiquidateOne(x).gas
  <2>1. Abi[c][f] = Function(<<"address">>, "nonpayable")
    BY DEF Abi, TroveManager_liquidate
  <2>2. /\ Hashgraph!populateLiquidateOne(x) = OurCall(c, f, << <<"address", v>> >>, 0, gas)
        /\ Ethers!liquidateOne(x) = TheirCall(c, f, 0, <<v>>)
    BY DEF Hashgraph!populateLiquidateOne, Hashgraph!TypedContractExecuteTransaction, OurCall, Hashgraph!address,
           Ethers!liquidateOne, TheirCall
  <2>3. Fits("liquidateOne", v, v)
    BY DEF Fits
  <2> HIDE DEF c, f, v, gas
  <2> QED
    BY <2>1, <2>2, <2>3, OneArgument
<1>7. Agrees("withdrawHCHFFromStabilityPool", Hashgraph!populateWithdrawHCHFFromStabilityPool(a), Ethers!withdrawHCHFFromStabilityPool(a))
  <2> DEFINE c == "StabilityPool"
             f == "withdrawFromSP"
             v == a
             gas == Hashgraph!populateWithdrawHCHFFromStabilityPool(a).gas
  <2>1. Abi[c][f] = Function(<<"uint256">>, "nonpayable")
    BY DEF Abi, StabilityPool_withdrawFromSP
  <2>2. /\ Hashgraph!populateWithdrawHCHFFromStabilityPool(a) = OurCall(c, f, << <<"uint256", v>> >>, 0, gas)
        /\ Ethers!withdrawHCHFFromStabilityPool(a) = TheirCall(c, f, 0, <<v>>)
    BY DEF Hashgraph!populateWithdrawHCHFFromStabilityPool, Hashgraph!TypedContractExecuteTransaction, OurCall, Hashgraph!uint256,
           Ethers!withdrawHCHFFromStabilityPool, TheirCall
  <2>3. Fits("withdrawHCHFFromStabilityPool", v, v)
    BY DEF Fits
  <2> HIDE DEF c, f, v, gas
  <2> QED
    BY <2>1, <2>2, <2>3, OneArgument
<1>8. Agrees("withdrawGainsFromStabilityPool", Hashgraph!populateWithdrawGainsFromStabilityPool, Ethers!withdrawGainsFromStabilityPool)
  <2> DEFINE c == "StabilityPool"
             f == "withdrawFromSP"
             v == 0
             gas == Hashgraph!populateWithdrawGainsFromStabilityPool.gas
  <2>1. Abi[c][f] = Function(<<"uint256">>, "nonpayable")
    BY DEF Abi, StabilityPool_withdrawFromSP
  <2>2. /\ Hashgraph!populateWithdrawGainsFromStabilityPool = OurCall(c, f, << <<"uint256", v>> >>, 0, gas)
        /\ Ethers!withdrawGainsFromStabilityPool = TheirCall(c, f, 0, <<v>>)
    BY DEF Hashgraph!populateWithdrawGainsFromStabilityPool, Hashgraph!TypedContractExecuteTransaction, OurCall, Hashgraph!uint256,
           Ethers!withdrawGainsFromStabilityPool, TheirCall
  <2>3. Fits("withdrawGainsFromStabilityPool", v, v)
    BY DEF Fits
  <2> HIDE DEF c, f, v, gas
  <2> QED
    BY <2>1, <2>2, <2>3, OneArgument
<1>9. Agrees("registerFrontend", Hashgraph!populateRegisterFrontend(a), Ethers!registerFrontend(a))
  <2> DEFINE c == "StabilityPool"
             f == "registerFrontEnd"
             v == a
             gas == Hashgraph!populateRegisterFrontend(a).gas
  <2>1. Abi[c][f] = Function(<<"uint256">>, "nonpayable")
    BY DEF Abi, StabilityPool_registerFrontEnd
  <2>2. /\ Hashgraph!populateRegisterFrontend(a) = OurCall(c, f, << <<"uint256", v>> >>, 0, gas)
        /\ Ethers!registerFrontend(a) = TheirCall(c, f, 0, <<v>>)
    BY DEF Hashgraph!populateRegisterFrontend, Hashgraph!TypedContractExecuteTransaction, OurCall, Hashgraph!uint256,
           Ethers!registerFrontend, TheirCall
  <2>3. Fits("registerFrontend", v, v)
    BY DEF Fits
  <2> HIDE DEF c, f, v, gas
  <2> QED
    BY <2>1, <2>2, <2>3, OneArgument
<1>10. Agrees("stakeHLQT", Hashgraph!populateStakeHLQT(a), Ethers!stakeHLQT(a))
  <2> DEFINE c == "HLQTStaking"
             f == "stake"
             v == a
             gas == Hashgraph!populateStakeHLQT(a).gas
  <2>1. Abi[c][f] = Function(<<"uint256">>, "nonpayable")
    BY DEF Abi, HLQTStaking_stake
  <2>2. /\ Hashgraph!populateStakeHLQT(a) = OurCall(c, f, << <<"uint256", v>> >>, 0, gas)
        /\ Ethers!stakeHLQT(a) = TheirCall(c, f, 0, <<v>>)
    BY DEF Hashgraph!populateStakeHLQT, Hashgraph!TypedContractExecuteTransaction, OurCall, Hashgraph!uint256,
           Ethers!stakeHLQT, TheirCall
  <2>3. Fits("stakeHLQT", v, v)
    BY DEF Fits
  <2> HIDE DEF c, f, v, gas
  <2> QED
    BY <2>1, <2>2, <2>3, OneArgument
<1>11. Agrees("unstakeHLQT", Hashgraph!populateUnstakeHLQT(a), Ethers!unstakeHLQT(a))
  <2> DEFINE c == "HLQTStaking"
             f == "unstake"
             v == a
             gas == Hashgraph!populateUnstakeHLQT(a).gas
  <2>1. Abi[c][f] = Function(<<"uint256">>, "nonpayable")
    BY DEF Abi, HLQTStaking_unstake
  <2>2. /\ Hashgraph!populateUnstakeHLQT(a) = OurCall(c, f, << <<"uint256", v>> >>, 0, gas)
        /\ Ethers!unstakeHLQT(a) = TheirCall(c, f, 0, <<v>>)
    BY DEF Hashgraph!populateUnstakeHLQT, Hashgraph!TypedContractExecuteTransaction, OurCall, Hashgraph!uint256,
           Ethers!unstakeHLQT, TheirCall
  <2>3. Fits("unstakeHLQT", v, v)
    BY DEF Fits
  <2> HIDE DEF c, f, v, gas
  <2> QED
    BY <2>1, <2>2, <2>3, OneArgument
<1>12. Agrees("withdrawGainsFromStaking", Hashgraph!populateWithdrawGainsFromStaking, Ethers!withdrawGainsFromStaking)
  <2> DEFINE c == "HLQTStaking"
             f == "unstake"
             v == 0
             gas == Hashgraph!populateWithdrawGainsFromStaking.gas
  <2>1. Abi[c][f] = Function(<<"uint256">>, "nonpayable")
    BY DEF Abi, HLQTStaking_unstake
  <2>2. /\ Hashgraph!populateWithdrawGainsFromStaking = OurCall(c, f, << <<"uint256", v>> >>, 0, gas)
        /\ Ethers!withdrawGainsFromStaking = TheirCall(c, f, 0, <<v>>)
    BY DEF Hashgraph!populateWithdrawGainsFromStaking, Hashgraph!TypedContractExecuteTransaction, OurCall, Hashgraph!uint256,
           Ethers!withdrawGainsFromStaking, TheirCall, Hashgraph!populateUnstakeHLQT, Ethers!unstakeHLQT
  <2>3. Fits("withdrawGainsFromStaking", v, v)
    BY DEF Fits
  <2> HIDE DEF c, f, v, gas
  <2> QED
    BY <2>1, <2>2, <2>3, OneArgument
<1>13. Agrees("stakeUniTokens", Hashgraph!populateStakeUniTokens(a), Ethers!stakeUniTokens(a))
  <2> DEFINE c == "Unipool"
             f == "stake"
             v == a
             gas == Hashgraph!populateStakeUniTokens(a).gas
  <2>1. Abi[c][f] = Function(<<"uint256">>, "nonpayable")
    BY DEF Abi, Unipool_stake
  <2>2. /\ Hashgraph!populateStakeUniTokens(a) = OurCall(c, f, << <<"uint256", v>> >>, 0, gas)
        /\ Ethers!stakeUniTokens(a) = TheirCall(c, f, 0, <<v>>)
    BY DEF Hashgraph!populateStakeUniTokens, Hashgraph!TypedContractExecuteTransaction, OurCall, Hashgraph!uint256,
           Ethers!stakeUniTokens, TheirCall
  <2>3. Fits("stakeUniTokens", v, v)
    BY DEF Fits
  <2> HIDE DEF c, f, v, gas
  <2> QED
    BY <2>1, <2>2, <2>3, OneArgument
<1>14. Agrees("unstakeUniTokens", Hashgraph!populateUnstakeUniTokens(a), Ethers!unstakeUniTokens(a))
  <2> DEFINE c == "Unipool"
             f == "withdraw"
             v == a
             gas == Hashgraph!populateUnstakeUniTokens(a).gas
  <2>1. Abi[c][f] = Function(<<"uint256">>, "nonpayable")
    BY DEF Abi, Unipool_withdraw
  <2>2. /\ Hashgraph!populateUnstakeUniTokens(a) = OurCall(c, f, << <<"uint256", v>> >>, 0, gas)
        /\ Ethers!unstakeUniTokens(a) = TheirCall(c, f, 0, <<v>>)
    BY DEF Hashgraph!populateUnstakeUniTokens, Hashgraph!TypedContractExecuteTransaction, OurCall, Hashgraph!uint256,
           Ethers!unstakeUniTokens, TheirCall
  <2>3. Fits("unstakeUniTokens", v, v)
    BY DEF Fits
  <2> HIDE DEF c, f, v, gas
  <2> QED
    BY <2>1, <2>2, <2>3, OneArgument
<1> QED
  BY <1>1, <1>2, <1>3, <1>4, <1>5, <1>6, <1>7, <1>8, <1>9, <1>10, <1>11, <1>12, <1>13, <1>14

LEMMA LiquidateUpToAgrees ==
    ASSUME NEW a
    PROVE  Agrees("liquidateUpTo", Hashgraph!populateLiquidateUpTo(a), Ethers!liquidateUpTo(a))
<1> DEFINE c == "TroveManager"
           f == "liquidateTroves"
           gas == Hashgraph!populateLiquidateUpTo(a).gas
           v == a * DIGITS
<1>1. Abi[c][f] = Function(<<"uint256">>, "nonpayable")
  BY DEF Abi, TroveManager_liquidateTroves
<1>2. /\ Hashgraph!populateLiquidateUpTo(a) = OurCall(c, f, << <<"uint256", v>> >>, 0, gas)
      /\ Ethers!liquidateUpTo(a) = TheirCall(c, f, 0, <<a>>)
  BY DEF Hashgraph!populateLiquidateUpTo, Hashgraph!TypedContractExecuteTransaction, OurCall, Hashgraph!uint256,
         Ethers!liquidateUpTo, TheirCall
<1>3. Fits("liquidateUpTo", v, a)
  BY DEF Fits
<1> HIDE DEF c, f, v, gas
<1> QED
  BY <1>1, <1>2, <1>3, OneArgument

LEMMA DepositAgrees ==
    ASSUME NEW a
    PROVE  Agrees("depositHCHFInStabilityPool",
             Hashgraph!populateDepositHCHFInStabilityPool(a, NONE, "frontend"),
             Ethers!depositHCHFInStabilityPool(a, NONE, "frontend"))
<1> DEFINE c == "StabilityPool"
           f == "provideToSP"
           v == "frontend"
           ours == Hashgraph!populateDepositHCHFInStabilityPool(a, NONE, "frontend")
           theirs == Ethers!depositHCHFInStabilityPool(a, NONE, "frontend")
           gas == ours.gas
<1>1. Abi[c][f] = Function(<<"uint256", "address">>, "nonpayable")
  BY DEF Abi, StabilityPool_provideToSP
<1>2. /\ ours = OurCall(c, f, << <<"uint256", a>>, <<"address", v>> >>, 0, gas)
      /\ theirs = TheirCall(c, f, 0, <<a, v>>)
  BY RatesAre DEF Hashgraph!populateDepositHCHFInStabilityPool, Hashgraph!TypedContractExecuteTransaction, OurCall,
         Hashgraph!uint256, Hashgraph!address, Ethers!depositHCHFInStabilityPool, TheirCall
<1> HIDE DEF c, f, v, gas
<1> QED
  BY <1>1, <1>2, TwoArguments

LEMMA TransferAgrees ==
    ASSUME NEW x, NEW y
    PROVE  Agrees("transferCollateralGainToTrove", Hashgraph!populateTransferCollateralGainToTrove(<<x, y>>),
             Ethers!transferCollateralGainToTrove(<<x, y>>))
<1> DEFINE c == "StabilityPool"
           f == "withdrawETHGainToTrove"
           ours == Hashgraph!populateTransferCollateralGainToTrove(<<x, y>>)
           theirs == Ethers!transferCollateralGainToTrove(<<x, y>>)
           gas == ours.gas
<1>1. Abi[c][f] = Function(<<"address", "address">>, "nonpayable")
  BY DEF Abi, StabilityPool_withdrawETHGainToTrove
<1>2. /\ ours = OurCall(c, f, << <<"address", x>>, <<"address", y>> >>, 0, gas)
      /\ theirs = TheirCall(c, f, 0, <<x, y>>)
  BY DEF Hashgraph!populateTransferCollateralGainToTrove, Hashgraph!TypedContractExecuteTransaction, OurCall,
         Hashgraph!address, Ethers!transferCollateralGainToTrove, TheirCall
<1> HIDE DEF c, f, gas
<1> QED
  BY <1>1, <1>2, TwoArguments

LEMMA ApprovalAgrees ==
    ASSUME NEW a \in Nat
    PROVE  Agrees("approveUniTokens", Hashgraph!populateApproveUniTokens(a), Ethers!approveUniTokens(a))
<1> DEFINE c == "IERC20"
           f == "approve"
           v == "saucerSwapPool"
           ours == Hashgraph!populateApproveUniTokens(a)
           theirs == Ethers!approveUniTokens(a)
           gas == ours.gas
<1>1. Abi[c][f] = Function(<<"address", "uint256">>, "nonpayable")
  BY DEF Abi, IERC20_approve
<1>2. /\ ours = OurCall(c, f, << <<"address", v>>, <<"uint256", a>> >>, 0, gas)
      /\ theirs = TheirCall(c, f, 0, <<v, a>>)
  BY RatesAre DEF Hashgraph!populateApproveUniTokens, Hashgraph!TypedContractExecuteTransaction, OurCall,
         Hashgraph!uint256, Hashgraph!address, Ethers!approveUniTokens, TheirCall
<1> HIDE DEF c, f, v, gas
<1> QED
  BY <1>1, <1>2, TwoArguments

Method ==
    {"openTrove", "closeTrove", "adjustTrove", "depositCollateral", "withdrawCollateral", "borrowHCHF",
     "repayHCHF", "claimCollateralSurplus", "liquidate", "liquidateOne", "liquidateUpTo",
     "depositHCHFInStabilityPool", "withdrawHCHFFromStabilityPool",
     "withdrawGainsFromStabilityPool", "transferCollateralGainToTrove", "redeemHCHF", "stakeHLQT",
     "unstakeHLQT", "withdrawGainsFromStaking", "registerFrontend", "approveUniTokens",
     "stakeUniTokens", "unstakeUniTokens", "withdrawHLQTRewardFromLiquidityMining",
     "exitLiquidityMining"}

Ours(a, max, reads, hints) == Hashgraph!asPopulatable(a, max, reads, hints)
Theirs(a, max, reads, hints) == Ethers!Populatable(a, max, reads, hints)

LEMMA MethodsAgree ==
    ASSUME NEW a \in Nat, NEW max \in Rate, NEW reads, NEW x, NEW y
    PROVE  /\ DOMAIN Ours(a, max, reads, <<x, y>>) = Method
           /\ \A m \in Method :
                Agrees(m, Ours(a, max, reads, <<x, y>>)[m], Theirs(a, max, reads, <<x, y>>)[m])
<1> DEFINE h == <<x, y>>
           o == Ours(a, max, reads, h)
           t == Theirs(a, max, reads, h)
           opening == [depositCollateral |-> a, borrowHCHF |-> a + 1]
<1>1. h[1] = x
  OBVIOUS
<1>2. DOMAIN o = Method
  BY DEF Ours, Hashgraph!asPopulatable, Method
<1>3. NONE \in Rate
  BY DEF Rate
<1>4. Agrees("openTrove", o.openTrove, t.openTrove)
  <2>1. /\ o.openTrove = Hashgraph!populateOpenTrove(opening, max, reads.fees, h)
        /\ t.openTrove = Ethers!openTrove(opening, max, reads.fees, h)
    BY <1>1 DEF Ours, Theirs, Hashgraph!asPopulatable, Ethers!Populatable
  <2> HIDE DEF o, t
  <2>2. Agrees("openTrove", Hashgraph!populateOpenTrove(opening, max, reads.fees, h),
               Ethers!openTrove(opening, max, reads.fees, h))
    BY <1>3, OpenAgrees
  <2> QED
    BY <2>1, <2>2
<1>5. Agrees("closeTrove", o.closeTrove, t.closeTrove)
  <2>1. /\ o.closeTrove = Hashgraph!populateCloseTrove
        /\ t.closeTrove = Ethers!closeTrove
    BY <1>1 DEF Ours, Theirs, Hashgraph!asPopulatable, Ethers!Populatable
  <2> HIDE DEF o, t
  <2>2. Agrees("closeTrove", Hashgraph!populateCloseTrove,
               Ethers!closeTrove)
    BY <1>3, PlainCallsAgree
  <2> QED
    BY <2>1, <2>2
<1>6. Agrees("adjustTrove", o.adjustTrove, t.adjustTrove)
  <2>1. /\ o.adjustTrove = Hashgraph!populateAdjustTrove(opening, max, reads.fees, h)
        /\ t.adjustTrove = Ethers!adjustTrove(opening, max, reads.fees, h)
    BY <1>1 DEF Ours, Theirs, Hashgraph!asPopulatable, Ethers!Populatable
  <2> HIDE DEF o, t
  <2>2. Agrees("adjustTrove", Hashgraph!populateAdjustTrove(opening, max, reads.fees, h),
               Ethers!adjustTrove(opening, max, reads.fees, h))
    BY <1>3, AdjustAgrees
  <2> QED
    BY <2>1, <2>2
<1>7. Agrees("depositCollateral", o.depositCollateral, t.depositCollateral)
  <2>1. /\ o.depositCollateral = Hashgraph!populateAdjustTrove([depositCollateral |-> a], NONE, reads.fees, h)
        /\ t.depositCollateral = Ethers!adjustTrove([depositCollateral |-> a], NONE, reads.fees, h)
    BY <1>1 DEF Ours, Theirs, Hashgraph!asPopulatable, Ethers!Populatable, Hashgraph!populateDepositCollateral, Ethers!depositCollateral
  <2> HIDE DEF o, t
  <2>2. Agrees("depositCollateral", Hashgraph!populateAdjustTrove([depositCollateral |-> a], NONE, reads.fees, h),
               Ethers!adjustTrove([depositCollateral |-> a], NONE, reads.fees, h))
    BY <1>3, AdjustAgrees
  <2> QED
    BY <2>1, <2>2
<1>8. Agrees("withdrawCollateral", o.withdrawCollateral, t.withdrawCollateral)
  <2>1. /\ o.withdrawCollateral = Hashgraph!populateAdjustTrove([withdrawCollateral |-> a], NONE, reads.fees, h)
        /\ t.withdrawCollateral = Ethers!adjustTrove([withdrawCollateral |-> a], NONE, reads.fees, h)
    BY <1>1 DEF Ours, Theirs, Hashgraph!asPopulatable, Ethers!Populatable, Hashgraph!populateWithdrawCollateral, Ethers!withdrawCollateral
  <2> HIDE DEF o, t
  <2>2. Agrees("withdrawCollateral", Hashgraph!populateAdjustTrove([withdrawCollateral |-> a], NONE, reads.fees, h),
               Ethers!adjustTrove([withdrawCollateral |-> a], NONE, reads.fees, h))
    BY <1>3, AdjustAgrees
  <2> QED
    BY <2>1, <2>2
<1>9. Agrees("borrowHCHF", o.borrowHCHF, t.borrowHCHF)
  <2>1. /\ o.borrowHCHF = Hashgraph!populateAdjustTrove([borrowHCHF |-> a], NONE, reads.fees, h)
        /\ t.borrowHCHF = Ethers!adjustTrove([borrowHCHF |-> a], NONE, reads.fees, h)
    BY <1>1 DEF Ours, Theirs, Hashgraph!asPopulatable, Ethers!Populatable, Hashgraph!populateBorrowHCHF, Ethers!borrowHCHF
  <2> HIDE DEF o, t
  <2>2. Agrees("borrowHCHF", Hashgraph!populateAdjustTrove([borrowHCHF |-> a], NONE, reads.fees, h),
               Ethers!adjustTrove([borrowHCHF |-> a], NONE, reads.fees, h))
    BY <1>3, AdjustAgrees
  <2> QED
    BY <2>1, <2>2
<1>10. Agrees("repayHCHF", o.repayHCHF, t.repayHCHF)
  <2>1. /\ o.repayHCHF = Hashgraph!populateAdjustTrove([repayHCHF |-> a], NONE, reads.fees, h)
        /\ t.repayHCHF = Ethers!adjustTrove([repayHCHF |-> a], NONE, reads.fees, h)
    BY <1>1 DEF Ours, Theirs, Hashgraph!asPopulatable, Ethers!Populatable, Hashgraph!populateRepayHCHF, Ethers!repayHCHF
  <2> HIDE DEF o, t
  <2>2. Agrees("repayHCHF", Hashgraph!populateAdjustTrove([repayHCHF |-> a], NONE, reads.fees, h),
               Ethers!adjustTrove([repayHCHF |-> a], NONE, reads.fees, h))
    BY <1>3, AdjustAgrees
  <2> QED
    BY <2>1, <2>2
<1>11. Agrees("claimCollateralSurplus", o.claimCollateralSurplus, t.claimCollateralSurplus)
  <2>1. /\ o.claimCollateralSurplus = Hashgraph!populateClaimCollateralSurplus
        /\ t.claimCollateralSurplus = Ethers!claimCollateralSurplus
    BY <1>1 DEF Ours, Theirs, Hashgraph!asPopulatable, Ethers!Populatable
  <2> HIDE DEF o, t
  <2>2. Agrees("claimCollateralSurplus", Hashgraph!populateClaimCollateralSurplus,
               Ethers!claimCollateralSurplus)
    BY <1>3, PlainCallsAgree
  <2> QED
    BY <2>1, <2>2
<1>12. Agrees("liquidate", o.liquidate, t.liquidate)
  <2>1. /\ o.liquidate = Hashgraph!populateLiquidate(h)
        /\ t.liquidate = Ethers!liquidate(h)
    BY <1>1 DEF Ours, Theirs, Hashgraph!asPopulatable, Ethers!Populatable
  <2> HIDE DEF o, t
  <2>2. Agrees("liquidate", Hashgraph!populateLiquidate(h),
               Ethers!liquidate(h))
    BY <1>3, PlainCallsAgree
  <2> QED
    BY <2>1, <2>2
<1>13. Agrees("liquidateOne", o.liquidateOne, t.liquidateOne)
  <2>1. /\ o.liquidateOne = Hashgraph!populateLiquidateOne(x)
        /\ t.liquidateOne = Ethers!liquidateOne(x)
    BY <1>1 DEF Ours, Theirs, Hashgraph!asPopulatable, Ethers!Populatable
  <2> HIDE DEF o, t
  <2>2. Agrees("liquidateOne", Hashgraph!populateLiquidateOne(x),
               Ethers!liquidateOne(x))
    BY <1>3, PlainCallsAgree
  <2> QED
    BY <2>1, <2>2
<1>14. Agrees("liquidateUpTo", o.liquidateUpTo, t.liquidateUpTo)
  <2>1. /\ o.liquidateUpTo = Hashgraph!populateLiquidateUpTo(a)
        /\ t.liquidateUpTo = Ethers!liquidateUpTo(a)
    BY <1>1 DEF Ours, Theirs, Hashgraph!asPopulatable, Ethers!Populatable
  <2> HIDE DEF o, t
  <2>2. Agrees("liquidateUpTo", Hashgraph!populateLiquidateUpTo(a),
               Ethers!liquidateUpTo(a))
    BY <1>3, LiquidateUpToAgrees
  <2> QED
    BY <2>1, <2>2
<1>15. Agrees("depositHCHFInStabilityPool", o.depositHCHFInStabilityPool, t.depositHCHFInStabilityPool)
  <2>1. /\ o.depositHCHFInStabilityPool = Hashgraph!populateDepositHCHFInStabilityPool(a, NONE, "frontend")
        /\ t.depositHCHFInStabilityPool = Ethers!depositHCHFInStabilityPool(a, NONE, "frontend")
    BY <1>1 DEF Ours, Theirs, Hashgraph!asPopulatable, Ethers!Populatable
  <2> HIDE DEF o, t
  <2>2. Agrees("depositHCHFInStabilityPool", Hashgraph!populateDepositHCHFInStabilityPool(a, NONE, "frontend"),
               Ethers!depositHCHFInStabilityPool(a, NONE, "frontend"))
    BY <1>3, DepositAgrees
  <2> QED
    BY <2>1, <2>2
<1>16. Agrees("withdrawHCHFFromStabilityPool", o.withdrawHCHFFromStabilityPool, t.withdrawHCHFFromStabilityPool)
  <2>1. /\ o.withdrawHCHFFromStabilityPool = Hashgraph!populateWithdrawHCHFFromStabilityPool(a)
        /\ t.withdrawHCHFFromStabilityPool = Ethers!withdrawHCHFFromStabilityPool(a)
    BY <1>1 DEF Ours, Theirs, Hashgraph!asPopulatable, Ethers!Populatable
  <2> HIDE DEF o, t
  <2>2. Agrees("withdrawHCHFFromStabilityPool", Hashgraph!populateWithdrawHCHFFromStabilityPool(a),
               Ethers!withdrawHCHFFromStabilityPool(a))
    BY <1>3, PlainCallsAgree
  <2> QED
    BY <2>1, <2>2
<1>17. Agrees("withdrawGainsFromStabilityPool", o.withdrawGainsFromStabilityPool, t.withdrawGainsFromStabilityPool)
  <2>1. /\ o.withdrawGainsFromStabilityPool = Hashgraph!populateWithdrawGainsFromStabilityPool
        /\ t.withdrawGainsFromStabilityPool = Ethers!withdrawGainsFromStabilityPool
    BY <1>1 DEF Ours, Theirs, Hashgraph!asPopulatable, Ethers!Populatable
  <2> HIDE DEF o, t
  <2>2. Agrees("withdrawGainsFromStabilityPool", Hashgraph!populateWithdrawGainsFromStabilityPool,
               Ethers!withdrawGainsFromStabilityPool)
    BY <1>3, PlainCallsAgree
  <2> QED
    BY <2>1, <2>2
<1>18. Agrees("transferCollateralGainToTrove", o.transferCollateralGainToTrove, t.transferCollateralGainToTrove)
  <2>1. /\ o.transferCollateralGainToTrove = Hashgraph!populateTransferCollateralGainToTrove(h)
        /\ t.transferCollateralGainToTrove = Ethers!transferCollateralGainToTrove(h)
    BY <1>1 DEF Ours, Theirs, Hashgraph!asPopulatable, Ethers!Populatable
  <2> HIDE DEF o, t
  <2>2. Agrees("transferCollateralGainToTrove", Hashgraph!populateTransferCollateralGainToTrove(h),
               Ethers!transferCollateralGainToTrove(h))
    BY <1>3, TransferAgrees
  <2> QED
    BY <2>1, <2>2
<1>19. Agrees("redeemHCHF", o.redeemHCHF, t.redeemHCHF)
  <2>1. /\ o.redeemHCHF = Hashgraph!populateRedeemHCHF(a, max, reads).rawPopulatedTransaction
        /\ t.redeemHCHF = Ethers!redeemHCHF(a, max, reads).rawPopulatedTransaction
    BY <1>1 DEF Ours, Theirs, Hashgraph!asPopulatable, Ethers!Populatable
  <2> HIDE DEF o, t
  <2>2. Agrees("redeemHCHF", Hashgraph!populateRedeemHCHF(a, max, reads).rawPopulatedTransaction,
               Ethers!redeemHCHF(a, max, reads).rawPopulatedTransaction)
    BY <1>3, RedemptionAgrees
  <2> QED
    BY <2>1, <2>2
<1>20. Agrees("stakeHLQT", o.stakeHLQT, t.stakeHLQT)
  <2>1. /\ o.stakeHLQT = Hashgraph!populateStakeHLQT(a)
        /\ t.stakeHLQT = Ethers!stakeHLQT(a)
    BY <1>1 DEF Ours, Theirs, Hashgraph!asPopulatable, Ethers!Populatable
  <2> HIDE DEF o, t
  <2>2. Agrees("stakeHLQT", Hashgraph!populateStakeHLQT(a),
               Ethers!stakeHLQT(a))
    BY <1>3, PlainCallsAgree
  <2> QED
    BY <2>1, <2>2
<1>21. Agrees("unstakeHLQT", o.unstakeHLQT, t.unstakeHLQT)
  <2>1. /\ o.unstakeHLQT = Hashgraph!populateUnstakeHLQT(a)
        /\ t.unstakeHLQT = Ethers!unstakeHLQT(a)
    BY <1>1 DEF Ours, Theirs, Hashgraph!asPopulatable, Ethers!Populatable
  <2> HIDE DEF o, t
  <2>2. Agrees("unstakeHLQT", Hashgraph!populateUnstakeHLQT(a),
               Ethers!unstakeHLQT(a))
    BY <1>3, PlainCallsAgree
  <2> QED
    BY <2>1, <2>2
<1>22. Agrees("withdrawGainsFromStaking", o.withdrawGainsFromStaking, t.withdrawGainsFromStaking)
  <2>1. /\ o.withdrawGainsFromStaking = Hashgraph!populateWithdrawGainsFromStaking
        /\ t.withdrawGainsFromStaking = Ethers!withdrawGainsFromStaking
    BY <1>1 DEF Ours, Theirs, Hashgraph!asPopulatable, Ethers!Populatable
  <2> HIDE DEF o, t
  <2>2. Agrees("withdrawGainsFromStaking", Hashgraph!populateWithdrawGainsFromStaking,
               Ethers!withdrawGainsFromStaking)
    BY <1>3, PlainCallsAgree
  <2> QED
    BY <2>1, <2>2
<1>23. Agrees("registerFrontend", o.registerFrontend, t.registerFrontend)
  <2>1. /\ o.registerFrontend = Hashgraph!populateRegisterFrontend(a)
        /\ t.registerFrontend = Ethers!registerFrontend(a)
    BY <1>1 DEF Ours, Theirs, Hashgraph!asPopulatable, Ethers!Populatable
  <2> HIDE DEF o, t
  <2>2. Agrees("registerFrontend", Hashgraph!populateRegisterFrontend(a),
               Ethers!registerFrontend(a))
    BY <1>3, PlainCallsAgree
  <2> QED
    BY <2>1, <2>2
<1>24. Agrees("approveUniTokens", o.approveUniTokens, t.approveUniTokens)
  <2>1. /\ o.approveUniTokens = Hashgraph!populateApproveUniTokens(a)
        /\ t.approveUniTokens = Ethers!approveUniTokens(a)
    BY <1>1 DEF Ours, Theirs, Hashgraph!asPopulatable, Ethers!Populatable
  <2> HIDE DEF o, t
  <2>2. Agrees("approveUniTokens", Hashgraph!populateApproveUniTokens(a),
               Ethers!approveUniTokens(a))
    BY <1>3, ApprovalAgrees
  <2> QED
    BY <2>1, <2>2
<1>25. Agrees("stakeUniTokens", o.stakeUniTokens, t.stakeUniTokens)
  <2>1. /\ o.stakeUniTokens = Hashgraph!populateStakeUniTokens(a)
        /\ t.stakeUniTokens = Ethers!stakeUniTokens(a)
    BY <1>1 DEF Ours, Theirs, Hashgraph!asPopulatable, Ethers!Populatable
  <2> HIDE DEF o, t
  <2>2. Agrees("stakeUniTokens", Hashgraph!populateStakeUniTokens(a),
               Ethers!stakeUniTokens(a))
    BY <1>3, PlainCallsAgree
  <2> QED
    BY <2>1, <2>2
<1>26. Agrees("unstakeUniTokens", o.unstakeUniTokens, t.unstakeUniTokens)
  <2>1. /\ o.unstakeUniTokens = Hashgraph!populateUnstakeUniTokens(a)
        /\ t.unstakeUniTokens = Ethers!unstakeUniTokens(a)
    BY <1>1 DEF Ours, Theirs, Hashgraph!asPopulatable, Ethers!Populatable
  <2> HIDE DEF o, t
  <2>2. Agrees("unstakeUniTokens", Hashgraph!populateUnstakeUniTokens(a),
               Ethers!unstakeUniTokens(a))
    BY <1>3, PlainCallsAgree
  <2> QED
    BY <2>1, <2>2
<1>27. Agrees("withdrawHLQTRewardFromLiquidityMining", o.withdrawHLQTRewardFromLiquidityMining, t.withdrawHLQTRewardFromLiquidityMining)
  <2>1. /\ o.withdrawHLQTRewardFromLiquidityMining = Hashgraph!populateWithdrawHLQTRewardFromLiquidityMining
        /\ t.withdrawHLQTRewardFromLiquidityMining = Ethers!withdrawHLQTRewardFromLiquidityMining
    BY <1>1 DEF Ours, Theirs, Hashgraph!asPopulatable, Ethers!Populatable
  <2> HIDE DEF o, t
  <2>2. Agrees("withdrawHLQTRewardFromLiquidityMining", Hashgraph!populateWithdrawHLQTRewardFromLiquidityMining,
               Ethers!withdrawHLQTRewardFromLiquidityMining)
    BY <1>3, PlainCallsAgree
  <2> QED
    BY <2>1, <2>2
<1>28. Agrees("exitLiquidityMining", o.exitLiquidityMining, t.exitLiquidityMining)
  <2>1. /\ o.exitLiquidityMining = Hashgraph!populateExitLiquidityMining
        /\ t.exitLiquidityMining = Ethers!exitLiquidityMining
    BY <1>1 DEF Ours, Theirs, Hashgraph!asPopulatable, Ethers!Populatable
  <2> HIDE DEF o, t
  <2>2. Agrees("exitLiquidityMining", Hashgraph!populateExitLiquidityMining,
               Ethers!exitLiquidityMining)
    BY <1>3, PlainCallsAgree
  <2> QED
    BY <2>1, <2>2
<1> HIDE DEF o, t
<1> QED
  <2> SUFFICES ASSUME NEW m \in Method PROVE Agrees(m, o[m], t[m])
    BY <1>2 DEF o, t
  <2> QED
    BY <1>4, <1>5, <1>6, <1>7, <1>8, <1>9, <1>10, <1>11, <1>12, <1>13, <1>14, <1>15, <1>16, <1>17, <1>18,
       <1>19, <1>20, <1>21, <1>22, <1>23, <1>24, <1>25, <1>26, <1>27, <1>28 DEF Method

\* Whatever the contracts' state, both libraries find the same hints and
\* populate the same call of a function of the contract's interface, with
\* arguments of its types, that pays HBAR only if the function is payable:
\* in lib-hashgraph's populate...() and lib-ethers' PopulatableEthersLiquity,
\* for all 25 methods and any amount, rate and list of Troves.
THEOREM CallsDoAgree == PagesSpec => []CallsAgree
<1>1. ASSUME ChainInv PROVE CallsAgree
  <2> SUFFICES ASSUME NEW a \in Amount \ {0}, NEW max \in MaxRate \cup {NONE}
               PROVE  LET hints == getRedemptionHints(safe(head.troves), a)
                          reads == [fees |-> feesOf(head), total |-> [debt |-> debtOf(head.troves)],
                                    truncatedHCHFamount |-> hints.truncated, firstRedemptionHint |-> "first",
                                    partialHints |-> [Hashgraph!noPartialHints EXCEPT !.nicr = hints.nicr]]
                          list == ListOf(head.troves, a)
                          ours == Ours(a, max, reads, OurHints(a, list))
                          theirs == Theirs(a, max, reads, TheirHints(a, list))
                      IN  \A m \in DOMAIN ours : Agrees(m, ours[m], theirs[m])
    BY DEF CallsAgree, Ours, Theirs, OurHints, TheirHints, ListOf, ApproxHints, Positions, Agrees, Fits
  <2> DEFINE hints == getRedemptionHints(safe(head.troves), a)
             reads == [fees |-> feesOf(head), total |-> [debt |-> debtOf(head.troves)],
                       truncatedHCHFamount |-> hints.truncated, firstRedemptionHint |-> "first",
                       partialHints |-> [Hashgraph!noPartialHints EXCEPT !.nicr = hints.nicr]]
             list == ListOf(head.troves, a)
  <2>1. head.troves \in Seq(OpenTrove)
    BY <1>1, HeadState DEF State
  <2>2. a \in Nat /\ max \in Rate
    BY RedemptionAssumption DEF Rate
  <2> HIDE DEF reads
  <2>3. PICK x, y : OurHints(a, list) = <<x, y>> /\ TheirHints(a, list) = <<x, y>>
    BY <2>1, <2>2, HintsAgree
  <2> HIDE DEF list
  <2>4. /\ DOMAIN Ours(a, max, reads, <<x, y>>) = Method
        /\ \A m \in Method :
             Agrees(m, Ours(a, max, reads, <<x, y>>)[m], Theirs(a, max, reads, <<x, y>>)[m])
    BY <2>2, MethodsAgree
  <2>5. \A m \in DOMAIN Ours(a, max, reads, OurHints(a, list)) :
          Agrees(m, Ours(a, max, reads, OurHints(a, list))[m], Theirs(a, max, reads, TheirHints(a, list))[m])
    BY <2>3, <2>4
  <2> QED
    BY <2>5 DEF reads, list
<1>2. PagesInit => ChainInv /\ TxInv
  BY RedeemInitially DEF PagesInit
<1> QED
  BY <1>1, <1>2, RedeemNext, PTL DEF PagesSpec

-------------------------------------------------------------------------------
(* The page of the redemptions.                                              *)

\* The operators of the library, as the page has them.
LEMMA LargestIs ==
    ASSUME NEW T \in SUBSET Nat, NEW n \in T, \A m \in T : m <= n
    PROVE  H!Max(T) = n
<1>1. \E x \in T : \A y \in T : x >= y
  OBVIOUS
<1> DEFINE x == H!Max(T)
<1>2. x \in T /\ \A y \in T : x >= y
  BY <1>1 DEF H!Max
<1> HIDE DEF x
<1>3. x \in Nat /\ n \in Nat /\ x >= n /\ x <= n
  BY <1>2
<1>4. x = n
  BY <1>3
<1> QED
  BY <1>4 DEF x

LEMMA SmallestIs ==
    ASSUME NEW T \in SUBSET Nat, T # {}
    PROVE  H!Min(T) \in T /\ \A m \in T : H!Min(T) <= m
<1>1. \E x \in T : \A y \in T : x <= y
  BY LeastOf
<1> QED
  BY <1>1 DEF H!Min

LEMMA HasLargest ==
    ASSUME NEW n \in Nat, NEW T \in SUBSET (0 .. n), T # {}
    PROVE  H!Max(T) \in T /\ \A m \in T : m <= H!Max(T)
<1> DEFINE U == {n - m : m \in T}
<1>1. U \in SUBSET Nat /\ U # {}
  <2>1. ASSUME NEW m \in T PROVE n - m \in Nat
    OBVIOUS
  <2>2. U \subseteq Nat
    BY <2>1
  <2> QED
    BY <2>2
<1>2. PICK d \in U : \A e \in U : d <= e
  <2> HIDE DEF U
  <2> QED BY <1>1, LeastOf
<1>3. PICK x \in T : d = n - x
  OBVIOUS
<1>4. ASSUME NEW y \in T PROVE x >= y
  <2>1. n - y \in U
    OBVIOUS
  <2>2. n - x <= n - y
    BY <1>2, <1>3, <2>1
  <2> QED
    BY <2>2
<1>5. \E z \in T : \A y \in T : z >= y
  BY <1>4
<1>6. H!Max(T) \in T /\ \A y \in T : H!Max(T) >= y
  BY <1>5 DEF H!Max
<1> QED
  BY <1>6

LEMMA SameCardinality == \A T : H!Cardinality(T) = Cardinality(T)
  BY DEF H!Cardinality, Cardinality

\* A multiple leaves no remainder.
LEMMA NoRemainder ==
    ASSUME NEW w \in Nat \ {0}, NEW k \in Nat
    PROVE  (k * w) % w = 0
<1> DEFINE a == k * w
           q == a \div w
<1>1. a \in Nat
  OBVIOUS
<1> HIDE DEF a
<1>2. q \in Nat /\ a = q * w + (a % w) /\ a % w \in 0 .. w - 1
  BY <1>1
<1> HIDE DEF q
<1>3. a = k * w
  BY DEF a
<1>4. CASE k <= q
  <2>1. PICK d \in Nat : q = k + d
    BY <1>2, <1>4
  <2>2. q * w = k * w + d * w /\ d * w \in Nat /\ k * w \in Nat
    BY <2>1
  <2> QED
    BY <1>2, <1>3, <2>2
<1>5. CASE k > q
  <2>1. PICK d \in Nat : k = q + 1 + d
    <3>1. k - q - 1 \in Nat /\ k = q + 1 + (k - q - 1)
      BY <1>2, <1>5
    <3> QED BY <3>1
  <2>2. k * w = q * w + w + d * w /\ d * w \in Nat /\ q * w \in Nat
    BY <1>2, <2>1
  <2> QED
    BY <1>2, <1>3, <2>2
<1> QED
  BY <1>2, <1>4, <1>5 DEF a

\* The start of the window that ends at `end`, and its step of the search.
Start(end) == H!Max({end - Window, 0})
Found(t, fault, end) == H!searchWindow(t, Start(end), end, fault)
SearchStep(t, fault, g, end) ==
    IF end = 0 THEN {}
    ELSE IF Found(t, fault, end) # {} THEN {ledger[H!Max(Found(t, fault, end))].after}
    ELSE g[Start(end)]

LEMMA StartIs ==
    ASSUME NEW end \in Nat
    PROVE  /\ Start(end) = IF end >= Window THEN end - Window ELSE 0
           /\ end # 0 => Start(end) \in 0 .. end - 1
           /\ Start(end) \in 0 .. end
<1> DEFINE T == {end - Window, 0}
<1>w. Window \in Nat \ {0}
  BY HistoryConstants
<1>1. CASE end >= Window
  <2>1. T \in SUBSET Nat /\ end - Window \in T /\ \A m \in T : m <= end - Window
    BY <1>1, <1>w
  <2>2. H!Max(T) = end - Window
    <3> HIDE DEF T
    <3> QED BY <2>1, LargestIs
  <2> QED
    BY <2>2, <1>1, <1>w DEF Start
<1>2. CASE end < Window
  <2>1. 0 \in T /\ \A y \in T : 0 >= y
    BY <1>2, <1>w
  <2> DEFINE x == H!Max(T)
  <2>2. x \in T /\ \A y \in T : x >= y
    <3> HIDE DEF T
    <3> QED BY <2>1 DEF H!Max
  <2> HIDE DEF x
  <2>3. x = 0
    BY <2>1, <2>2, <1>2, <1>w
  <2> QED
    BY <2>3, <1>2, <1>w DEF Start, x
<1> QED
  BY <1>1, <1>2, <1>w

LEMMA FoundIs ==
    ASSUME NEW t, NEW fault, NEW end \in Nat
    PROVE  /\ Found(t, fault, end) \subseteq 0 .. end
           /\ \A u \in Found(t, fault, end) : u \in Start(end) + 1 .. end - 1 /\ H!Updates(ledger[u].call)
BY StartIs DEF Found, H!searchWindow

\* The recursion of the search.
LEMMA SearchUnfolds ==
    ASSUME NEW t \in Nat, NEW fault, fault.type # "rejected"
    PROVE  \E s : /\ \A end \in 0 .. t : s[end] = SearchStep(t, fault, s, end)
                  /\ H!getPreviousTroveState(t, fault) = s[t]
<1> DEFINE S == {{}} \cup {{ledger[v].after} : v \in Nat}
           d == {}
           step == [n \in Nat |-> [g \in [Nat -> S] |-> SearchStep(t, fault, g, n)]]
           fix == CHOOSE g : g = [end \in 0 .. t |-> SearchStep(t, fault, g, end)]
<1>1. ASSUME NEW n \in Nat, NEW g \in [Nat -> S] PROVE SearchStep(t, fault, g, n) \in S
  <2>1. CASE n = 0
    BY <2>1 DEF SearchStep
  <2>2. CASE n # 0 /\ Found(t, fault, n) # {}
    <3> DEFINE F == Found(t, fault, n)
    <3>0. F \in SUBSET (0 .. n) /\ F # {}
      BY <2>2, FoundIs
    <3> HIDE DEF F
    <3>2. H!Max(F) \in 0 .. n
      BY <3>0, HasLargest
    <3>1. H!Max(Found(t, fault, n)) \in Nat
      BY <3>2 DEF F
    <3> QED
      BY <2>2, <3>1 DEF SearchStep
  <2>3. CASE n # 0 /\ Found(t, fault, n) = {}
    BY <2>3, StartIs DEF SearchStep
  <2> QED
    BY <2>1, <2>2, <2>3
<1>2. d \in S /\ step \in [Nat -> [[Nat -> S] -> S]]
  BY <1>1
<1>3. ASSUME NEW n \in Nat, NEW g \in [Nat -> S] PROVE step[n][g] = SearchStep(t, fault, g, n)
  OBVIOUS
<1> HIDE DEF step, S, d
<1>4. PICK f \in [Nat -> S] :
        \A n \in Nat : f[n] = step[n][Below(f, n, d)]
  BY <1>2, CourseOfValues
<1>5. ASSUME NEW n \in Nat PROVE f[n] = SearchStep(t, fault, f, n)
  <2> DEFINE c == Below(f, n, d)
  <2>1. c \in [Nat -> S] /\ \A m \in 0 .. n - 1 : c[m] = f[m]
    BY <1>2 DEF Below
  <2>2. f[n] = step[n][c]
    BY <1>4
  <2> HIDE DEF c
  <2>3. f[n] = SearchStep(t, fault, c, n)
    BY <1>3, <2>1, <2>2
  <2>4. n # 0 => c[Start(n)] = f[Start(n)]
    BY <2>1, StartIs
  <2> QED
    BY <2>3, <2>4 DEF SearchStep
<1> DEFINE h == [end \in 0 .. t |-> f[end]]
<1>6. ASSUME NEW end \in 0 .. t PROVE h[end] = SearchStep(t, fault, h, end)
  <2>1. Start(end) \in 0 .. t /\ h[Start(end)] = f[Start(end)] /\ h[end] = f[end]
    BY StartIs
  <2> HIDE DEF h
  <2> QED
    BY <2>1, <1>5 DEF SearchStep
<1>7. h = [end \in 0 .. t |-> SearchStep(t, fault, h, end)]
  BY <1>6
<1> HIDE DEF h
<1>8. fix = [end \in 0 .. t |-> SearchStep(t, fault, fix, end)]
  BY <1>7
<1>9. H!getPreviousTroveState(t, fault) = fix[t]
  BY DEF H!getPreviousTroveState, SearchStep, Found, Start
<1> HIDE DEF fix
<1>10. \A end \in 0 .. t : fix[end] = SearchStep(t, fault, fix, end)
  BY <1>8
<1> QED
  BY <1>9, <1>10

\* The queries of the search miss no update.
MissesNone(t, fault) ==
    \A v \in 1 .. t - 1, end \in 1 .. t :
      H!Updates(ledger[v].call) =>
        /\ form[H!Called(ledger[v].call)] \in H!Topic1Variants(t, fault)
        /\ fault.query # <<end, H!Called(ledger[v].call)>>

\* The search finds the last update, unless that lies on the end of a window.
LEMMA SearchFinds ==
    ASSUME NEW t \in Nat, NEW fault, fault.type # "rejected", MissesNone(t, fault),
           NEW u \in 1 .. t - 1, H!Updates(ledger[u].call),
           \A v \in u + 1 .. t - 1 : ~H!Updates(ledger[v].call),
           (t - u) % Window # 0
    PROVE  H!getPreviousTroveState(t, fault) = {ledger[u].after}
<1>w. Window \in Nat \ {0}
  BY HistoryConstants
<1>1. PICK s : /\ \A end \in 0 .. t : s[end] = SearchStep(t, fault, s, end)
               /\ H!getPreviousTroveState(t, fault) = s[t]
  BY SearchUnfolds
<1> DEFINE Between(end) == u < end /\ end <= t /\ \A k \in Nat : end - u # k * Window
           T == {end \in Nat : Between(end) => s[end] = {ledger[u].after}}
<1>2. ASSUME NEW end \in Nat, \A m \in 0 .. end - 1 : m \in T PROVE end \in T
  <2> SUFFICES ASSUME Between(end) PROVE s[end] = {ledger[u].after}
    OBVIOUS
  <2>0. end # 0 /\ end \in 0 .. t /\ end \in 1 .. t
    OBVIOUS
  <2>1. s[end] = SearchStep(t, fault, s, end)
    BY <1>1, <2>0
  <2>2. CASE u > Start(end)
    <3> DEFINE F == Found(t, fault, end)
    <3>0. Start(end) \in 0 .. end - 1
      BY StartIs, <2>0
    <3>1. u \in F
      <4>1. u \in Start(end) + 1 .. end - 1 /\ u \in 1 .. t - 1
        BY <2>2, <3>0
      <4>2. /\ form[H!Called(ledger[u].call)] \in H!Topic1Variants(t, fault)
            /\ fault.query # <<end, H!Called(ledger[u].call)>>
        BY <4>1, <2>0 DEF MissesNone
      <4> QED
        BY <4>1, <4>2 DEF Found, H!searchWindow
    <3>2. F \in SUBSET Nat /\ \A v \in F : v <= u
      <4>1. ASSUME NEW v \in F PROVE v \in Nat /\ v <= u
        <5>1. v \in Start(end) + 1 .. end - 1 /\ H!Updates(ledger[v].call)
          BY FoundIs
        <5>2. v \in Nat /\ v <= t - 1
          BY <5>1, <3>0, <2>0
        <5> QED
          BY <5>1, <5>2
      <4> QED
        BY <4>1
    <3> HIDE DEF F
    <3>3. H!Max(F) = u
      BY <3>1, <3>2, LargestIs
    <3> QED
      BY <2>0, <2>1, <3>1, <3>3 DEF SearchStep, F
  <2>3. CASE u <= Start(end)
    <3>1. end >= Window /\ Start(end) = end - Window
      BY StartIs, <2>3, <1>w
    <3>2. u # end - Window
      <4>1. end - u # 1 * Window
        OBVIOUS
      <4> QED
        BY <4>1, <1>w
    <3>3. end - Window \in 0 .. end - 1 /\ u < end - Window /\ end - Window <= t
      BY <2>3, <3>1, <3>2, <1>w
    <3>4. ASSUME NEW k \in Nat PROVE (end - Window) - u # k * Window
      <4>1. k + 1 \in Nat /\ (k + 1) * Window = k * Window + Window /\ k * Window \in Nat
        BY <1>w
      <4>2. end - u # (k + 1) * Window
        BY <4>1
      <4> QED
        BY <4>1, <4>2, <1>w
    <3>5. s[end - Window] = {ledger[u].after}
      <4>1. end - Window \in T
        BY <1>2, <3>3
      <4> QED
        BY <4>1, <3>3, <3>4
    <3>6. Found(t, fault, end) = {}
      <4>1. ASSUME NEW v \in Found(t, fault, end) PROVE FALSE
        <5>1. v \in Start(end) + 1 .. end - 1 /\ H!Updates(ledger[v].call)
          BY FoundIs
        <5>2. v \in u + 1 .. t - 1
          BY <5>1, <3>1, <3>3, <2>0, <1>w
        <5> QED
          BY <5>1, <5>2
      <4> QED
        BY <4>1
    <3> QED
      BY <2>0, <2>1, <3>1, <3>5, <3>6 DEF SearchStep
  <2>4. Start(end) \in Nat
    BY StartIs
  <2> QED
    BY <2>2, <2>3, <2>4
<1>3. t \in T
  <2> HIDE DEF T
  <2>1. Nat \subseteq T
    BY <1>2, StrongInduction
  <2> QED
    BY <2>1
<1>4. ASSUME NEW k \in Nat PROVE t - u # k * Window
  <2>1. (k * Window) % Window = 0
    BY <1>w, NoRemainder
  <2> QED
    BY <2>1
<1>5. Between(t)
  BY <1>4
<1> QED
  BY <1>1, <1>3, <1>5

Calls == {"adjustTrove", "redeemCollateral", "liquidate", "other"}
Entries == [call : Calls, before : Nat, applied : BOOLEAN, after : Nat]
Redemptions == {t \in 1 .. Len(ledger) : ledger[t].call = "redeemCollateral"}

\* The Trove was opened first.  A redemption lowers its debt.  After an update, and
\* as long as nothing is redistributed, it has the debt that the update logged; and
\* where an update applied nothing, nothing was redistributed since the last one.
EntryOK(list, t) ==
    /\ list[t].call = "other" => list[t].after = list[t].before
    /\ list[t].call = "redeemCollateral" => list[t].after < list[t].before
    /\ \A u \in 1 .. t - 1 :
         /\ H!Updates(list[u].call)
         /\ \A v \in u + 1 .. t - 1 : list[v].call = "other"
         => list[t].before = list[u].after
    /\ H!Updates(list[t].call) /\ ~list[t].applied =>
         \A u \in 1 .. t - 1 : list[u].call = "liquidate" =>
           \E v \in u + 1 .. t - 1 : H!Updates(list[v].call)

LedgerInv ==
    /\ ledger \in Seq(Entries) /\ Len(ledger) >= 1
    /\ ledger[1].call = "adjustTrove"
    /\ \A t \in 1 .. Len(ledger) : EntryOK(ledger, t)

LEMMA EntryType ==
    ASSUME LedgerInv, NEW t \in 1 .. Len(ledger)
    PROVE  /\ ledger[t].call \in Calls
           /\ ledger[t].before \in Nat /\ ledger[t].after \in Nat
           /\ ledger[t].applied \in BOOLEAN
<1>1. ledger \in Seq(Entries)
  BY DEF LedgerInv
<1>2. ledger[t] \in Entries
  BY <1>1
<1> QED
  BY <1>2 DEF Entries

\* The last update before t.
LastUpdate(t) == H!Max({u \in 1 .. t - 1 : H!Updates(ledger[u].call)})

LEMMA LastUpdateIs ==
    ASSUME LedgerInv, NEW t \in Redemptions
    PROVE  /\ t \in 2 .. Len(ledger)
           /\ LastUpdate(t) \in 1 .. t - 1
           /\ H!Updates(ledger[LastUpdate(t)].call)
           /\ \A v \in LastUpdate(t) + 1 .. t - 1 : ~H!Updates(ledger[v].call)
<1> DEFINE U == {u \in 1 .. t - 1 : H!Updates(ledger[u].call)}
<1>1. Len(ledger) \in Nat /\ t \in 2 .. Len(ledger)
  BY DEF LedgerInv, Redemptions
<1>2. H!Updates(ledger[1].call)
  BY DEF LedgerInv, H!Updates
<1>3. 1 \in U
  BY <1>1, <1>2
<1>4. t \in Nat /\ U \in SUBSET (0 .. t)
  BY <1>1
<1>5. \A v \in 1 .. t - 1 : v \in U <=> H!Updates(ledger[v].call)
  OBVIOUS
<1>6. U \subseteq 1 .. t - 1
  OBVIOUS
<1> DEFINE x == H!Max(U)
<1> HIDE DEF U
<1>7. x \in U /\ \A v \in U : v <= x
  BY <1>3, <1>4, HasLargest
<1>8. x = LastUpdate(t)
  BY DEF LastUpdate, U
<1> HIDE DEF x
<1>9. x \in 1 .. t - 1 /\ H!Updates(ledger[x].call)
  BY <1>5, <1>6, <1>7
<1>10. ASSUME NEW v \in x + 1 .. t - 1, H!Updates(ledger[v].call) PROVE FALSE
  <2>1. v \in 1 .. t - 1
    BY <1>1, <1>9
  <2>2. v \in U
    BY <1>5, <1>10, <2>1
  <2> QED
    BY <1>7, <1>9, <2>2
<1> QED
  BY <1>1, <1>8, <1>9, <1>10

\* Where nothing was applied, the debt before is the one that the last update logged.
LEMMA BeforeIsLogged ==
    ASSUME LedgerInv, NEW t \in Redemptions, ~ledger[t].applied
    PROVE  ledger[t].before = ledger[LastUpdate(t)].after
<1> DEFINE x == LastUpdate(t)
<1>1. /\ t \in 2 .. Len(ledger) /\ x \in 1 .. t - 1 /\ H!Updates(ledger[x].call)
      /\ \A v \in x + 1 .. t - 1 : ~H!Updates(ledger[v].call)
  BY LastUpdateIs
<1> HIDE DEF x
<1>2. H!Updates(ledger[t].call) /\ t \in 1 .. Len(ledger) /\ Len(ledger) \in Nat
  BY DEF Redemptions, H!Updates, LedgerInv
<1>3. ASSUME NEW v \in x + 1 .. t - 1 PROVE ledger[v].call = "other"
  <2>1. v \in 1 .. t - 1 /\ v \in 1 .. Len(ledger)
    BY <1>1, <1>2
  <2>2. ledger[v].call \in Calls
    BY <2>1, EntryType
  <2>3. ~H!Updates(ledger[v].call)
    BY <1>1
  <2>4. ledger[v].call # "liquidate"
    <3> SUFFICES ASSUME ledger[v].call = "liquidate" PROVE FALSE
      OBVIOUS
    <3>1. PICK w \in v + 1 .. t - 1 : H!Updates(ledger[w].call)
      BY <1>2, <2>1 DEF LedgerInv, EntryOK
    <3>2. w \in x + 1 .. t - 1
      BY <1>1, <2>1
    <3> QED
      BY <1>1, <3>1, <3>2
  <2> QED
    BY <2>2, <2>3, <2>4 DEF Calls, H!Updates
<1>4. ledger[t].before = ledger[x].after
  BY <1>1, <1>2, <1>3 DEF LedgerInv, EntryOK
<1> QED
  BY <1>4 DEF x

\* What an unfolded row tells (H!RedeemedIsTold).
Told(t, row) ==
    \/ row.loading \/ row.failed
    \/ (t - LastUpdate(t)) % Window = 0
    \/ form = [BorrowerOperations |-> "longZero", TroveManager |-> "alias"]
    \/ row.redeemed = ledger[t].before - ledger[t].after

LEMMA SearchMissesNone ==
    ASSUME LedgerInv, NEW t \in Redemptions, NEW fault \in H!Fault(t), fault.type = "none",
           form \in [H!Contract -> H!AddressForm],
           form # [BorrowerOperations |-> "longZero", TroveManager |-> "alias"]
    PROVE  MissesNone(t, fault)
<1>1. form["TroveManager"] \in {"longZero", "alias"} /\ form["BorrowerOperations"] \in {"longZero", "alias"}
  BY DEF H!Contract, H!AddressForm
<1>2. ~(form["BorrowerOperations"] = "longZero" /\ form["TroveManager"] = "alias")
  <2> SUFFICES ASSUME form["BorrowerOperations"] = "longZero", form["TroveManager"] = "alias"
               PROVE  form = [BorrowerOperations |-> "longZero", TroveManager |-> "alias"]
    OBVIOUS
  <2>1. DOMAIN form = {"TroveManager", "BorrowerOperations"}
    BY DEF H!Contract
  <2> QED
    BY <2>1
<1>3. ledger[t].call = "redeemCollateral"
  BY DEF Redemptions
<1>4. \/ form["TroveManager"] = "longZero" /\ H!Topic1Variants(t, fault) = {"longZero", "alias"}
      \/ form["TroveManager"] = "alias" /\ H!Topic1Variants(t, fault) = {"alias"}
  BY <1>1, <1>3 DEF H!Topic1Variants, H!Called, H!AddressForm
<1>5. fault.query = <<>>
  BY DEF H!Fault
<1>6. ASSUME NEW v \in 1 .. t - 1, NEW end \in 1 .. t, H!Updates(ledger[v].call)
      PROVE  form[H!Called(ledger[v].call)] \in H!Topic1Variants(t, fault)
  <2>1. H!Called(ledger[v].call) \in {"TroveManager", "BorrowerOperations"}
    BY DEF H!Called
  <2> QED
    BY <1>1, <1>2, <1>4, <2>1
<1>7. \A a, b : <<>> # <<a, b>>
  OBVIOUS
<1> QED
  BY <1>5, <1>6, <1>7 DEF MissesNone

LEMMA LargestOfOne == ASSUME NEW n \in Nat PROVE H!Max({n}) = n
BY LargestIs

\* A row that was enriched tells what was redeemed.
LEMMA EnrichTells ==
    ASSUME LedgerInv, NEW t \in Redemptions, NEW fault \in H!Fault(t),
           form \in [H!Contract -> H!AddressForm]
    PROVE  Told(t, H!enrichOneTrove(t, fault))
<1> DEFINE row == H!enrichOneTrove(t, fault)
           previous == IF ledger[t].applied THEN {ledger[t].before}
                       ELSE H!getPreviousTroveState(t, fault)
<1>1. CASE fault.type # "none"
  <2>1. row.failed
    BY <1>1 DEF H!enrichOneTrove
  <2> QED
    BY <2>1 DEF Told
<1>2. CASE fault.type = "none"
  <2> SUFFICES ASSUME (t - LastUpdate(t)) % Window # 0,
                      form # [BorrowerOperations |-> "longZero", TroveManager |-> "alias"]
               PROVE  row.redeemed = ledger[t].before - ledger[t].after
    BY DEF Told
  <2>1. /\ t \in 1 .. Len(ledger) /\ ledger[t].before \in Nat /\ ledger[t].after \in Nat
        /\ ledger[t].applied \in BOOLEAN
    BY EntryType DEF Redemptions
  <2>2. ledger[t].after < ledger[t].before
    BY <2>1 DEF LedgerInv, EntryOK, Redemptions
  <2>3. previous = {ledger[t].before}
    <3>1. CASE ledger[t].applied
      BY <3>1
    <3>2. CASE ~ledger[t].applied
      <4> DEFINE x == LastUpdate(t)
      <4>1. /\ t \in Nat /\ x \in 1 .. t - 1 /\ H!Updates(ledger[x].call)
            /\ \A v \in x + 1 .. t - 1 : ~H!Updates(ledger[v].call)
        BY <2>1, LastUpdateIs
      <4>2. MissesNone(t, fault)
        BY <1>2, SearchMissesNone
      <4>3. (t - x) % Window # 0
        OBVIOUS
      <4> HIDE DEF x
      <4>4. H!getPreviousTroveState(t, fault) = {ledger[x].after}
        BY <1>2, <4>1, <4>2, <4>3, SearchFinds
      <4> QED
        BY <3>2, <4>4, BeforeIsLogged DEF x
    <3> QED
      BY <2>1, <3>1, <3>2
  <2>4. row.redeemed = IF \E debt \in previous : debt >= ledger[t].after
                       THEN H!Max(previous) - ledger[t].after ELSE 0
    BY DEF H!enrichOneTrove
  <2> HIDE DEF row, previous
  <2>5. H!Max(previous) = ledger[t].before
    BY <2>1, <2>3, LargestOfOne
  <2> QED
    BY <2>1, <2>2, <2>3, <2>4, <2>5
<1> QED
  BY <1>1, <1>2

\* More happens.
Grows ==
    /\ Len(ledger') \in Nat /\ Len(ledger) <= Len(ledger')
    /\ \A t \in 1 .. Len(ledger) : ledger'[t] = ledger[t]

LEMMA AppendOK ==
    ASSUME LedgerInv, NEW e \in Entries, ledger' = Append(ledger, e),
           e.before = ledger[Len(ledger)].after,
           e.call = "other" => e.after = e.before,
           e.call = "redeemCollateral" => e.after < e.before,
           H!Updates(e.call) /\ ~e.applied => ~H!Pending
    PROVE  LedgerInv' /\ Grows
<1> DEFINE n == Len(ledger)
           list == Append(ledger, e)
<1>1. /\ ledger \in Seq(Entries) /\ n \in Nat /\ n >= 1
      /\ ledger[1].call = "adjustTrove" /\ \A t \in 1 .. n : EntryOK(ledger, t)
  BY DEF LedgerInv
<1>2. /\ list \in Seq(Entries) /\ Len(list) = n + 1 /\ list[n + 1] = e
      /\ \A t \in 1 .. n : list[t] = ledger[t]
  BY <1>1
<1> HIDE DEF list, n
<1>3. ASSUME NEW t \in 1 .. n PROVE EntryOK(list, t)
  <2>1. EntryOK(ledger, t) /\ t \in Nat /\ list[t] = ledger[t]
    BY <1>1, <1>2
  <2>2. \A u \in 1 .. t - 1 : u \in 1 .. n /\ list[u] = ledger[u]
    BY <1>1, <1>2
  <2>3. \A u \in 1 .. t - 1 : \A v \in u + 1 .. t - 1 : v \in 1 .. n /\ list[v] = ledger[v]
    BY <1>1, <1>2
  <2>4. ASSUME NEW u \in 1 .. t - 1, H!Updates(list[u].call),
               \A v \in u + 1 .. t - 1 : list[v].call = "other"
        PROVE  list[t].before = list[u].after
    <3>1. H!Updates(ledger[u].call) /\ \A v \in u + 1 .. t - 1 : ledger[v].call = "other"
      BY <2>2, <2>3, <2>4
    <3>2. ledger[t].before = ledger[u].after
      BY <2>1, <3>1 DEF EntryOK
    <3> QED
      BY <2>1, <2>2, <3>2
  <2>5. ASSUME H!Updates(list[t].call), ~list[t].applied, NEW u \in 1 .. t - 1, list[u].call = "liquidate"
        PROVE  \E v \in u + 1 .. t - 1 : H!Updates(list[v].call)
    <3>1. H!Updates(ledger[t].call) /\ ~ledger[t].applied /\ ledger[u].call = "liquidate"
      BY <2>1, <2>2, <2>5
    <3>2. PICK v \in u + 1 .. t - 1 : H!Updates(ledger[v].call)
      BY <2>1, <3>1 DEF EntryOK
    <3> QED
      BY <2>3, <3>2
  <2>6. /\ list[t].call = "other" => list[t].after = list[t].before
        /\ list[t].call = "redeemCollateral" => list[t].after < list[t].before
    BY <2>1 DEF EntryOK
  <2> QED
    BY <2>4, <2>5, <2>6 DEF EntryOK
<1>4. EntryOK(list, n + 1)
  <2> DEFINE t == n + 1
  <2>1. list[t] = e /\ t \in Nat /\ t - 1 = n
    BY <1>1, <1>2
  <2>2. ASSUME NEW u \in 1 .. t - 1, H!Updates(list[u].call),
               \A v \in u + 1 .. t - 1 : list[v].call = "other"
        PROVE  list[t].before = list[u].after
    <3>1. u \in 1 .. n /\ list[u] = ledger[u] /\ e.before = ledger[n].after
      BY <1>2, <2>1 DEF n
    <3>2. CASE u = n
      BY <2>1, <3>1, <3>2
    <3>3. CASE u # n
      <4>1. u \in 1 .. n - 1 /\ n \in u + 1 .. t - 1 /\ n \in 1 .. n
        BY <1>1, <3>1, <3>3
      <4>2. ledger[n].call = "other"
        BY <1>2, <2>2, <4>1
      <4>3. ASSUME NEW v \in u + 1 .. n - 1 PROVE ledger[v].call = "other"
        <5>1. v \in u + 1 .. t - 1 /\ v \in 1 .. n
          BY <1>1, <4>1
        <5> QED
          BY <1>2, <2>2, <5>1
      <4>4. EntryOK(ledger, n)
        BY <1>1, <4>1
      <4>5. ledger[n].before = ledger[u].after
        BY <4>1, <4>3, <4>4, <2>2, <3>1 DEF EntryOK
      <4>6. ledger[n].after = ledger[n].before
        BY <4>2, <4>4 DEF EntryOK
      <4> QED
        BY <2>1, <3>1, <4>5, <4>6
    <3> QED
      BY <3>2, <3>3
  <2>3. ASSUME H!Updates(list[t].call), ~list[t].applied, NEW u \in 1 .. t - 1, list[u].call = "liquidate"
        PROVE  \E v \in u + 1 .. t - 1 : H!Updates(list[v].call)
    <3>1. ~H!Pending /\ u \in 1 .. n /\ ledger[u].call = "liquidate"
      BY <1>2, <2>1, <2>3
    <3>2. PICK v \in u + 1 .. n : H!Updates(ledger[v].call)
      BY <3>1 DEF H!Pending, H!now, n
    <3>3. v \in u + 1 .. t - 1 /\ v \in 1 .. n
      BY <2>1, <3>1
    <3> QED
      BY <1>2, <3>2, <3>3
  <2>4. /\ list[t].call = "other" => list[t].after = list[t].before
        /\ list[t].call = "redeemCollateral" => list[t].after < list[t].before
    BY <2>1
  <2> HIDE DEF t
  <2>5. EntryOK(list, t)
    BY <2>2, <2>3, <2>4 DEF EntryOK
  <2> QED
    BY <2>5 DEF t
<1>5. \A t \in 1 .. Len(list) : EntryOK(list, t)
  BY <1>1, <1>2, <1>3, <1>4
<1>6. list[1].call = "adjustTrove" /\ Len(list) >= 1
  BY <1>1, <1>2
<1>7. ledger' = list
  BY DEF list
<1>8. LedgerInv'
  BY <1>2, <1>5, <1>6, <1>7 DEF LedgerInv
<1>9. Grows
  BY <1>1, <1>2, <1>7 DEF Grows, n
<1> QED
  BY <1>8, <1>9

LEMMA LedgerSteps ==
    ASSUME LedgerInv, H!Happens \/ H!Redistributes \/ H!OtherHappens
    PROVE  LedgerInv' /\ Grows
<1> DEFINE n == Len(ledger)
<1>1. ledger \in Seq(Entries) /\ n \in Nat /\ n >= 1
  BY DEF LedgerInv
<1>2. n \in 1 .. n /\ H!Current = ledger[n].after /\ ledger[n].after \in Nat
  BY <1>1, EntryType DEF H!Current, H!now
<1>3. H!Pending \in BOOLEAN
  BY DEF H!Pending
<1> DEFINE Made(call, applied, rest) == H!Happened(call, H!Current, applied, rest)
<1>4. ASSUME NEW call \in Calls, NEW applied \in BOOLEAN, NEW rest \in Nat
      PROVE  /\ Made(call, applied, rest) \in Entries
             /\ Made(call, applied, rest).call = call
             /\ Made(call, applied, rest).before = ledger[n].after
             /\ Made(call, applied, rest).after = rest
  <2>1. Made(call, applied, rest) =
          [call |-> call, before |-> ledger[n].after, applied |-> applied, after |-> rest]
    BY <1>2 DEF H!Happened
  <2> QED
    BY <1>2, <2>1 DEF Entries
<1>5. ASSUME NEW call \in Calls, NEW applied \in BOOLEAN, NEW rest \in Nat
      PROVE  Made(call, applied, rest).applied = applied
  BY DEF H!Happened
<1> HIDE DEF Made
<1>6. CASE H!Happens
  <2>1. PICK debt \in Debt :
          \/ ledger' = Append(ledger, Made("adjustTrove", H!Pending, debt))
          \/ /\ debt < H!Current
             /\ ledger' = Append(ledger, Made("redeemCollateral", H!Pending, debt))
    BY <1>6 DEF H!Happens, Made
  <2>2. debt \in Nat /\ "adjustTrove" \in Calls /\ "redeemCollateral" \in Calls
    BY HistoryConstants DEF Calls
  <2>3. CASE ledger' = Append(ledger, Made("adjustTrove", H!Pending, debt))
    <3> DEFINE e == Made("adjustTrove", H!Pending, debt)
    <3>1. /\ e \in Entries /\ e.call = "adjustTrove" /\ e.before = ledger[n].after
          /\ e.applied = H!Pending
      BY <1>3, <1>4, <1>5, <2>2
    <3> HIDE DEF e
    <3> QED
      BY <2>3, <3>1, AppendOK DEF e
  <2>4. CASE debt < H!Current /\ ledger' = Append(ledger, Made("redeemCollateral", H!Pending, debt))
    <3> DEFINE e == Made("redeemCollateral", H!Pending, debt)
    <3>1. /\ e \in Entries /\ e.call = "redeemCollateral" /\ e.before = ledger[n].after
          /\ e.applied = H!Pending /\ e.after < e.before
      BY <1>2, <1>3, <1>4, <1>5, <2>2, <2>4
    <3> HIDE DEF e
    <3> QED
      BY <2>4, <3>1, AppendOK DEF e
  <2> QED
    BY <2>1, <2>3, <2>4
<1>7. CASE H!Redistributes
  <2> DEFINE e == Made("liquidate", FALSE, H!Current + 1)
  <2>1. ledger' = Append(ledger, e)
    BY <1>7 DEF H!Redistributes, Made
  <2>3. "liquidate" \in Calls /\ H!Current + 1 \in Nat /\ FALSE \in BOOLEAN
    BY <1>2 DEF Calls
  <2>2. e \in Entries /\ e.call = "liquidate" /\ e.before = ledger[n].after
    BY <1>4, <2>3
  <2> HIDE DEF e
  <2> QED
    BY <2>1, <2>2, AppendOK DEF H!Updates
<1>8. CASE H!OtherHappens
  <2> DEFINE e == Made("other", FALSE, H!Current)
  <2>1. ledger' = Append(ledger, e)
    BY <1>8 DEF H!OtherHappens, Made
  <2>3. "other" \in Calls /\ H!Current \in Nat /\ FALSE \in BOOLEAN
    BY <1>2 DEF Calls
  <2>2. e \in Entries /\ e.call = "other" /\ e.before = ledger[n].after /\ e.after = e.before
    BY <1>2, <1>4, <2>3
  <2> HIDE DEF e
  <2> QED
    BY <2>1, <2>2, AppendOK DEF H!Updates
<1> QED
  BY <1>6, <1>7, <1>8

LEMMA LedgerInitially == H!Init => LedgerInv
<1> SUFFICES ASSUME H!Init PROVE LedgerInv
  OBVIOUS
<1>1. PICK debt \in Debt : ledger = <<H!Happened("adjustTrove", 0, FALSE, debt)>>
  BY DEF H!Init
<1> DEFINE e == [call |-> "adjustTrove", before |-> 0, applied |-> FALSE, after |-> debt]
<1>2. ledger = <<e>>
  BY <1>1 DEF H!Happened
<1>3. e \in Entries /\ e.call = "adjustTrove"
  BY HistoryConstants DEF Entries, Calls
<1> HIDE DEF e
<1>4. ledger \in Seq(Entries) /\ Len(ledger) = 1 /\ ledger[1] = e
  BY <1>2, <1>3
<1>5. EntryOK(ledger, 1)
  BY <1>3, <1>4 DEF EntryOK
<1> QED
  BY <1>3, <1>4, <1>5 DEF LedgerInv

\* What is told of a Trove stays told.
LEMMA ToldStays ==
    ASSUME LedgerInv, Grows, UNCHANGED form
    PROVE  /\ \A t \in Redemptions : t \in Redemptions'
           /\ \A t \in Redemptions : \A row : Told(t, row) => Told(t, row)'
<1>0. Len(ledger) \in Nat
  BY DEF LedgerInv
<1>1. ASSUME NEW t \in Redemptions PROVE t \in Redemptions'
  BY <1>0 DEF Redemptions, Grows
<1>2. ASSUME NEW t \in Redemptions, NEW row, Told(t, row) PROVE Told(t, row)'
  <2>1. t \in 1 .. Len(ledger) /\ ledger'[t] = ledger[t]
    BY DEF Redemptions, Grows
  <2>2. \A u \in 1 .. t - 1 : ledger'[u] = ledger[u]
    BY <1>0, <2>1 DEF Grows
  <2>3. {u \in 1 .. t - 1 : H!Updates(ledger'[u].call)} = {u \in 1 .. t - 1 : H!Updates(ledger[u].call)}
    BY <2>2
  <2>4. LastUpdate(t)' = LastUpdate(t)
    BY <2>3 DEF LastUpdate
  <2> QED
    BY <1>2, <2>1, <2>4 DEF Told
<1> QED
  BY <1>1, <1>2

LoadPc == {"none", "results", "details", "previous"}
Loads == [pc : LoadPc, url : Nat, timestamp : Nat, results : SUBSET Nat, rows : SUBSET Nat,
          affected : SUBSET Nat, failed : BOOLEAN]
LoadOK(load) ==
    /\ load \in Loads
    /\ load.timestamp \in 0 .. Len(ledger)
    /\ load.results \subseteq 1 .. Len(ledger)
    /\ load.affected \subseteq Redemptions

LoadsInv ==
    /\ DOMAIN loads = Load /\ \A l \in Load : LoadOK(loads[l])
    /\ url \in 0 .. Len(ledger) /\ token \in BOOLEAN
    /\ form \in [H!Contract -> H!AddressForm]

ViewFields == {"shows", "rows", "affected", "next", "previous", "expanded", "enriched", "of", "since"}

\* The rows are of redemptions, and tell what they can.
RowsOK(w) ==
    /\ w.affected \subseteq Redemptions
    /\ \A t \in DOMAIN w.enriched : t \in Redemptions /\ Told(t, w.enriched[t])

\* The link to the next page is the oldest result that is listed.  That to the
\* previous page is to a page with the oldest result that is newer; and if there
\* is none, less than a page of them was there.
LinksOK(w) ==
    w.shows = "rows" /\ ~w.of.failed =>
      /\ \A link \in w.next : link \in w.of.results /\ \A u \in w.of.results : link <= u
      /\ \A link \in w.previous \ {0} :
           \E m \in H!Listed(link) :
             /\ m \in w.of.timestamp + 1 .. link
             /\ \A t \in H!Results(w.of.timestamp + 1, Len(ledger)) : m <= t
      /\ 0 \in w.previous \/ w.previous = {} =>
           Cardinality(H!Results(w.of.timestamp + 1, w.since)) < PageSize

ViewOK(w) ==
    /\ DOMAIN w = ViewFields
    /\ LoadOK(w.of) /\ w.since \in 0 .. Len(ledger)
    /\ w.next \subseteq 0 .. Len(ledger) /\ w.previous \subseteq 0 .. Len(ledger)
    /\ RowsOK(w) /\ LinksOK(w)

HistoryInv ==
    /\ LedgerInv /\ LoadsInv
    /\ ViewOK(view)
    /\ searches \subseteq Redemptions

\* Results that are there do not change.
LEMMA ResultsStay ==
    ASSUME LedgerInv, Grows, NEW from \in Nat \ {0}, NEW to \in 0 .. Len(ledger)
    PROVE  H!Results(from, to)' = H!Results(from, to)
<1>1. \A t \in from .. to : t \in 1 .. Len(ledger)
  BY DEF LedgerInv
<1>2. \A t \in from .. to : ledger'[t] = ledger[t]
  BY <1>1 DEF Grows
<1> QED
  BY <1>2 DEF H!Results

LEMMA LoadStays ==
    ASSUME LedgerInv, Grows, UNCHANGED form, NEW load, LoadOK(load)
    PROVE  LoadOK(load)'
<1>1. Len(ledger) \in Nat /\ Len(ledger') \in Nat /\ Len(ledger) <= Len(ledger')
  BY DEF LedgerInv, Grows
<1>2. load.affected \subseteq Redemptions'
  BY ToldStays DEF LoadOK
<1> QED
  BY <1>1, <1>2 DEF LoadOK

LEMMA ViewStays ==
    ASSUME LedgerInv, Grows, UNCHANGED form, NEW w, ViewOK(w)
    PROVE  ViewOK(w)'
<1> DEFINE n == Len(ledger)
<1>1. n \in Nat /\ Len(ledger') \in Nat /\ n <= Len(ledger')
  BY DEF LedgerInv, Grows
<1>2. RowsOK(w)'
  BY ToldStays DEF ViewOK, RowsOK
<1>3. LoadOK(w.of)'
  BY LoadStays DEF ViewOK
<1>4. w.of.timestamp \in Nat /\ w.since \in 0 .. n /\ w.previous \subseteq 0 .. n
  BY DEF ViewOK, LoadOK, Loads
<1> DEFINE from == w.of.timestamp + 1
<1>5. from \in Nat \ {0}
  BY <1>4
<1> HIDE DEF from
<1>6. ASSUME w.shows = "rows", ~w.of.failed, NEW link \in w.previous \ {0}, NEW m \in H!Listed(link),
             m \in from .. link, \A t \in H!Results(from, n) : m <= t
      PROVE  m \in H!Listed(link)' /\ \A t \in H!Results(from, Len(ledger))' : m <= t
  <2>1. link \in 0 .. n /\ link \in Nat
    BY <1>1, <1>4
  <2>2. H!Results(1, link)' = H!Results(1, link)
    BY <2>1, ResultsStay
  <2>3. H!Listed(link)' = H!Listed(link)
    BY <2>2 DEF H!Listed, H!Newest
  <2>4. ASSUME NEW t \in H!Results(from, Len(ledger))' PROVE m <= t
    <3>1. t \in from .. Len(ledger') /\ H!Called(ledger'[t].call) = "TroveManager"
      BY <2>4 DEF H!Results
    <3>2. CASE t <= n
      <4>1. t \in 1 .. n /\ ledger'[t] = ledger[t]
        BY <1>1, <1>5, <3>1, <3>2 DEF Grows
      <4>2. t \in H!Results(from, n)
        BY <1>1, <1>5, <3>1, <3>2, <4>1 DEF H!Results
      <4> QED
        BY <1>6, <4>2
    <3>3. CASE t > n
      BY <1>1, <1>5, <1>6, <2>1, <3>1, <3>3
    <3> QED
      BY <1>1, <1>5, <3>1, <3>2, <3>3
  <2> QED
    BY <2>3, <2>4
<1>7. H!Results(from, w.since)' = H!Results(from, w.since)
  BY <1>4, <1>5, ResultsStay
<1>8. LinksOK(w)'
  <2> SUFFICES ASSUME w.shows = "rows", ~w.of.failed PROVE LinksOK(w)'
    BY DEF LinksOK
  <2>1. LinksOK(w)
    BY DEF ViewOK
  <2>2. \A link \in w.previous \ {0} :
           \E m \in H!Listed(link)' :
             /\ m \in w.of.timestamp + 1 .. link
             /\ \A t \in H!Results(w.of.timestamp + 1, Len(ledger))' : m <= t
    BY <1>6, <2>1 DEF LinksOK, from
  <2> QED
    BY <1>7, <2>1, <2>2 DEF LinksOK, from
<1> QED
  BY <1>1, <1>2, <1>3, <1>8 DEF ViewOK

\* The oldest results are those up to one of them.
LEMMA OldestOf ==
    ASSUME NEW n \in Nat, NEW R \in SUBSET (1 .. n), NEW t \in H!Oldest(R), NEW u \in R, u <= t
    PROVE  u \in H!Oldest(R)
<1> DEFINE Older(x) == {y \in R : y < x}
<1>1. t \in R /\ Cardinality(Older(t)) < PageSize
  BY SameCardinality DEF H!Oldest
<1>2. IsFiniteSet(R)
  <2>1. IsFiniteSet(1 .. n)
    BY FS_Interval
  <2> QED
    BY <2>1, FS_Subset
<1>3. Older(t) \in SUBSET R /\ Older(u) \in SUBSET Older(t)
  <2>1. ASSUME NEW y \in Older(u) PROVE y \in Older(t)
    <3>1. y \in R /\ y \in Nat /\ u \in Nat /\ t \in Nat /\ y < u
      BY <1>1
    <3> QED
      BY <3>1
  <2> QED
    BY <2>1
<1> HIDE DEF Older
<1>4. IsFiniteSet(Older(t))
  BY <1>2, <1>3, FS_Subset
<1>5. Cardinality(Older(u)) <= Cardinality(Older(t)) /\ IsFiniteSet(Older(u))
  BY <1>3, <1>4, FS_Subset
<1>6. Cardinality(Older(u)) \in Nat /\ Cardinality(Older(t)) \in Nat /\ PageSize \in Nat
  BY <1>4, <1>5, FS_CardinalityType, HistoryConstants
<1>7. Cardinality(Older(u)) < PageSize
  BY <1>1, <1>5, <1>6
<1> QED
  BY <1>7, SameCardinality DEF H!Oldest, Older

\* If they are less than a page there are no others.
LEMMA OldestAreAll ==
    ASSUME NEW n \in Nat, NEW R \in SUBSET (1 .. n), ~H!Full(H!Oldest(R))
    PROVE  Cardinality(R) < PageSize
<1> DEFINE O == H!Oldest(R)
           Older(x) == {y \in R : y < x}
<1>p. PageSize \in Nat \ {0}
  BY HistoryConstants
<1>1. IsFiniteSet(R)
  <2>1. IsFiniteSet(1 .. n)
    BY FS_Interval
  <2> QED
    BY <2>1, FS_Subset
<1>2. O \in SUBSET R /\ Cardinality(O) # PageSize
  BY SameCardinality DEF H!Oldest, H!Full
<1>3. IsFiniteSet(O) /\ Cardinality(O) \in Nat /\ Cardinality(R) \in Nat
  BY <1>1, <1>2, FS_Subset, FS_CardinalityType
<1>4. ASSUME NEW x \in R PROVE Cardinality(Older(x)) \in Nat /\ IsFiniteSet(Older(x))
  <2>1. Older(x) \in SUBSET R
    OBVIOUS
  <2> HIDE DEF Older
  <2> QED
    BY <1>1, <2>1, FS_Subset, FS_CardinalityType
<1>5. ASSUME NEW x \in R PROVE x \in O <=> Cardinality(Older(x)) < PageSize
  BY SameCardinality DEF H!Oldest
<1>6. Cardinality(O) <= PageSize
  <2>1. CASE O = {}
    BY <2>1, <1>p, FS_EmptySet
  <2>2. CASE O # {}
    <3> DEFINE x == H!Max(O)
    <3>0. O \in SUBSET (0 .. n)
      <4>1. 1 .. n \subseteq 0 .. n
        OBVIOUS
      <4> HIDE DEF O
      <4> QED BY <1>2, <4>1
    <3>1. x \in O /\ \A y \in O : y <= x
      <4> HIDE DEF O
      <4> QED BY <2>2, <3>0, HasLargest
    <3> HIDE DEF x
    <3>2. O \ {x} \in SUBSET Older(x)
      <4>1. ASSUME NEW y \in O \ {x} PROVE y \in Older(x)
        <5>1. y \in R /\ y <= x /\ y # x /\ y \in Nat /\ x \in Nat
          BY <1>2, <3>0, <3>1
        <5> QED
          BY <5>1
      <4> QED
        BY <4>1
    <3>3. Cardinality(O \ {x}) = Cardinality(O) - 1
      <4> HIDE DEF O
      <4> QED BY <1>3, <3>1, FS_RemoveElement
    <3>4. Cardinality(O \ {x}) <= Cardinality(Older(x))
      <4>1. x \in R
        BY <1>2, <3>1
      <4>2. IsFiniteSet(Older(x))
        BY <1>4, <4>1
      <4> HIDE DEF O, Older
      <4> QED BY <3>2, <4>2, FS_Subset
    <3>5. Cardinality(Older(x)) < PageSize /\ Cardinality(Older(x)) \in Nat
      BY <1>2, <1>4, <1>5, <3>1
    <3> QED
      BY <1>3, <1>p, <3>3, <3>4, <3>5
  <2> QED
    BY <2>1, <2>2
<1>7. CASE O = R
  BY <1>2, <1>3, <1>6, <1>7, <1>p
<1>8. CASE O # R
  <2> DEFINE Out == R \ O
  <2>1. Out \in SUBSET Nat /\ Out # {}
    <3>1. R \subseteq Nat
      OBVIOUS
    <3> HIDE DEF O
    <3> QED BY <1>2, <1>8, <3>1
  <2>2. PICK x \in Out : \A y \in Out : x <= y
    <3> HIDE DEF Out
    <3> QED BY <2>1, LeastOf
  <2>3. x \in R /\ ~(Cardinality(Older(x)) < PageSize)
    BY <1>5, <2>2
  <2>4. Older(x) \in SUBSET O
    <3>1. ASSUME NEW y \in Older(x) PROVE y \in O
      <4>1. y \in R /\ y < x /\ y \in Nat /\ x \in Nat
        OBVIOUS
      <4> QED
        BY <2>2, <4>1
    <3> QED
      BY <3>1
  <2>5. Cardinality(Older(x)) <= Cardinality(O)
    <3> HIDE DEF O, Older
    <3> QED BY <1>3, <2>4, FS_Subset
  <2>6. Cardinality(Older(x)) \in Nat
    BY <1>4, <2>3
  <2> QED
    BY <1>2, <1>3, <1>6, <1>p, <2>3, <2>5, <2>6
<1> QED
  BY <1>7, <1>8

\* From a full list of newer results, the page that ends with its last result begins
\* at the oldest of them.
LEMMA PreviousLinks ==
    ASSUME LedgerInv, NEW ts \in Nat, NEW newer, newer = H!Newer(ts), H!Full(newer)
    PROVE  /\ H!Max(newer) \in 1 .. Len(ledger)
           /\ \E m \in H!Listed(H!Max(newer)) :
                /\ m \in ts + 1 .. H!Max(newer)
                /\ \A t \in H!Results(ts + 1, Len(ledger)) : m <= t
<1> DEFINE n == Len(ledger)
           R == H!Results(ts + 1, n)
           link == H!Max(newer)
           m == H!Min(newer)
<1>p. PageSize \in Nat \ {0}
  BY HistoryConstants
<1>0. n \in Nat
  BY DEF LedgerInv
<1>1. newer = H!Oldest(R) /\ R \in SUBSET (1 .. n) /\ newer \subseteq R /\ R \subseteq ts + 1 .. n
  BY <1>0 DEF H!Newer, H!now, H!Results, H!Oldest
<1>2. Cardinality(newer) = PageSize
  BY SameCardinality DEF H!Full
<1> HIDE DEF R
<1>3. newer # {} /\ IsFiniteSet(newer)
  <2>1. IsFiniteSet(1 .. n) /\ newer \in SUBSET (1 .. n)
    <3>1. IsFiniteSet(1 .. n)
      BY <1>0, FS_Interval
    <3> HIDE DEF n
    <3> QED BY <1>1, <3>1
  <2>2. IsFiniteSet(newer)
    BY <2>1, FS_Subset
  <2> QED
    BY <1>2, <1>p, <2>2, FS_EmptySet
<1>4. newer \in SUBSET (0 .. n) /\ newer \in SUBSET Nat
  <2>1. 1 .. n \subseteq 0 .. n /\ 1 .. n \subseteq Nat
    BY <1>0
  <2> HIDE DEF n
  <2> QED BY <1>1, <2>1
<1>5. link \in newer /\ \A y \in newer : y <= link
  BY <1>0, <1>3, <1>4, HasLargest
<1>6. m \in newer /\ \A y \in newer : m <= y
  BY <1>3, <1>4, SmallestIs
<1> HIDE DEF link, m
<1>7. link \in 1 .. n /\ m \in ts + 1 .. link /\ m \in 1 .. n
  BY <1>0, <1>1, <1>4, <1>5, <1>6
<1>8. ASSUME NEW t \in R PROVE m <= t
  <2> SUFFICES ASSUME t < m PROVE FALSE
    BY <1>0, <1>1, <1>7
  <2>1. t <= m
    BY <1>0, <1>1, <1>7
  <2>2. t \in newer
    BY <1>0, <1>1, <1>6, <2>1, OldestOf
  <2> QED
    BY <1>6, <1>7, <2>2, <1>4
<1>9. m \in H!Listed(link)
  <2> DEFINE Q == H!Results(1, link)
             After == {u \in Q : u > m}
  <2>1. m \in Q
    BY <1>1, <1>6, <1>7 DEF H!Results, R
  <2>2. After \in SUBSET (newer \ {m})
    <3>1. ASSUME NEW u \in After PROVE u \in newer \ {m}
      <4>1. u \in 1 .. link /\ u > m /\ H!Called(ledger[u].call) = "TroveManager"
        BY DEF H!Results
      <4>2. u \in R
        BY <1>0, <1>7, <4>1 DEF H!Results, R
      <4>3. u \in newer
        <5>1. u <= link /\ link \in H!Oldest(R)
          BY <1>1, <1>5, <4>1
        <5> HIDE DEF n
        <5> QED BY <1>0, <1>1, <4>2, <5>1, OldestOf
      <4> QED
        BY <1>7, <4>1, <4>3
    <3> QED
      BY <3>1
  <2>3. Cardinality(newer \ {m}) = PageSize - 1 /\ IsFiniteSet(newer \ {m})
    BY <1>2, <1>3, <1>6, FS_RemoveElement
  <2>4. Cardinality(After) <= PageSize - 1 /\ Cardinality(After) \in Nat
    <3> HIDE DEF After
    <3> QED BY <2>2, <2>3, FS_Subset, FS_CardinalityType
  <2>5. Cardinality(After) < PageSize
    BY <1>p, <2>4
  <2> QED
    BY <2>1, <2>5, SameCardinality DEF H!Listed, H!Newest
<1> QED
  BY <1>7, <1>8, <1>9 DEF link, R

LEMMA StepOK ==
    ASSUME HistoryInv, UNCHANGED <<ledger, form>>, url' \in 0 .. Len(ledger),
           token' \in BOOLEAN, DOMAIN loads' = Load, \A l \in Load : LoadOK(loads'[l]),
           ViewOK(view'), searches' \subseteq Redemptions
    PROVE  HistoryInv'
<1>1. LedgerInv /\ Grows
  <2>1. LedgerInv
    BY DEF HistoryInv
  <2>2. Len(ledger) \in Nat
    BY <2>1 DEF LedgerInv
  <2> QED
    BY <2>1, <2>2 DEF Grows
<1>2. LedgerInv'
  BY <1>1 DEF LedgerInv
<1>3. \A l \in Load : LoadOK(loads[l])'
  <2>1. ASSUME NEW l \in Load PROVE LoadOK(loads[l])'
    <3>1. \A load : LoadOK(load) => LoadOK(load)'
      BY <1>1, LoadStays
    <3>2. LoadOK(loads'[l])
      OBVIOUS
    <3>3. PICK x : x = loads'[l]
      OBVIOUS
    <3>4. LoadOK(x)'
      BY <3>1, <3>2, <3>3
    <3> QED
      BY <3>3, <3>4 DEF LoadOK
  <2> QED
    BY <2>1
<1>4. ViewOK(view)'
  <2>1. \A w : ViewOK(w) => ViewOK(w)'
    BY <1>1, ViewStays
  <2>2. PICK w : w = view'
    OBVIOUS
  <2>3. ViewOK(w)'
    BY <2>1, <2>2
  <2> QED
    BY <2>2, <2>3 DEF ViewOK, RowsOK, LinksOK
<1>5. searches' \subseteq Redemptions'
  BY <1>1, ToldStays
<1>6. LoadsInv'
  BY <1>3 DEF LoadsInv, HistoryInv
<1> QED
  BY <1>2, <1>4, <1>5, <1>6 DEF HistoryInv

\* The same view, and loads that are the same or new.
LEMMA NoLoadOK ==
    ASSUME LedgerInv
    PROVE  LoadOK(H!NoLoad) /\ H!NoLoad.failed = FALSE
<1>1. Len(ledger) \in Nat
  BY DEF LedgerInv
<1>2. H!NoLoad \in Loads /\ H!NoLoad.failed = FALSE
  BY DEF H!NoLoad, Loads, LoadPc, H!Latest
<1>3. H!NoLoad.timestamp = 0 /\ H!NoLoad.results = {} /\ H!NoLoad.affected = {}
  BY DEF H!NoLoad
<1> QED
  BY <1>1, <1>2, <1>3 DEF LoadOK

\* A page that shows no rows yet.
LEMMA EmptyViewOK ==
    ASSUME LedgerInv, NEW w, DOMAIN w = ViewFields, w.shows # "rows", w.affected = {}, w.next = {},
           w.previous = {}, w.of = H!NoLoad, w.since = 0, DOMAIN w.enriched = {}
    PROVE  ViewOK(w)
<1>1. Len(ledger) \in Nat
  BY DEF LedgerInv
<1>2. RowsOK(w) /\ LinksOK(w)
  BY DEF RowsOK, LinksOK
<1> QED
  BY <1>1, <1>2, NoLoadOK DEF ViewOK

LEMMA BlankOK ==
    ASSUME LedgerInv
    PROVE  ViewOK(H!Blank) /\ ViewOK([H!Blank EXCEPT !.shows = "error"])
<1> DEFINE w == H!Blank
           e == [w EXCEPT !.shows = "error"]
<1>1. /\ DOMAIN w = ViewFields /\ w.shows = "spinner" /\ w.affected = {} /\ w.next = {}
      /\ w.previous = {} /\ w.of = H!NoLoad /\ w.since = 0
  BY DEF H!Blank, ViewFields
<1>2. DOMAIN w.enriched = {}
  BY DEF H!Blank
<1> HIDE DEF w
<1>3. /\ DOMAIN e = ViewFields /\ e.shows = "error" /\ e.affected = {} /\ e.next = {}
      /\ e.previous = {} /\ e.of = H!NoLoad /\ e.since = 0 /\ e.enriched = w.enriched
  BY <1>1 DEF ViewFields
<1> HIDE DEF e
<1>4. ViewOK(w)
  BY <1>1, <1>2, EmptyViewOK
<1>5. ViewOK(e)
  BY <1>2, <1>3, EmptyViewOK
<1> QED
  BY <1>4, <1>5 DEF w, e

\* A load that begins.
LEMMA EffectOK ==
    ASSUME HistoryInv, NEW l \in Load, NEW location \in 0 .. Len(ledger), NEW known \in BOOLEAN,
           H!Effect(l, location, known)
    PROVE  /\ DOMAIN loads' = Load /\ \A k \in Load : LoadOK(loads'[k])
           /\ ViewOK(view')
<1>0. /\ LedgerInv /\ DOMAIN loads = Load /\ \A k \in Load : LoadOK(loads[k])
      /\ Len(ledger) \in Nat /\ Len(ledger) >= 1
  BY DEF HistoryInv, LedgerInv, LoadsInv
<1>1. CASE known
  <2> DEFINE stamp == IF location = 0 THEN Len(ledger) ELSE location
             new == [H!NoLoad EXCEPT !.pc = "results", !.url = location, !.timestamp = stamp]
  <2>1. loads' = [loads EXCEPT ![l] = new] /\ view' = H!Blank
    BY <1>1 DEF H!Effect, H!Latest, H!now
  <2>2. stamp \in Nat /\ stamp \in 0 .. Len(ledger) /\ location \in Nat
    BY <1>0
  <2> HIDE DEF stamp
  <2>3. new \in Loads /\ new.timestamp = stamp /\ new.results = {} /\ new.affected = {}
    BY <2>2 DEF H!NoLoad, Loads, LoadPc, H!Latest
  <2> HIDE DEF new
  <2>4. LoadOK(new)
    BY <2>2, <2>3 DEF LoadOK
  <2>5. DOMAIN loads' = Load /\ \A k \in Load : loads'[k] = loads[k] \/ loads'[k] = new
    BY <1>0, <2>1
  <2> QED
    BY <1>0, <2>1, <2>4, <2>5, BlankOK
<1>2. CASE ~known
  BY <1>0, <1>2, BlankOK DEF H!Effect
<1> QED
  BY <1>1, <1>2

\* A load that ends.
LEMMA EndOK ==
    ASSUME HistoryInv, NEW l \in Load, loads' = [loads EXCEPT ![l] = H!NoLoad]
    PROVE  DOMAIN loads' = Load /\ \A k \in Load : LoadOK(loads'[k])
<1>0. LedgerInv /\ DOMAIN loads = Load /\ \A k \in Load : LoadOK(loads[k])
  BY DEF HistoryInv, LoadsInv
<1>1. DOMAIN loads' = Load /\ \A k \in Load : loads'[k] = loads[k] \/ loads'[k] = H!NoLoad
  BY <1>0
<1> QED
  BY <1>0, <1>1, NoLoadOK

LEMMA OpenOK == ASSUME HistoryInv, NEW l \in Load, H!Open(l) \/ H!Turn(l) \/ H!TokenKnown(l)
                PROVE  HistoryInv'
<1>0. /\ LedgerInv /\ url \in 0 .. Len(ledger) /\ Len(ledger) \in Nat /\ token \in BOOLEAN /\ searches \subseteq Redemptions
      /\ view.next \subseteq 0 .. Len(ledger) /\ view.previous \subseteq 0 .. Len(ledger)
  BY DEF HistoryInv, LedgerInv, LoadsInv, ViewOK
<1>1. ASSUME NEW location \in 0 .. Len(ledger), NEW known \in BOOLEAN, H!Effect(l, location, known),
             url' = location, token' \in BOOLEAN, UNCHANGED <<ledger, form, searches>>
      PROVE  HistoryInv'
  <2>1. /\ DOMAIN loads' = Load /\ \A k \in Load : LoadOK(loads'[k])
        /\ ViewOK(view')
    BY <1>1, EffectOK
  <2> QED
    BY <1>0, <1>1, <2>1, StepOK
<1>2. \E location \in 0 .. Len(ledger), known \in BOOLEAN :
        /\ H!Effect(l, location, known) /\ token' \in BOOLEAN
        /\ url' = location /\ UNCHANGED <<ledger, form, searches>>
  <2>1. CASE H!Open(l)
    BY <1>0, <2>1 DEF H!Open, H!Latest
  <2>2. CASE H!Turn(l)
    BY <1>0, <2>2 DEF H!Turn
  <2>3. CASE H!TokenKnown(l)
    BY <1>0, <2>3 DEF H!TokenKnown
  <2> QED
    BY <2>1, <2>2, <2>3
<1> QED
  BY <1>1, <1>2

LEMMA RejectedOK == ASSUME HistoryInv, NEW l \in Load, H!Rejected(l) PROVE HistoryInv'
<1>1. DOMAIN loads' = Load /\ \A k \in Load : LoadOK(loads'[k])
  BY EndOK DEF H!Rejected
<1>2. /\ url \in 0 .. Len(ledger) /\ token \in BOOLEAN /\ ViewOK(view) /\ searches \subseteq Redemptions
      /\ UNCHANGED <<ledger, form, url, token, view, searches>>
  BY DEF HistoryInv, LoadsInv, H!Rejected
<1> QED
  BY <1>1, <1>2, StepOK

\* The page keeps what a load was.
LEMMA FailedOK ==
    ASSUME NEW load, LoadOK(load), NEW failed \in BOOLEAN
    PROVE  LET kept == [load EXCEPT !.failed = failed] IN
           /\ LoadOK(kept) /\ kept.failed = failed
           /\ kept.timestamp = load.timestamp /\ kept.results = load.results
<1> DEFINE kept == [load EXCEPT !.failed = failed]
<1>1. /\ load \in Loads /\ load.timestamp \in 0 .. Len(ledger) /\ load.results \subseteq 1 .. Len(ledger)
      /\ load.affected \subseteq Redemptions
  BY DEF LoadOK
<1>2. /\ kept \in Loads /\ kept.timestamp = load.timestamp /\ kept.results = load.results
      /\ kept.affected = load.affected
  BY <1>1 DEF Loads
<1>3. kept.failed = failed
  BY <1>1 DEF Loads
<1> HIDE DEF kept
<1>4. LoadOK(kept)
  BY <1>1, <1>2 DEF LoadOK
<1> QED
  BY <1>2, <1>3, <1>4 DEF kept

\* What the newest results are.
LEMMA ListedIs ==
    ASSUME LedgerInv, NEW ts \in 0 .. Len(ledger)
    PROVE  H!Listed(ts) \subseteq 1 .. Len(ledger)
<1>1. Len(ledger) \in Nat
  BY DEF LedgerInv
<1>2. H!Listed(ts) \subseteq 1 .. ts
  BY DEF H!Listed, H!Newest, H!Results
<1> QED
  BY <1>1, <1>2

LEMMA ResultsOK == ASSUME HistoryInv, NEW l \in Load, H!ResultsAnswered(l) PROVE HistoryInv'
<1>0. /\ LedgerInv /\ DOMAIN loads = Load /\ \A k \in Load : LoadOK(loads[k]) /\ Len(ledger) \in Nat
      /\ url \in 0 .. Len(ledger) /\ token \in BOOLEAN /\ ViewOK(view) /\ searches \subseteq Redemptions
  BY DEF HistoryInv, LedgerInv, LoadsInv
<1>1. UNCHANGED <<ledger, form, url, token, searches>>
  BY DEF H!ResultsAnswered
<1> DEFINE load == loads[l]
<1>2. load \in Loads /\ LoadOK(load) /\ load.timestamp \in 0 .. Len(ledger)
  BY <1>0 DEF LoadOK
<1>3. CASE /\ loads' = [loads EXCEPT ![l].pc = "details", ![l].results = H!Listed(loads[l].timestamp)]
           /\ UNCHANGED view
  <2> DEFINE list == H!Listed(load.timestamp)
             new == [load EXCEPT !.pc = "details", !.results = list]
  <2>1. list \subseteq 1 .. Len(ledger)
    BY <1>0, <1>2, ListedIs
  <2>2. list \in SUBSET Nat
    <3>1. 1 .. Len(ledger) \subseteq Nat
      BY <1>0
    <3> QED BY <2>1, <3>1
  <2>3. DOMAIN loads' = Load /\ \A k \in Load : loads'[k] = loads[k] \/ loads'[k] = new
    BY <1>0, <1>3
  <2> HIDE DEF list
  <2>4. new \in Loads /\ new.timestamp = load.timestamp /\ new.results = list /\ new.affected = load.affected
    <3> HIDE DEF load
    <3> QED BY <1>2, <2>2 DEF Loads, LoadPc
  <2> HIDE DEF new
  <2>5. LoadOK(new)
    BY <1>2, <2>1, <2>4 DEF LoadOK
  <2> QED
    BY <1>0, <1>1, <1>3, <2>3, <2>5, StepOK
<1>4. CASE /\ loads' = [loads EXCEPT ![l] = H!NoLoad]
           /\ view' = [view EXCEPT !.shows = "rows", !.rows = {}, !.affected = {}, !.next = {},
                                   !.previous = {}, !.of = [loads[l] EXCEPT !.failed = TRUE]]
  <2> DEFINE of == [load EXCEPT !.failed = TRUE]
             w == [view EXCEPT !.shows = "rows", !.rows = {}, !.affected = {}, !.next = {},
                               !.previous = {}, !.of = of]
  <2>1. LoadOK(of) /\ of.failed = TRUE
    BY <1>2, FailedOK
  <2>2. /\ DOMAIN view = ViewFields /\ view.since \in 0 .. Len(ledger) /\ RowsOK(view)
    BY <1>0 DEF ViewOK
  <2> HIDE DEF of
  <2>3. /\ DOMAIN w = ViewFields /\ w.of = of /\ w.since = view.since /\ w.next = {} /\ w.previous = {}
        /\ w.affected = {} /\ w.enriched = view.enriched
    BY <2>2 DEF ViewFields
  <2>4. view' = w
    BY <1>4 DEF of
  <2> HIDE DEF w
  <2>5. RowsOK(w)
    BY <2>2, <2>3 DEF RowsOK
  <2>6. LinksOK(w)
    BY <2>1, <2>3 DEF LinksOK
  <2>7. ViewOK(view')
    BY <2>1, <2>2, <2>3, <2>4, <2>5, <2>6 DEF ViewOK
  <2>8. DOMAIN loads' = Load /\ \A k \in Load : LoadOK(loads'[k])
    BY <1>4, EndOK
  <2> QED
    BY <1>0, <1>1, <2>7, <2>8, StepOK
<1> QED
  BY <1>3, <1>4 DEF H!ResultsAnswered

LEMMA DetailsOK == ASSUME HistoryInv, NEW l \in Load, H!DetailsAnswered(l) PROVE HistoryInv'
<1>0. /\ LedgerInv /\ DOMAIN loads = Load /\ \A k \in Load : LoadOK(loads[k]) /\ Len(ledger) \in Nat
      /\ url \in 0 .. Len(ledger) /\ token \in BOOLEAN /\ ViewOK(view) /\ searches \subseteq Redemptions
  BY DEF HistoryInv, LedgerInv, LoadsInv
<1>1. UNCHANGED <<ledger, form, url, token, view, searches>>
  BY DEF H!DetailsAnswered
<1> DEFINE load == loads[l]
           redemptions == {t \in load.results : ledger[t].call = "redeemCollateral"}
<1>2. load \in Loads /\ LoadOK(load) /\ load.results \subseteq 1 .. Len(ledger)
  BY <1>0 DEF LoadOK
<1>3. redemptions \subseteq Redemptions /\ Redemptions \subseteq Nat
  BY <1>0, <1>2 DEF Redemptions
<1>4. PICK unknown, unlogged \in {{}} \cup {{t} : t \in redemptions} :
        loads' = [loads EXCEPT ![l].pc = "previous", ![l].rows = redemptions \ unknown,
                    ![l].affected = redemptions \ (unknown \cup unlogged),
                    ![l].failed = unknown \cup unlogged # {}]
  BY DEF H!DetailsAnswered
<1> DEFINE rows == redemptions \ unknown
           affected == redemptions \ (unknown \cup unlogged)
           failed == unknown \cup unlogged # {}
           new == [load EXCEPT !.pc = "previous", !.rows = rows, !.affected = affected, !.failed = failed]
<1>5. DOMAIN loads' = Load /\ \A k \in Load : loads'[k] = loads[k] \/ loads'[k] = new
  BY <1>0, <1>4
<1>6. rows \in SUBSET Nat /\ affected \in SUBSET Nat /\ affected \subseteq Redemptions
  <2> HIDE DEF redemptions
  <2> QED BY <1>3
<1>7. failed \in BOOLEAN
  OBVIOUS
<1> HIDE DEF rows, affected, failed
<1>8. new \in Loads /\ new.timestamp = load.timestamp /\ new.results = load.results /\ new.affected = affected
  <2> HIDE DEF load
  <2> QED BY <1>2, <1>6, <1>7 DEF Loads, LoadPc
<1> HIDE DEF new
<1>9. LoadOK(new)
  BY <1>2, <1>6, <1>8 DEF LoadOK
<1> QED
  BY <1>0, <1>1, <1>5, <1>9, StepOK

LEMMA PreviousOK == ASSUME HistoryInv, NEW l \in Load, H!PreviousAnswered(l) PROVE HistoryInv'
<1>0. /\ LedgerInv /\ DOMAIN loads = Load /\ \A k \in Load : LoadOK(loads[k])
      /\ Len(ledger) \in Nat /\ Len(ledger) >= 1
      /\ url \in 0 .. Len(ledger) /\ token \in BOOLEAN /\ ViewOK(view) /\ searches \subseteq Redemptions
  BY DEF HistoryInv, LedgerInv, LoadsInv
<1>1. UNCHANGED <<ledger, form, url, token, searches>> /\ loads' = [loads EXCEPT ![l] = H!NoLoad]
  BY DEF H!PreviousAnswered
<1> DEFINE load == loads[l]
           ts == load.timestamp
           newer == H!Newer(ts)
           first == IF load.url = 0 THEN {} ELSE {0}
           next == IF H!Full(load.results) THEN {H!Min(load.results)} ELSE {}
<1>2. /\ load \in Loads /\ LoadOK(load) /\ ts \in Nat /\ load.results \subseteq 1 .. Len(ledger)
      /\ load.affected \subseteq Redemptions /\ load.failed \in BOOLEAN
  BY <1>0 DEF LoadOK, Loads
<1>3. PICK answered \in BOOLEAN :
        view' = [view EXCEPT
             !.shows = "rows", !.rows = load.rows, !.affected = load.affected,
             !.next = next,
             !.previous = IF answered /\ H!Full(newer) THEN {H!Max(newer)} ELSE first,
             !.of = [load EXCEPT !.failed = load.failed \/ ~answered], !.since = Len(ledger)]
  BY <1>0, <1>2 DEF H!PreviousAnswered, H!Latest, H!now, Loads
<1> DEFINE failed == load.failed \/ ~answered
           previous == IF answered /\ H!Full(newer) THEN {H!Max(newer)} ELSE first
           of == [load EXCEPT !.failed = failed]
           w == [view EXCEPT !.shows = "rows", !.rows = load.rows, !.affected = load.affected,
                             !.next = next, !.previous = previous, !.of = of, !.since = Len(ledger)]
<1>4. failed \in BOOLEAN /\ view' = w
  BY <1>2, <1>3
<1>5. LoadOK(of) /\ of.failed = failed /\ of.timestamp = ts /\ of.results = load.results
  BY <1>2, <1>4, FailedOK
<1>6. \A link \in next : link \in load.results /\ \A u \in load.results : link <= u
  <2>1. CASE H!Full(load.results)
    <3> DEFINE T == load.results
    <3>1. T \in SUBSET Nat /\ Cardinality(T) = PageSize /\ PageSize # 0
      BY <1>2, <2>1, SameCardinality, HistoryConstants DEF H!Full, Loads
    <3> HIDE DEF T
    <3>2. T # {}
      BY <3>1, FS_EmptySet
    <3>3. H!Min(T) \in T /\ \A m \in T : H!Min(T) <= m
      BY <3>1, <3>2, SmallestIs
    <3> QED
      BY <3>3 DEF T
  <2>2. CASE ~H!Full(load.results)
    BY <2>2
  <2> QED
    BY <2>1, <2>2
<1>7. ASSUME answered, H!Full(newer)
      PROVE  /\ previous = {H!Max(newer)} /\ H!Max(newer) \in 1 .. Len(ledger)
             /\ \E m \in H!Listed(H!Max(newer)) :
                  /\ m \in ts + 1 .. H!Max(newer)
                  /\ \A t \in H!Results(ts + 1, Len(ledger)) : m <= t
  <2>1. /\ H!Max(newer) \in 1 .. Len(ledger)
        /\ \E m \in H!Listed(H!Max(newer)) :
             /\ m \in ts + 1 .. H!Max(newer)
             /\ \A t \in H!Results(ts + 1, Len(ledger)) : m <= t
    <3> HIDE DEF ts
    <3> QED BY <1>0, <1>2, <1>7, PreviousLinks
  <2> QED
    BY <1>7, <2>1
<1>8. ASSUME answered, ~H!Full(newer)
      PROVE  Cardinality(H!Results(ts + 1, Len(ledger))) < PageSize
  <2> DEFINE R == H!Results(ts + 1, Len(ledger))
  <2>1. newer = H!Oldest(R) /\ R \in SUBSET (1 .. Len(ledger))
    BY <1>0, <1>2 DEF H!Newer, H!now, H!Results
  <2> HIDE DEF R, newer
  <2>2. Cardinality(R) < PageSize
    BY <1>0, <1>8, <2>1, OldestAreAll
  <2> QED
    BY <2>2 DEF R
<1>9. previous \subseteq 0 .. Len(ledger) /\ next \subseteq 0 .. Len(ledger)
  <2>1. next \subseteq 0 .. Len(ledger)
    <3>1. 1 .. Len(ledger) \subseteq 0 .. Len(ledger) /\ next \subseteq load.results
      BY <1>6
    <3> QED
      BY <1>2, <3>1
  <2>2. first \subseteq 0 .. Len(ledger)
    BY <1>0
  <2>3. previous \subseteq 0 .. Len(ledger)
    <3>1. CASE answered /\ H!Full(newer)
      <4> DEFINE x == H!Max(newer)
      <4>1. previous = {x} /\ x \in 1 .. Len(ledger)
        BY <1>7, <3>1
      <4> HIDE DEF x, previous
      <4> QED
        BY <1>0, <4>1
    <3>2. CASE ~(answered /\ H!Full(newer))
      BY <2>2, <3>2
    <3> QED
      BY <3>1, <3>2
  <2> QED
    BY <2>1, <2>3
<1>10. ~failed => answered
  BY <1>2
<1>11. /\ answered /\ H!Full(newer) => previous = {H!Max(newer)}
       /\ ~(answered /\ H!Full(newer)) => previous = {} \/ previous = {0}
  OBVIOUS
<1>12. DOMAIN view = ViewFields /\ RowsOK(view)
  BY <1>0 DEF ViewOK
<1> HIDE DEF failed, previous, of, next, first
<1>13. /\ DOMAIN w = ViewFields /\ w.shows = "rows" /\ w.affected = load.affected /\ w.next = next
       /\ w.previous = previous /\ w.of = of /\ w.since = Len(ledger) /\ w.enriched = view.enriched
  BY <1>12 DEF ViewFields
<1> HIDE DEF w, load, ts, newer
<1>14. RowsOK(w)
  BY <1>2, <1>12, <1>13 DEF RowsOK
<1>15. LinksOK(w)
  <2> SUFFICES ASSUME ~failed PROVE LinksOK(w)
    BY <1>5, <1>13 DEF LinksOK
  <2>1. CASE H!Full(newer)
    <3> DEFINE x == H!Max(newer)
    <3>1. /\ previous = {x} /\ x \in 1 .. Len(ledger)
          /\ \E m \in H!Listed(x) :
               /\ m \in ts + 1 .. x
               /\ \A t \in H!Results(ts + 1, Len(ledger)) : m <= t
      BY <1>7, <1>10, <2>1
    <3> HIDE DEF x
    <3>2. 0 \notin previous /\ previous # {}
      BY <1>0, <3>1
    <3> QED
      BY <1>5, <1>6, <1>13, <3>1, <3>2 DEF LinksOK
  <2>2. CASE ~H!Full(newer)
    <3>1. Cardinality(H!Results(ts + 1, Len(ledger))) < PageSize
      BY <1>8, <1>10, <2>2
    <3>2. previous \ {0} = {}
      BY <1>11, <2>2
    <3> QED
      BY <1>5, <1>6, <1>13, <3>1, <3>2 DEF LinksOK
  <2> QED
    BY <2>1, <2>2
<1>16. ViewOK(view')
  BY <1>0, <1>4, <1>5, <1>9, <1>13, <1>14, <1>15 DEF ViewOK
<1>17. DOMAIN loads' = Load /\ \A k \in Load : LoadOK(loads'[k])
  BY <1>1, EndOK
<1> QED
  BY <1>0, <1>1, <1>16, <1>17, StepOK

\* The rows may change without the links.
LEMMA RowsChange ==
    ASSUME HistoryInv, NEW expanded, NEW enriched,
           \A t \in DOMAIN enriched : t \in Redemptions /\ Told(t, enriched[t])
    PROVE  ViewOK([view EXCEPT !.expanded = expanded, !.enriched = enriched])
<1> DEFINE w == [view EXCEPT !.expanded = expanded, !.enriched = enriched]
<1>1. ViewOK(view) /\ DOMAIN view = ViewFields
  BY DEF HistoryInv, ViewOK
<1>2. /\ DOMAIN w = ViewFields /\ w.shows = view.shows /\ w.affected = view.affected
      /\ w.next = view.next /\ w.previous = view.previous /\ w.of = view.of /\ w.since = view.since
      /\ w.enriched = enriched
  BY <1>1 DEF ViewFields
<1> HIDE DEF w
<1>3. LinksOK(w)
  BY <1>1, <1>2 DEF ViewOK, LinksOK
<1>4. RowsOK(w)
  BY <1>1, <1>2 DEF ViewOK, RowsOK
<1>5. ViewOK(w)
  BY <1>1, <1>2, <1>3, <1>4 DEF ViewOK
<1> QED
  BY <1>5 DEF w

LEMMA SetIs ==
    ASSUME NEW map, NEW t, NEW value
    PROVE  \A u \in DOMAIN H!Set(map, t, value) :
             \/ u = t /\ H!Set(map, t, value)[u] = value
             \/ u \in DOMAIN map /\ H!Set(map, t, value)[u] = map[u]
BY DEF H!Set

LEMMA ToggleOK == ASSUME HistoryInv, NEW t, H!Toggle(t) PROVE HistoryInv'
<1>0. /\ DOMAIN loads = Load /\ \A k \in Load : LoadOK(loads[k])
      /\ url \in 0 .. Len(ledger) /\ token \in BOOLEAN /\ RowsOK(view) /\ searches \subseteq Redemptions
  BY DEF HistoryInv, LoadsInv, ViewOK
<1>1. UNCHANGED <<ledger, form, url, token, loads>> /\ t \in view.affected
  BY DEF H!Toggle
<1> DEFINE fetches == t \notin view.expanded /\ t \notin DOMAIN view.enriched
           expanded == IF t \in view.expanded THEN view.expanded \ {t} ELSE view.expanded \cup {t}
           enriched == IF fetches THEN H!Set(view.enriched, t, H!Loading) ELSE view.enriched
<1>2. t \in Redemptions
  BY <1>0, <1>1 DEF RowsOK
<1>3. Told(t, H!Loading)
  <2>1. H!Loading.loading
    BY DEF H!Loading
  <2> QED
    BY <2>1 DEF Told
<1>4. \A u \in DOMAIN enriched : u \in Redemptions /\ Told(u, enriched[u])
  <2>1. CASE fetches
    <3>1. enriched = H!Set(view.enriched, t, H!Loading)
      BY <2>1
    <3> HIDE DEF enriched
    <3> QED
      BY <1>0, <1>2, <1>3, <3>1, SetIs DEF RowsOK
  <2>2. CASE ~fetches
    BY <1>0, <2>2 DEF RowsOK
  <2> QED
    BY <2>1, <2>2
<1>5. view' = [view EXCEPT !.expanded = expanded, !.enriched = enriched]
  <2>1. DOMAIN view = ViewFields
    BY DEF HistoryInv, ViewOK
  <2> QED
    BY <2>1 DEF H!Toggle, ViewFields
<1> HIDE DEF expanded, enriched
<1>6. ViewOK(view')
  BY <1>4, <1>5, RowsChange
<1>7. searches' \subseteq Redemptions
  BY <1>0, <1>2 DEF H!Toggle
<1> QED
  BY <1>0, <1>1, <1>6, <1>7, StepOK

LEMMA EnrichedOK == ASSUME HistoryInv, NEW t, H!Enriched(t) PROVE HistoryInv'
<1>0. /\ LedgerInv /\ DOMAIN loads = Load /\ \A k \in Load : LoadOK(loads[k])
      /\ form \in [H!Contract -> H!AddressForm]
      /\ url \in 0 .. Len(ledger) /\ token \in BOOLEAN /\ RowsOK(view) /\ searches \subseteq Redemptions
  BY DEF HistoryInv, LoadsInv, ViewOK
<1>1. /\ UNCHANGED <<ledger, form, url, token, loads>> /\ t \in Redemptions
      /\ searches' \subseteq Redemptions
  BY <1>0 DEF H!Enriched
<1>2. PICK fault \in H!Fault(t) :
        view' = [view EXCEPT !.enriched = H!Set(view.enriched, t, H!enrichOneTrove(t, fault))]
  BY DEF H!Enriched
<1> DEFINE row == H!enrichOneTrove(t, fault)
           enriched == H!Set(view.enriched, t, row)
<1>3. Told(t, row)
  <2>1. \A r \in Redemptions : \A f \in H!Fault(r) : Told(r, H!enrichOneTrove(r, f))
    BY <1>0, EnrichTells
  <2>2. t \in Redemptions /\ fault \in H!Fault(t)
    BY <1>1, <1>2
  <2> QED
    BY <2>1, <2>2
<1> HIDE DEF row
<1>4. \A u \in DOMAIN enriched : u \in Redemptions /\ Told(u, enriched[u])
  <2>1. PICK map, value : map = view.enriched /\ value = row
    OBVIOUS
  <2>2. enriched = H!Set(map, t, value)
    BY <2>1
  <2> HIDE DEF enriched
  <2>3. \A u \in DOMAIN enriched :
          \/ u = t /\ enriched[u] = value
          \/ u \in DOMAIN map /\ enriched[u] = map[u]
    BY <2>2, SetIs
  <2> QED
    BY <1>0, <1>1, <1>3, <2>1, <2>3 DEF RowsOK
<1>5. view' = [view EXCEPT !.expanded = view.expanded, !.enriched = enriched]
  <2>1. DOMAIN view = ViewFields
    BY DEF HistoryInv, ViewOK
  <2>2. view' = [view EXCEPT !.enriched = enriched]
    BY <1>2 DEF row
  <2> HIDE DEF enriched
  <2>3. [view EXCEPT !.enriched = enriched] = [view EXCEPT !.expanded = view.expanded, !.enriched = enriched]
    BY <2>1 DEF ViewFields
  <2> QED
    BY <2>2, <2>3
<1> HIDE DEF enriched
<1>6. ViewOK(view')
  BY <1>4, <1>5, RowsChange
<1> QED
  BY <1>0, <1>1, <1>6, StepOK

LEMMA HistoryInitially == H!Init => HistoryInv
<1> SUFFICES ASSUME H!Init PROVE HistoryInv
  OBVIOUS
<1>1. LedgerInv /\ Len(ledger) \in Nat
  BY LedgerInitially DEF LedgerInv
<1>2. LoadsInv
  <2>1. DOMAIN loads = Load /\ \A l \in Load : loads[l] = H!NoLoad
    BY DEF H!Init
  <2> QED
    BY <1>1, <2>1, NoLoadOK DEF LoadsInv, H!Init, H!Latest
<1>3. ViewOK(view) /\ searches \subseteq Redemptions
  BY <1>1, BlankOK DEF H!Init
<1> QED
  BY <1>1, <1>2, <1>3 DEF HistoryInv

LEMMA LedgerGrowsOK ==
    ASSUME HistoryInv, H!Happens \/ H!Redistributes \/ H!OtherHappens
    PROVE  HistoryInv'
<1>1. LedgerInv /\ LedgerInv' /\ Grows
  BY LedgerSteps DEF HistoryInv
<1>2. UNCHANGED <<form, url, token, view, loads, searches>>
  BY DEF H!Happens, H!Redistributes, H!OtherHappens
<1>3. Len(ledger) \in Nat /\ Len(ledger') \in Nat /\ Len(ledger) <= Len(ledger')
  BY <1>1 DEF LedgerInv, Grows
<1>4. LoadsInv'
  <2>1. \A load : LoadOK(load) => LoadOK(load)'
    BY <1>1, <1>2, LoadStays
  <2>2. ASSUME NEW l \in Load PROVE LoadOK(loads[l])'
    <3>1. PICK x : x = loads[l] /\ x = loads'[l]
      BY <1>2
    <3>2. LoadOK(x)'
      BY <2>1, <3>1 DEF HistoryInv, LoadsInv
    <3> QED
      BY <3>1, <3>2 DEF LoadOK
  <2> QED
    BY <1>2, <1>3, <2>2 DEF HistoryInv, LoadsInv
<1>5. ViewOK(view)'
  <2>1. \A w : ViewOK(w) => ViewOK(w)'
    BY <1>1, <1>2, ViewStays
  <2>2. PICK w : w = view /\ w = view'
    BY <1>2
  <2>3. ViewOK(w)'
    BY <2>1, <2>2 DEF HistoryInv
  <2> QED
    BY <2>2, <2>3 DEF ViewOK, RowsOK, LinksOK
<1>6. searches' \subseteq Redemptions'
  BY <1>1, <1>2, ToldStays DEF HistoryInv
<1> QED
  BY <1>1, <1>4, <1>5, <1>6 DEF HistoryInv

LEMMA HistoryNext == HistoryInv /\ [PagesNext]_allVars => HistoryInv'
<1> SUFFICES ASSUME HistoryInv, [PagesNext]_allVars PROVE HistoryInv'
  OBVIOUS
<1>1. CASE UNCHANGED historyVars
  <2>1. UNCHANGED <<ledger, form, url, token, view, loads, searches>>
    BY <1>1 DEF historyVars
  <2>2. /\ url \in 0 .. Len(ledger) /\ token \in BOOLEAN /\ DOMAIN loads = Load
        /\ \A l \in Load : LoadOK(loads[l])
        /\ ViewOK(view) /\ searches \subseteq Redemptions
    BY DEF HistoryInv, LoadsInv
  <2> QED
    BY <2>1, <2>2, StepOK
<1>2. CASE H!Next
  <2>1. CASE H!Happens \/ H!Redistributes \/ H!OtherHappens
    BY <2>1, LedgerGrowsOK
  <2>2. ASSUME NEW l \in Load, H!Open(l) \/ H!Turn(l) \/ H!TokenKnown(l) PROVE HistoryInv'
    BY <2>2, OpenOK
  <2>3. ASSUME NEW l \in Load, H!Rejected(l) PROVE HistoryInv'
    BY <2>3, RejectedOK
  <2>4. ASSUME NEW l \in Load, H!ResultsAnswered(l) PROVE HistoryInv'
    BY <2>4, ResultsOK
  <2>5. ASSUME NEW l \in Load, H!DetailsAnswered(l) PROVE HistoryInv'
    BY <2>5, DetailsOK
  <2>6. ASSUME NEW l \in Load, H!PreviousAnswered(l) PROVE HistoryInv'
    BY <2>6, PreviousOK
  <2>7. ASSUME NEW t, H!Toggle(t) PROVE HistoryInv'
    BY <2>7, ToggleOK
  <2>8. ASSUME NEW t, H!Enriched(t) PROVE HistoryInv'
    BY <2>8, EnrichedOK
  <2> QED
    BY <1>2, <2>1, <2>2, <2>3, <2>4, <2>5, <2>6, <2>7, <2>8 DEF H!Next
<1> QED
  BY <1>1, <1>2 DEF PagesNext, allVars

\* The links of the page lead on without a gap, for pages of any size and whatever
\* happens on the ledger between the requests of a load or afterwards.
THEOREM PagesDoAdjoin == PagesSpec => []PagesAdjoin
<1>1. PagesInit => HistoryInv
  BY HistoryInitially DEF PagesInit
<1>2. HistoryInv => PagesAdjoin
  <2> SUFFICES ASSUME HistoryInv, view.shows = "rows", ~view.of.failed
               PROVE  /\ \A link \in view.next, t \in H!Results(1, H!now) :
                           (\A u \in view.of.results : t < u) => t <= link
                      /\ \A link \in view.previous \ {0}, t \in H!Results(view.of.timestamp + 1, H!now) :
                           \E u \in H!Listed(link) : u <= t
                      /\ 0 \in view.previous \/ view.previous = {} =>
                           Cardinality(H!Results(view.of.timestamp + 1, view.since)) < PageSize
    BY SameCardinality DEF PagesAdjoin, H!PagesAdjoin, H!Latest
  <2>1. LinksOK(view)
    BY DEF HistoryInv, ViewOK
  <2>2. Len(ledger) \in Nat /\ H!now = Len(ledger)
    BY DEF HistoryInv, LedgerInv, H!now
  <2>3. ASSUME NEW link \in view.next, NEW t \in H!Results(1, H!now), \A u \in view.of.results : t < u
        PROVE  t <= link
    <3>1. link \in view.of.results /\ view.of.results \subseteq 1 .. Len(ledger)
      BY <2>1 DEF LinksOK, HistoryInv, ViewOK, LoadOK
    <3>2. t \in 1 .. Len(ledger)
      BY <2>2 DEF H!Results
    <3>3. t < link
      BY <2>3, <3>1
    <3> QED
      BY <2>2, <3>1, <3>2, <3>3
  <2> QED
    BY <2>1, <2>2, <2>3 DEF LinksOK
<1> QED
  BY <1>1, <1>2, HistoryNext, PTL DEF PagesSpec

\* An unfolded row tells what was redeemed, for windows of any length and however
\* many windows back the last update lies.
THEOREM RedemptionsAreTold == PagesSpec => []RedeemedIsTold
<1>1. PagesInit => HistoryInv
  BY HistoryInitially DEF PagesInit
<1>2. HistoryInv => RedeemedIsTold
  BY DEF HistoryInv, ViewOK, RowsOK, Told, LastUpdate, RedeemedIsTold, H!RedeemedIsTold
<1> QED
  BY <1>1, <1>2, HistoryNext, PTL DEF PagesSpec
===============================================================================
