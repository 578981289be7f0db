------------------------- MODULE CreditLedgerProofs -------------------------
(***************************************************************************)
(* Proofs about the money of completed sales, for any sales, lines, plans, *)
(* amounts and number of requests at one time.  Sums over lines and        *)
(* installments come from module Sums: a repayment is served in the order  *)
(* of the installments, a refund against it.  A refund is counted in       *)
(* grains; what it takes off a balance or an installment is a number of    *)
(* cents, and the same number of cents off all the installments as off the *)
(* agreement: the rows that a refund leaves are those of a refund in cents.*)
(***************************************************************************)
EXTENDS CreditLedger, Sums

-----------------------------------------------------------------------------
(* Cents and grains.                                                       *)

LEMMA TimesNat ==
    ASSUME NEW g \in Nat, NEW n \in Nat
    PROVE  g * n \in Nat
OBVIOUS

LEMMA TimesInt ==
    ASSUME NEW g \in Nat, NEW n \in Int, NEW m \in Int
    PROVE  /\ g * n \in Int
           /\ g * (n + m) = g * n + g * m
           /\ g * (n - m) = g * n - g * m
OBVIOUS

LEMMA TimesGrows ==
    ASSUME NEW g \in Nat \ {0}, NEW n \in Int, NEW m \in Int
    PROVE  /\ n < m => g * n + g <= g * m
           /\ n <= m => g * n <= g * m
<1>1. ASSUME NEW k \in Int, NEW l \in Int, k <= l PROVE g * k <= g * l
  <2>1. l - k \in Nat /\ l = k + (l - k)
    BY <1>1
  <2>2. g * l = g * k + g * (l - k)
    BY <2>1, TimesInt
  <2>3. g * (l - k) \in Nat
    BY <2>1, TimesNat
  <2>4. g * k \in Int
    BY TimesInt
  <2> DEFINE x == g * k
             y == g * (l - k)
  <2> HIDE DEF x, y
  <2>5. x \in Int /\ y \in Nat => x <= x + y
    OBVIOUS
  <2> QED BY <2>2, <2>3, <2>4, <2>5 DEF x, y
<1>2. ASSUME n < m PROVE g * n + g <= g * m
  <2>1. n + 1 <= m /\ n + 1 \in Int
    BY <1>2
  <2>2. g * (n + 1) <= g * m
    BY <1>1, <2>1
  <2>3. g * (n + 1) = g * n + g
    BY TimesInt
  <2> QED BY <2>2, <2>3
<1> QED BY <1>1, <1>2

LEMMA DivParts ==
    ASSUME NEW x \in Nat, NEW d \in Nat \ {0}
    PROVE  /\ x \div d \in Nat
           /\ d * (x \div d) <= x
           /\ x < d * (x \div d) + d
OBVIOUS

\* The nearest number of cents.
Nearest(s, grains, cents) ==
    2 * (Grain[s] * cents - grains) \in -Grain[s]..Grain[s]

LEMMA GrainTyped ==
    ASSUME NEW s \in Sales
    PROVE  Grain[s] \in Nat \ {0} /\ Grain[s] \in Nat /\ Grain[s] \in Int /\ Grain[s] > 0
BY LedgerAssumption

\* An amount is stored as the nearest number of cents, half a cent as one more.
LEMMA StoredNat ==
    ASSUME NEW s \in Sales, NEW x \in Nat
    PROVE  /\ Stored(s, x) \in Nat
           /\ -Grain[s] < 2 * (Grain[s] * Stored(s, x) - x)
           /\ 2 * (Grain[s] * Stored(s, x) - x) <= Grain[s]
<1> DEFINE g == Grain[s]
           q == (2 * x + g) \div (2 * g)
<1>1. g \in Nat /\ g > 0
  BY GrainTyped
<1>2. Stored(s, x) = q
  BY DEF Stored
<1> HIDE DEF g
<1>3. 2 * x + g \in Nat /\ 2 * g \in Nat \ {0}
  BY <1>1
<1>4. /\ q \in Nat /\ (2 * g) * q <= 2 * x + g
      /\ 2 * x + g < (2 * g) * q + 2 * g
  BY <1>3, DivParts
<1> HIDE DEF q
<1>5. (2 * g) * q = 2 * (g * q) /\ g * q \in Nat
  BY <1>1, <1>4, TimesNat
<1> DEFINE p == g * q
<1>6. -g < 2 * (p - x) /\ 2 * (p - x) <= g
  <2>1. p \in Nat /\ 2 * p <= 2 * x + g /\ 2 * x + g < 2 * p + 2 * g
    BY <1>4, <1>5
  <2> HIDE DEF p
  <2> QED BY <1>1, <2>1
<1> QED BY <1>2, <1>4, <1>6 DEF g

LEMMA StoredIs ==
    ASSUME NEW s \in Sales, NEW x \in Nat, NEW n \in Int,
           -Grain[s] < 2 * (Grain[s] * n - x), 2 * (Grain[s] * n - x) <= Grain[s]
    PROVE  Stored(s, x) = n
<1> DEFINE g == Grain[s]
           q == Stored(s, x)
           p == g * q
           r == g * n
<1>1. g \in Nat \ {0} /\ q \in Int /\ n \in Int
  BY GrainTyped, StoredNat
<1>2. /\ -g < 2 * (p - x) /\ 2 * (p - x) <= g
      /\ -g < 2 * (r - x) /\ 2 * (r - x) <= g
  BY StoredNat
<1> HIDE DEF g, q
<1>3. p \in Int /\ r \in Int
  BY <1>1, TimesInt
<1>4. (q < n => p + g <= r) /\ (n < q => r + g <= p)
  BY <1>1, TimesGrows
<1> HIDE DEF p, r
<1>5. ~(q < n) /\ ~(n < q)
  BY <1>1, <1>2, <1>3, <1>4
<1> QED BY <1>1, <1>5 DEF q

LEMMA StoredMirrored ==
    ASSUME NEW s \in Sales, NEW x \in Int, x < 0
    PROVE  /\ -x \in Nat /\ Stored(s, x) = -Stored(s, -x)
<1> DEFINE g == Grain[s]
<1>1. g \in Nat /\ g > 0
  BY GrainTyped
<1> HIDE DEF g
<1>2. g - 2 * x = 2 * (-x) + g /\ -x \in Nat /\ -x >= 0 /\ ~(x >= 0)
  BY <1>1
<1>3. Stored(s, x) = -((g - 2 * x) \div (2 * g))
  BY <1>2 DEF Stored, g
<1>4. Stored(s, -x) = (2 * (-x) + g) \div (2 * g)
  BY <1>2 DEF Stored, g
<1> QED BY <1>2, <1>3, <1>4

LEMMA StoredNearest ==
    ASSUME NEW s \in Sales, NEW x \in Int
    PROVE  Stored(s, x) \in Int /\ Nearest(s, x, Stored(s, x))
<1> DEFINE g == Grain[s]
<1>1. g \in Nat /\ g \in Int
  BY GrainTyped
<1>2. CASE x >= 0
  <2> DEFINE p == g * Stored(s, x)
  <2>1. x \in Nat
    BY <1>2
  <2>2. Stored(s, x) \in Nat /\ -g < 2 * (p - x) /\ 2 * (p - x) <= g
    BY <2>1, StoredNat
  <2>3. p \in Nat
    BY <1>1, <2>2, TimesNat
  <2> HIDE DEF g, p
  <2>4. 2 * (p - x) \in -g..g
    BY <1>1, <2>2, <2>3
  <2> QED BY <2>2, <2>4 DEF Nearest, p, g
<1>3. CASE x < 0
  <2> DEFINE q == Stored(s, -x)
             p == g * q
  <2>1. -x \in Nat /\ Stored(s, x) = -q
    BY <1>3, StoredMirrored
  <2>2. q \in Nat /\ -g < 2 * (p - (-x)) /\ 2 * (p - (-x)) <= g
    BY <2>1, StoredNat
  <2>3. p \in Nat
    BY <1>1, <2>2, TimesNat
  <2>4. g * (-q) = -p
    <3> HIDE DEF g, q
    <3>1. g * (0 - q) = g * 0 - g * q /\ g * 0 = 0
      BY <1>1, <2>2, TimesInt
    <3>2. 0 - q = -q
      BY <2>2
    <3> QED BY <2>3, <3>1, <3>2
  <2> HIDE DEF g, p
  <2>5. 2 * ((-p) - x) \in -g..g
    BY <1>1, <2>2, <2>3
  <2>6. -q \in Int
    BY <2>2
  <2>7. 2 * (g * Stored(s, x) - x) \in -g..g
    BY <2>1, <2>4, <2>5
  <2> QED BY <2>1, <2>6, <2>7 DEF Nearest, g
<1> QED BY <1>2, <1>3

\* Whole cents are stored as they are.
LEMMA StoredWhole ==
    ASSUME NEW s \in Sales, NEW n \in Int
    PROVE  Stored(s, Grain[s] * n) = n
<1> DEFINE g == Grain[s]
           x == g * n
<1>1. g \in Nat \ {0} /\ g > 0 /\ x \in Int
  BY GrainTyped, TimesInt
<1>2. ASSUME NEW m \in Nat PROVE Stored(s, g * m) = m
  <2>1. g * m \in Nat
    BY <1>1, TimesNat
  <2> DEFINE y == g * m
  <2>2. -g < 2 * (y - y) /\ 2 * (y - y) <= g
    <3> HIDE DEF y, g
    <3>1. y \in Nat
      BY <2>1 DEF y
    <3> QED BY <1>1, <3>1
  <2> QED BY <2>1, <2>2, StoredIs
<1>3. CASE n >= 0
  BY <1>2, <1>3
<1>4. CASE n < 0
  <2>1. -n \in Nat /\ n <= -1
    BY <1>4
  <2>2. g * (-n) = -x
    <3> HIDE DEF g
    <3>1. g * (0 - n) = g * 0 - g * n /\ g * 0 = 0
      BY <1>1, TimesInt
    <3>2. 0 - n = -n
      OBVIOUS
    <3> QED BY <1>1, <3>1, <3>2
  <2>3. x < 0
    <3> HIDE DEF g
    <3>1. n < 0 => g * n + g <= g * 0
      BY <1>1, TimesGrows
    <3>2. g * 0 = 0
      BY <1>1
    <3> HIDE DEF x
    <3> QED BY <1>1, <1>4, <3>1, <3>2 DEF x
  <2>4. Stored(s, x) = -Stored(s, -x)
    BY <1>1, <2>3, StoredMirrored
  <2>5. Stored(s, -x) = -n
    BY <1>2, <2>1, <2>2
  <2> QED BY <2>4, <2>5
<1> QED BY <1>3, <1>4

LEMMA WholeIs ==
    ASSUME NEW s \in Sales, NEW x \in Int, WholeCents(s, x)
    PROVE  \E n \in Int : x = Grain[s] * n
BY StoredNearest DEF WholeCents
-----------------------------------------------------------------------------
(* Goods and what they are worth.                                          *)

LEMMA WorthTyped ==
    ASSUME NEW s \in Sales, NEW goods \in Goods
    PROVE  Worth(s, goods) \in Nat
<1> DEFINE f == [l \in Lines |-> Price[s][l] * goods[l]]
<1>1. \A l \in Lines : f[l] \in Nat
  <2> TAKE l \in Lines
  <2>1. Price[s][l] \in Nat /\ goods[l] \in Nat
    BY LedgerAssumption DEF Goods
  <2>2. \A x, y \in Nat : x * y \in Nat
    OBVIOUS
  <2> QED BY <2>1, <2>2
<1>2. Worth(s, goods) = SumFunctionOnSet(f, Lines)
  BY DEF Worth, SumFunction
<1> HIDE DEF f
<1> QED BY <1>1, <1>2, SumNat, LedgerAssumption

LEMMA TogetherTyped ==
    ASSUME NEW x \in Goods, NEW y \in Goods
    PROVE  /\ Together(x, y) \in Goods
           /\ \A l \in Lines : /\ Together(x, y)[l] = x[l] + y[l]
                               /\ x[l] \in Nat /\ y[l] \in Nat
BY DEF Together, Goods

LEMMA WorthTogether ==
    ASSUME NEW s \in Sales, NEW x \in Goods, NEW y \in Goods
    PROVE  Worth(s, Together(x, y)) = Worth(s, x) + Worth(s, y)
<1> DEFINE f == [l \in Lines |-> Price[s][l] * x[l]]
           g == [l \in Lines |-> Price[s][l] * y[l]]
           h == [l \in Lines |-> Price[s][l] * Together(x, y)[l]]
<1>1. /\ Worth(s, x) = SumFunctionOnSet(f, Lines)
      /\ Worth(s, y) = SumFunctionOnSet(g, Lines)
      /\ Worth(s, Together(x, y)) = SumFunctionOnSet(h, Lines)
  BY DEF Worth, SumFunction
<1>2. \A l \in Lines : f[l] \in Int /\ g[l] \in Int /\ h[l] = f[l] + g[l]
  <2> TAKE l \in Lines
  <2>1. Price[s][l] \in Nat /\ x[l] \in Nat /\ y[l] \in Nat
    BY LedgerAssumption, TogetherTyped DEF Goods
  <2>2. \A p, m, n \in Nat : p * m \in Int /\ p * (m + n) = p * m + p * n
    OBVIOUS
  <2>3. Together(x, y)[l] = x[l] + y[l]
    BY TogetherTyped
  <2> QED BY <2>1, <2>2, <2>3
<1> HIDE DEF f, g, h
<1> QED BY <1>1, <1>2, SumAdds, LedgerAssumption

LEMMA CountTyped ==
    ASSUME NEW x \in Goods
    PROVE  /\ SumFunction(x) = SumFunctionOnSet(x, Lines)
           /\ SumFunction(x) \in Nat
<1>1. DOMAIN x = Lines /\ \A l \in Lines : x[l] \in Nat
  BY DEF Goods
<1>2. SumFunction(x) = SumFunctionOnSet(x, Lines)
  BY <1>1 DEF SumFunction
<1> QED BY <1>1, <1>2, SumNat, LedgerAssumption

LEMMA CountGrows ==
    ASSUME NEW x \in Goods, NEW y \in Goods, \A l \in Lines : x[l] <= y[l]
    PROVE  SumFunction(x) <= SumFunction(y)
<1>1. \A l \in Lines : x[l] \in Int /\ y[l] \in Int
  BY DEF Goods
<1> QED BY <1>1, CountTyped, SumGrows, LedgerAssumption

-----------------------------------------------------------------------------
(* The rows of a sale.                                                     *)

LEMMA PlanDomain ==
    ASSUME NEW s \in Sales
    PROVE  /\ Len(Plan[s]) \in Nat /\ DOMAIN Plan[s] = 1..Len(Plan[s])
           /\ IsFiniteSet(DOMAIN Plan[s])
           /\ \A i \in DOMAIN Plan[s] : Plan[s][i] \in Nat
<1>1. Plan[s] \in Seq(Nat)
  BY LedgerAssumption
<1>2. Len(Plan[s]) \in Nat /\ DOMAIN Plan[s] = 1..Len(Plan[s])
  BY <1>1
<1>3. IsFiniteSet(1..Len(Plan[s]))
  BY <1>2, FS_Interval
<1>4. \A i \in DOMAIN Plan[s] : Plan[s][i] \in Nat
  BY <1>1
<1> QED BY <1>2, <1>3, <1>4

InstallmentRow == [due : Nat, paid : Nat, status : InstallmentStatus]
SaleStatus == {"COMPLETED", "PARTIALLY_REFUNDED", "REFUNDED"}
AgreementStatus == {"NONE", "ACTIVE", "OVERDUE", "PAID"}

LEMMA RowParts ==
    ASSUME NEW s \in Sales, NEW row \in Row(s)
    PROVE  /\ row.status \in SaleStatus
           /\ row.paidTotal \in Int /\ row.balanceDue \in Int
           /\ row.returned \in Goods
           /\ row.agreement \in AgreementStatus
           /\ row.outstanding \in Nat
           /\ row.installments \in [DOMAIN Plan[s] -> InstallmentRow]
           /\ DOMAIN row.installments = DOMAIN Plan[s]
           /\ \A i \in DOMAIN Plan[s] :
                 /\ row.installments[i] \in InstallmentRow
                 /\ row.installments[i].due \in Nat /\ row.installments[i].paid \in Nat
                 /\ row.installments[i].status \in InstallmentStatus
<1>1. /\ row.status \in SaleStatus
      /\ row.paidTotal \in Int /\ row.balanceDue \in Int
      /\ row.returned \in Goods
      /\ row.agreement \in AgreementStatus
      /\ row.outstanding \in Nat
      /\ row.installments \in Installments(s)
  BY DEF Row, SaleStatus, AgreementStatus
<1>2. row.installments \in [DOMAIN Plan[s] -> InstallmentRow]
  BY <1>1 DEF Installments, InstallmentRow
<1>3. \A i \in DOMAIN Plan[s] : row.installments[i] \in InstallmentRow
  BY <1>2
<1>4. \A i \in DOMAIN Plan[s] :
         /\ row.installments[i].due \in Nat /\ row.installments[i].paid \in Nat
         /\ row.installments[i].status \in InstallmentStatus
  BY <1>3 DEF InstallmentRow
<1> QED BY <1>1, <1>2, <1>3, <1>4

\* What is owed in an installment.
LEMMA OwedParts ==
    ASSUME NEW s \in Sales, NEW row \in Row(s), NEW i \in DOMAIN Plan[s]
    PROVE  /\ Owed(row, i) \in Nat
           /\ Owed(row, i) <= row.installments[i].due
           /\ row.installments[i].paid <= row.installments[i].due =>
                 Owed(row, i) = row.installments[i].due - row.installments[i].paid
<1>1. row.installments[i].due \in Nat /\ row.installments[i].paid \in Nat
  BY RowParts
<1> QED BY <1>1 DEF Owed, Larger

OwedBy(row) == [i \in DOMAIN row.installments |-> Owed(row, i)]

\* What each installment gets of a repayment, and all of them.
LEMMA AllocatedParts ==
    ASSUME NEW s \in Sales, NEW row \in Row(s), NEW a \in Nat
    PROVE  LET g == [i \in DOMAIN Plan[s] |-> Allocated(row, a, i)]
               all == OwedIn(row, DOMAIN Plan[s])
           IN  /\ \A i \in DOMAIN Plan[s] :
                     Allocated(row, a, i) \in Nat /\ Allocated(row, a, i) <= Owed(row, i)
               /\ SumFunction(g) = IF a < all THEN a ELSE all
<1> DEFINE n == Len(Plan[s])
           S == DOMAIN Plan[s]
           w == OwedBy(row)
           g == [i \in S |-> Allocated(row, a, i)]
           Chain == {p \in SUBSET S : \E k \in 0..n : p = 1..k}
<1>1. n \in Nat /\ S = 1..n /\ IsFiniteSet(S)
  BY PlanDomain
<1>2. DOMAIN row.installments = S
  BY RowParts
<1>3. \A i \in S : w[i] = Owed(row, i) /\ w[i] \in Nat
  BY <1>2, OwedParts DEF OwedBy
<1>4. \A p : OwedIn(row, p) = SumFunctionOnSet(w, p)
  BY DEF OwedIn, OwedBy
<1>5. Chain \in SUBSET SUBSET S
  OBVIOUS
<1>6. ASSUME NEW p \in Chain, p # {}
      PROVE  \E x \in p :
                /\ p \ {x} \in Chain
                /\ g[x] = LET left == a - SumFunctionOnSet(w, p \ {x})
                          IN  IF left <= 0 THEN 0 ELSE IF left < w[x] THEN left ELSE w[x]
  <2>1. PICK k \in 0..n : p = 1..k
    OBVIOUS
  <2>2. k \in 1..n /\ k \in p /\ k \in S
    BY <1>1, <1>6, <2>1
  <2>3. p \ {k} = 1..(k - 1) /\ k - 1 \in 0..n
    BY <1>1, <2>1, <2>2
  <2>4. p \ {k} \in Chain
    BY <1>1, <2>3
  <2>5. SumFunctionOnSet(w, p \ {k}) \in Nat
    <3>1. IsFiniteSet(p \ {k}) /\ p \ {k} \subseteq S
      BY <1>1, <2>4, FS_Subset
    <3> HIDE DEF w
    <3> QED BY <1>3, <3>1, SumNat
  <2>6. g[k] = Smaller(Larger(0, a - SumFunctionOnSet(w, p \ {k})), w[k])
    BY <1>3, <1>4, <2>2, <2>3 DEF Allocated
  <2> DEFINE before == SumFunctionOnSet(w, p \ {k})
  <2>7. g[k] = LET left == a - before
               IN  IF left <= 0 THEN 0 ELSE IF left < w[k] THEN left ELSE w[k]
    <3>1. w[k] \in Nat
      BY <1>3, <2>2
    <3> HIDE DEF before, w, g
    <3>2. before \in Nat /\ g[k] = Smaller(Larger(0, a - before), w[k])
      BY <2>5, <2>6 DEF before
    <3> QED BY <3>1, <3>2 DEF Smaller, Larger
  <2> QED BY <2>2, <2>4, <2>7
<1>7. S \in Chain
  BY <1>1
<1>8. /\ \A p \in Chain : SumFunctionOnSet(g, p) =
            IF a < SumFunctionOnSet(w, p) THEN a ELSE SumFunctionOnSet(w, p)
      /\ \A p \in Chain : \A x \in p : g[x] \in Nat
  <2> HIDE DEF w, g, Chain
  <2> QED BY <1>1, <1>3, <1>5, <1>6, SumServed
<1>9. SumFunction(g) = SumFunctionOnSet(g, S)
  BY DEF SumFunction
<1>10. \A i \in S : g[i] \in Nat
  BY <1>7, <1>8
<1>11. ASSUME NEW i \in S PROVE Allocated(row, a, i) <= Owed(row, i)
  <2>1. Larger(0, a - OwedIn(row, 1..(i - 1))) \in Int
    <3>1. 1..(i - 1) \subseteq S
      BY <1>1
    <3>2. IsFiniteSet(1..(i - 1))
      BY <1>1, <3>1, FS_Subset
    <3>3. OwedIn(row, 1..(i - 1)) \in Nat
      <4> HIDE DEF w
      <4> QED BY <1>3, <1>4, <3>1, <3>2, SumNat
    <3> QED BY <3>3 DEF Larger
  <2> QED BY <1>3, <2>1 DEF Allocated, Smaller
<1>12. SumFunction(g) = IF a < OwedIn(row, S) THEN a ELSE OwedIn(row, S)
  BY <1>4, <1>7, <1>8, <1>9
<1>13. \A i \in S : Allocated(row, a, i) \in Nat
  BY <1>10
<1> QED BY <1>11, <1>12, <1>13

\* The part of the amount that is left when the installments S are served.
LeftAfter(row, S, amount) == Larger(0, amount - OwedIn(row, S))

\* What a refund of so many cents takes off installment i: the last ones are
\* shortened first.
Reduction(row, amount, i, n) ==
    LET rest == LeftAfter(row, (i + 1)..n, amount) IN
    IF rest > 0 THEN Smaller(rest, Owed(row, i)) ELSE 0

LEMMA ReductionParts ==
    ASSUME NEW s \in Sales, NEW row \in Row(s), NEW a \in Nat
    PROVE  LET n == Len(Plan[s])
               g == [i \in DOMAIN Plan[s] |-> Reduction(row, a, i, n)]
               all == OwedIn(row, DOMAIN Plan[s])
           IN  /\ \A i \in DOMAIN Plan[s] :
                     Reduction(row, a, i, n) \in Nat /\ Reduction(row, a, i, n) <= Owed(row, i)
               /\ SumFunction(g) = IF a < all THEN a ELSE all
<1> DEFINE n == Len(Plan[s])
           S == DOMAIN Plan[s]
           w == OwedBy(row)
           g == [i \in S |-> Reduction(row, a, i, n)]
           Chain == {p \in SUBSET S : \E k \in 1..(n + 1) : p = k..n}
<1>1. n \in Nat /\ S = 1..n /\ IsFiniteSet(S)
  BY PlanDomain
<1>2. DOMAIN row.installments = S
  BY RowParts
<1>3. \A i \in S : w[i] = Owed(row, i) /\ w[i] \in Nat
  BY <1>2, OwedParts DEF OwedBy
<1>4. \A p : OwedIn(row, p) = SumFunctionOnSet(w, p)
  BY DEF OwedIn, OwedBy
<1>5. Chain \in SUBSET SUBSET S
  OBVIOUS
<1>6. ASSUME NEW p \in Chain, p # {}
      PROVE  \E x \in p :
                /\ p \ {x} \in Chain
                /\ g[x] = LET left == a - SumFunctionOnSet(w, p \ {x})
                          IN  IF left <= 0 THEN 0 ELSE IF left < w[x] THEN left ELSE w[x]
  <2>1. PICK k \in 1..(n + 1) : p = k..n
    OBVIOUS
  <2>2. k \in 1..n /\ k \in p /\ k \in S
    BY <1>1, <1>6, <2>1
  <2>3. p \ {k} = (k + 1)..n /\ k + 1 \in 1..(n + 1)
    BY <1>1, <2>1, <2>2
  <2>4. p \ {k} \in Chain
    BY <1>1, <2>3
  <2>5. SumFunctionOnSet(w, p \ {k}) \in Nat
    <3>1. IsFiniteSet(p \ {k}) /\ p \ {k} \subseteq S
      BY <1>1, <2>4, FS_Subset
    <3> HIDE DEF w
    <3> QED BY <1>3, <3>1, SumNat
  <2>6. g[k] = LET rest == Larger(0, a - SumFunctionOnSet(w, p \ {k}))
               IN  IF rest > 0 THEN Smaller(rest, w[k]) ELSE 0
    BY <1>3, <1>4, <2>2, <2>3 DEF Reduction, LeftAfter
  <2> DEFINE after == SumFunctionOnSet(w, p \ {k})
  <2>7. g[k] = LET left == a - after
               IN  IF left <= 0 THEN 0 ELSE IF left < w[k] THEN left ELSE w[k]
    <3>1. w[k] \in Nat
      BY <1>3, <2>2
    <3> HIDE DEF after, w, g
    <3>2. /\ after \in Nat
          /\ g[k] = LET rest == Larger(0, a - after)
                    IN  IF rest > 0 THEN Smaller(rest, w[k]) ELSE 0
      BY <2>5, <2>6 DEF after
    <3> QED BY <3>1, <3>2 DEF Smaller, Larger
  <2> QED BY <2>2, <2>4, <2>7
<1>7. S \in Chain
  BY <1>1
<1>8. /\ \A p \in Chain : SumFunctionOnSet(g, p) =
            IF a < SumFunctionOnSet(w, p) THEN a ELSE SumFunctionOnSet(w, p)
      /\ \A p \in Chain : \A x \in p : g[x] \in Nat
  <2> HIDE DEF w, g, Chain
  <2> QED BY <1>1, <1>3, <1>5, <1>6, SumServed
<1>9. SumFunction(g) = SumFunctionOnSet(g, S)
  BY DEF SumFunction
<1>10. \A i \in S : g[i] \in Nat
  BY <1>7, <1>8
<1>11. ASSUME NEW i \in S PROVE Reduction(row, a, i, n) <= Owed(row, i)
  <2>1. LeftAfter(row, (i + 1)..n, a) \in Int
    <3>1. (i + 1)..n \subseteq S
      BY <1>1
    <3>2. IsFiniteSet((i + 1)..n)
      BY <1>1, <3>1, FS_Subset
    <3>3. OwedIn(row, (i + 1)..n) \in Nat
      <4> HIDE DEF w
      <4> QED BY <1>3, <1>4, <3>1, <3>2, SumNat
    <3> QED BY <3>3 DEF LeftAfter, Larger
  <2>2. Owed(row, i) \in Nat
    BY <1>3
  <2> QED BY <2>1, <2>2 DEF Reduction, Smaller
<1>12. SumFunction(g) = IF a < OwedIn(row, S) THEN a ELSE OwedIn(row, S)
  BY <1>4, <1>7, <1>8, <1>9
<1>13. \A i \in S : Reduction(row, a, i, n) \in Nat
  BY <1>10
<1> QED BY <1>11, <1>12, <1>13

-----------------------------------------------------------------------------
(* A refund in grains.                                                     *)

\* The cents that are taken off a number of cents by taking off so many grains:
\* the nearest, half a cent being none.
Taken(s, grains, cents) ==
    /\ -Grain[s] < 2 * (grains - Grain[s] * cents)
    /\ 2 * (grains - Grain[s] * cents) <= Grain[s]

LEMMA TakenOff ==
    ASSUME NEW s \in Sales, NEW n \in Int, NEW a \in Nat, a <= Grain[s] * n
    PROVE  /\ Stored(s, Grain[s] * n - a) \in Nat
           /\ n - Stored(s, Grain[s] * n - a) \in Int
           /\ Taken(s, a, n - Stored(s, Grain[s] * n - a))
<1> DEFINE g == Grain[s]
           x == g * n
           q == Stored(s, x - a)
           p == g * q
<1>1. g \in Nat /\ g \in Int /\ x \in Int /\ x - a \in Nat
  BY GrainTyped, TimesInt
<1>2. q \in Nat /\ -g < 2 * (p - (x - a)) /\ 2 * (p - (x - a)) <= g
  BY <1>1, StoredNat
<1> HIDE DEF q
<1>3. g * (n - q) = x - p /\ p \in Int
  BY <1>1, <1>2, TimesInt
<1> HIDE DEF g, x, p
<1>4. -g < 2 * (a - (x - p)) /\ 2 * (a - (x - p)) <= g
  BY <1>1, <1>2, <1>3
<1>5. Taken(s, a, n - q)
  BY <1>3, <1>4 DEF Taken, g
<1> QED BY <1>2, <1>5 DEF q, x, g

\* Taking off more grains takes off no fewer cents.
LEMMA TakenGrows ==
    ASSUME NEW s \in Sales, NEW a \in Int, NEW b \in Int, NEW m \in Int, NEW n \in Int,
           Taken(s, a, m), Taken(s, b, n), a <= b
    PROVE  m <= n
<1> DEFINE g == Grain[s]
           p == g * m
           q == g * n
<1>1. g \in Nat \ {0} /\ p \in Int /\ q \in Int
  BY GrainTyped, TimesInt
<1>2. n < m => q + g <= p
  BY <1>1, TimesGrows
<1>3. 2 * (a - p) > -g /\ 2 * (b - q) <= g
  BY DEF Taken
<1> HIDE DEF g, p, q
<1>4. ~(n < m)
  BY <1>1, <1>2, <1>3
<1> QED BY <1>4

LEMMA TakenWhole ==
    ASSUME NEW s \in Sales, NEW n \in Int
    PROVE  Taken(s, Grain[s] * n, n)
<1> DEFINE g == Grain[s]
           p == g * n
<1>1. g \in Nat \ {0} /\ p \in Int
  BY GrainTyped, TimesInt
<1>2. -g < 2 * (p - p) /\ 2 * (p - p) <= g
  <2> HIDE DEF g, p
  <2> QED BY <1>1
<1> QED BY <1>2 DEF Taken

\* Whole cents that are taken off first change nothing of the fraction.
LEMMA TakenLess ==
    ASSUME NEW s \in Sales, NEW a \in Int, NEW m \in Int, NEW n \in Int, Taken(s, a, m)
    PROVE  Taken(s, a - Grain[s] * n, m - n)
<1> DEFINE g == Grain[s]
           p == g * m
           q == g * n
<1>1. g \in Nat \ {0} /\ p \in Int /\ q \in Int /\ g * (m - n) = p - q
  BY GrainTyped, TimesInt
<1>2. -g < 2 * (a - p) /\ 2 * (a - p) <= g
  BY DEF Taken
<1> HIDE DEF g, p, q
<1>3. -g < 2 * ((a - q) - (p - q)) /\ 2 * ((a - q) - (p - q)) <= g
  BY <1>1, <1>2
<1> QED BY <1>1, <1>3 DEF Taken, g, q

LEMMA ReducedParts ==
    ASSUME NEW s \in Sales, NEW x \in InstallmentRow, NEW reduction \in Nat,
           reduction <= Grain[s] * x.due
    PROVE  LET due == Grain[s] * x.due - reduction
               y == Reduced(s, x, reduction)
           IN  /\ due \in Nat
               /\ y \in InstallmentRow
               /\ y.due = Stored(s, due)
               /\ y.paid = x.paid
               /\ y.status = IF 10 * due <= Grain[s] * (10 * x.paid + 1) THEN "PAID"
                                                                         ELSE x.status
<1> DEFINE due == Grain[s] * x.due - reduction
           stored == Stored(s, due)
           status == IF 10 * due <= Grain[s] * (10 * x.paid + 1) THEN "PAID" ELSE x.status
           y == [x EXCEPT !.due = stored, !.status = status]
<1>1. x.due \in Nat /\ x.status \in InstallmentStatus /\ x.paid \in Nat
  BY DEF InstallmentRow
<1>2. due \in Nat
  BY <1>1, GrainTyped, TimesNat
<1> HIDE DEF due
<1>3. stored \in Nat /\ status \in InstallmentStatus
  BY <1>1, <1>2, StoredNat DEF InstallmentStatus
<1>4. Reduced(s, x, reduction) = y
  BY DEF Reduced, due
<1>5. y.due = stored /\ y.paid = x.paid /\ y.status = status
  BY DEF InstallmentRow
<1>6. y \in InstallmentRow
  <2> HIDE DEF stored, status
  <2> QED BY <1>3 DEF InstallmentRow
<1> HIDE DEF y
<1> QED BY <1>2, <1>4, <1>5, <1>6 DEF due

\* The installments between the refund and those after it, which owe so many cents:
\* when the refund takes t cents off the agreement, it takes off this one what is left
\* of t.  If that is all it owes, the installment is PAID; if not, and nothing is owed
\* for all that, the refund was not whole cents.
LEMMA CutParts ==
    ASSUME NEW s \in Sales, NEW x \in InstallmentRow, x.paid <= x.due,
           x.status = "PAID" => x.paid >= x.due,
           NEW a \in Nat, NEW t \in Int, Taken(s, a, t), NEW after \in Nat,
           Larger(0, a - Grain[s] * after) > 0
    PROVE  LET rest == Larger(0, a - Grain[s] * after)
               left == Larger(0, t - after)
               y == Reduced(s, x, Smaller(rest, Grain[s] * (x.due - x.paid)))
           IN  /\ y \in InstallmentRow /\ y.paid = x.paid
               /\ y.due = x.due - IF left > 0 THEN Smaller(left, x.due - x.paid) ELSE 0
               /\ y.paid <= y.due
               /\ y.status = "PAID" => y.paid >= y.due
               /\ rest >= Grain[s] * (x.due - x.paid) => y.status = "PAID"
               /\ y.status # "PAID" /\ y.paid >= y.due => ~ \E n \in Int : a = Grain[s] * n
<1> DEFINE g == Grain[s]
           w == x.due - x.paid
           off == g * after
           gd == g * x.due
           gp == g * x.paid
           gw == g * w
           u == t - after
           r == a - off
           red == Smaller(r, gw)
           due == gd - red
           y == Reduced(s, x, red)
           ct == IF Larger(0, u) > 0 THEN Smaller(Larger(0, u), w) ELSE 0
           gu == g * u
<1>1. /\ x.due \in Nat /\ x.paid \in Nat /\ x.status \in InstallmentStatus
      /\ w \in Nat /\ u \in Int /\ x.due = x.paid + w
  BY DEF InstallmentRow
<1>2. /\ g \in Nat \ {0} /\ off \in Nat /\ gd \in Nat /\ gp \in Nat /\ gw \in Nat
      /\ gd = gp + gw /\ gu \in Int
  BY <1>1, GrainTyped, TimesNat, TimesInt
<1>3. /\ r \in Nat /\ r > 0 /\ Larger(0, a - Grain[s] * after) = r
  <2> HIDE DEF g
  <2> DEFINE z == off
  <2>1. z \in Nat /\ Larger(0, a - z) > 0
    BY <1>2 DEF g
  <2> HIDE DEF z
  <2>2. a - z > 0 /\ Larger(0, a - z) = a - z /\ a - z \in Nat
    BY <2>1 DEF Larger
  <2> QED BY <2>2 DEF z, g
<1>4. red \in Nat /\ red <= r /\ red <= gw /\ red <= gd
  <2> HIDE DEF r, gd, gw, gp
  <2> QED BY <1>2, <1>3 DEF Smaller
<1>5. /\ due \in Nat /\ y \in InstallmentRow /\ y.due = Stored(s, due) /\ y.paid = x.paid
      /\ y.status = IF 10 * due <= g * (10 * x.paid + 1) THEN "PAID" ELSE x.status
  BY <1>4, ReducedParts
<1>6. Taken(s, r, u)
  BY TakenLess
<1>7. /\ g * (10 * x.paid + 1) = 10 * gp + g
  <2>1. g * (10 * x.paid + 1) = g * (10 * x.paid) + g * 1 /\ g * 1 = g
    BY <1>1, <1>2, TimesInt
  <2>2. g * (10 * x.paid) = 10 * gp
    <3> DEFINE n == x.paid
    <3>1. n \in Nat
      BY <1>1
    <3> HIDE DEF g, n
    <3>2. \A i, j \in Int : i * (10 * j) = 10 * (i * j)
      OBVIOUS
    <3>3. g \in Int /\ n \in Int
      BY <1>2, <3>1
    <3> QED BY <3>2, <3>3 DEF n
  <2> QED BY <2>1, <2>2
<1>8. r >= gw => red = gw /\ due = gp
  <2> HIDE DEF r, gd, gw, gp
  <2> QED BY <1>2, <1>3 DEF Smaller
<1>9. r < gw => red = r
  <2> HIDE DEF r, gd, gw, gp
  <2> QED BY <1>2, <1>3 DEF Smaller
<1>10. Stored(s, gp) = x.paid /\ Stored(s, gd) = x.due
  BY <1>1, StoredWhole
<1>11. Taken(s, gw, w) /\ Taken(s, 0, 0)
  <2>1. Taken(s, g * 0, 0) /\ g * 0 = 0
    BY <1>2, TakenWhole
  <2> QED BY <1>1, <2>1, TakenWhole
<1>12. u >= 0 /\ (r >= gw => u >= w) /\ (r < gw => u <= w)
  <2>1. 0 <= u
    BY <1>1, <1>3, <1>6, <1>11, TakenGrows
  <2>2. gw <= r => w <= u
    BY <1>1, <1>2, <1>3, <1>6, <1>11, TakenGrows
  <2>3. r <= gw => u <= w
    BY <1>1, <1>2, <1>3, <1>6, <1>11, TakenGrows
  <2> HIDE DEF r, gw, u, w
  <2> QED BY <1>1, <1>2, <1>3, <2>1, <2>2, <2>3
<1>13. ct = IF r >= gw THEN w ELSE u
  <2> HIDE DEF r, gw, u, w
  <2>1. r >= gw \/ r < gw
    BY <1>2, <1>3
  <2> QED BY <1>1, <1>12, <2>1 DEF Larger, Smaller
<1>14. y.due = x.due - ct
  <2>1. CASE r >= gw
    BY <1>1, <1>5, <1>8, <1>10, <1>13, <2>1
  <2>2. CASE r < gw
    <3>1. due = gd - r /\ r <= gd
      <4>1. red = r
        BY <1>9, <2>2
      <4>2. due = gd - red
        OBVIOUS
      <4> HIDE DEF due, gd, red, r
      <4> QED BY <1>4, <4>1, <4>2
    <3>2. x.due - Stored(s, gd - r) \in Int /\ Taken(s, r, x.due - Stored(s, gd - r))
          /\ Stored(s, gd - r) \in Nat
      <4>1. r \in Nat /\ r <= Grain[s] * x.due /\ x.due \in Int
        BY <1>1, <1>3, <3>1
      <4> HIDE DEF r
      <4> QED BY <4>1, TakenOff
    <3>3. x.due - Stored(s, gd - r) = u
      <4> DEFINE v == x.due - Stored(s, gd - r)
      <4>1. v \in Int /\ Taken(s, r, v) /\ r \in Int /\ r <= r
        BY <1>3, <3>2
      <4> HIDE DEF v, r, u
      <4>2. v <= u /\ u <= v
        BY <1>1, <1>6, <4>1, TakenGrows
      <4>3. v = u
        BY <1>1, <4>1, <4>2
      <4> QED BY <4>3 DEF v
    <3>4. y.due = Stored(s, gd - r)
      BY <1>5, <3>1
    <3>5. ct = u
      BY <1>2, <1>3, <1>13, <2>2
    <3> HIDE DEF ct, u, y, r, gd
    <3> QED BY <1>1, <3>2, <3>3, <3>4, <3>5
  <2> QED BY <1>2, <1>3, <2>1, <2>2
<1>15. y.paid <= y.due
  <2>1. ct \in Int /\ ct <= w
    <3> HIDE DEF r, gw, u, w, ct
    <3>1. r >= gw \/ r < gw
      BY <1>2, <1>3
    <3> QED BY <1>1, <1>12, <1>13, <3>1
  <2> HIDE DEF ct, y
  <2> QED BY <1>1, <1>5, <1>14, <2>1
<1>16. r >= gw => y.status = "PAID"
  <2> SUFFICES ASSUME r >= gw PROVE y.status = "PAID"
    OBVIOUS
  <2>1. due = gp
    BY <1>8
  <2>2. 10 * gp <= 10 * gp + g
    <3> HIDE DEF gp, g
    <3> QED BY <1>2
  <2> QED BY <1>5, <1>7, <2>1, <2>2
<1>17. y.status = "PAID" => y.paid >= y.due
  <2>1. CASE x.status = "PAID"
    <3>1. w = 0
      BY <1>1, <2>1
    <3>2. ct = 0
      <4> HIDE DEF r, gw, u, w, ct
      <4>1. r >= gw \/ r < gw
        BY <1>2, <1>3
      <4> QED BY <1>1, <1>12, <1>13, <3>1, <4>1
    <3> HIDE DEF ct, y
    <3> QED BY <1>1, <1>5, <1>14, <2>1, <3>1, <3>2
  <2>2. CASE x.status # "PAID"
    <3> SUFFICES ASSUME y.status = "PAID" PROVE y.paid >= y.due
      OBVIOUS
    <3>1. 10 * due <= 10 * gp + g
      BY <1>5, <1>7, <2>2
    <3>2. gp <= due
      <4> HIDE DEF gd, gw, gp, red, due
      <4>1. due = gd - red
        BY DEF due
      <4> QED BY <1>2, <1>4, <4>1
    <3>3. -g < 2 * (gp - due) /\ 2 * (gp - due) <= g
      <4> HIDE DEF due, gp, g
      <4> QED BY <1>2, <1>5, <3>1, <3>2
    <3>4. Stored(s, due) = x.paid
      BY <1>1, <1>5, <3>3, StoredIs
    <3> HIDE DEF y
    <3> QED BY <1>1, <1>5, <3>4
  <2> QED BY <2>1, <2>2
<1>18. ASSUME y.status # "PAID", y.paid >= y.due, NEW n \in Int, a = Grain[s] * n
       PROVE  FALSE
  <2>1. 10 * due > 10 * gp + g
    <3>1. ~(10 * due <= 10 * gp + g)
      BY <1>5, <1>7, <1>18
    <3> HIDE DEF due, gp, g
    <3> QED BY <1>2, <1>5, <3>1
  <2>2. r < gw
    <3>1. ~(r >= gw)
      BY <1>16, <1>18
    <3> HIDE DEF r, gw
    <3> QED BY <1>2, <1>3, <3>1
  <2> DEFINE m == x.due - n + after
  <2>3. m \in Int /\ due = g * m
    <3>1. due = gd - (a - off)
      <4>1. red = r /\ r = a - off
        BY <1>9, <2>2
      <4>2. due = gd - red
        OBVIOUS
      <4> HIDE DEF due, gd, red, r, off
      <4> QED BY <4>1, <4>2
    <3>2. /\ m \in Int /\ x.due - n \in Int /\ x.due \in Int /\ after \in Int /\ g \in Nat
          /\ m = (x.due - n) + after /\ a = g * n
      BY <1>1, <1>2, <1>18
    <3>5. g * (x.due - n) = gd - g * n
      BY <3>2, TimesInt
    <3>6. g * ((x.due - n) + after) = g * (x.due - n) + off
      BY <3>2, TimesInt
    <3> HIDE DEF g, gd, off, m, due
    <3>3. \A i, j, k \in Int : i - (j - k) = (i - j) + k
      OBVIOUS
    <3>4. gd \in Int /\ a \in Int /\ off \in Int
      BY <1>2
    <3> QED BY <3>1, <3>2, <3>3, <3>4, <3>5, <3>6
  <2>4. y.due = m
    BY <1>5, <2>3, StoredWhole
  <2>5. m <= x.paid
    <3> HIDE DEF y, m
    <3> QED BY <1>1, <1>5, <1>18, <2>3, <2>4
  <2>6. due <= gp
    <3> HIDE DEF m
    <3> QED BY <1>1, <1>2, <2>3, <2>5, TimesGrows
  <2> HIDE DEF due, gp, g
  <2> QED BY <1>2, <1>5, <2>1, <2>6
<1>19. Smaller(Larger(0, a - Grain[s] * after), Grain[s] * (x.due - x.paid)) = red
  BY <1>3
<1> HIDE DEF y, ct, red
<1> QED BY <1>3, <1>5, <1>14, <1>15, <1>16, <1>17, <1>18, <1>19 DEF y, ct
-----------------------------------------------------------------------------
(* What the handlers write.                                                *)

\* A view marks what is overdue; it changes no amount, pays nothing and reopens
\* nothing.
LEMMA MarkOverdueParts ==
    ASSUME NEW s \in Sales, NEW row \in Row(s)
    PROVE  /\ MarkOverdue(row) \in Row(s)
           /\ MarkOverdue(row).status = row.status
           /\ MarkOverdue(row).paidTotal = row.paidTotal
           /\ MarkOverdue(row).balanceDue = row.balanceDue
           /\ MarkOverdue(row).returned = row.returned
           /\ MarkOverdue(row).outstanding = row.outstanding
           /\ MarkOverdue(row).agreement = "PAID" <=> row.agreement = "PAID"
           /\ row.agreement = "NONE" => MarkOverdue(row).agreement = "NONE"
           /\ \A i \in DOMAIN Plan[s] :
                 /\ MarkOverdue(row).installments[i].due = row.installments[i].due
                 /\ MarkOverdue(row).installments[i].paid = row.installments[i].paid
                 /\ MarkOverdue(row).installments[i].status = "PAID" <=>
                       row.installments[i].status = "PAID"
<1> DEFINE agreement == IF row.agreement = "ACTIVE" /\ day > Len(row.installments)
                        THEN "OVERDUE" ELSE row.agreement
           late(i) == day > i /\ row.installments[i].status \in {"PENDING", "PARTIALLY_PAID"}
           marked(i) == IF late(i) THEN [row.installments[i] EXCEPT !.status = "OVERDUE"]
                                   ELSE row.installments[i]
           installments == [i \in DOMAIN row.installments |-> marked(i)]
<1>1. MarkOverdue(row) = [row EXCEPT !.agreement = agreement, !.installments = installments]
  BY DEF MarkOverdue
<1>2. /\ agreement \in AgreementStatus /\ (agreement = "PAID" <=> row.agreement = "PAID")
      /\ row.agreement = "NONE" => agreement = "NONE"
  BY RowParts DEF AgreementStatus
<1>3. \A x \in InstallmentRow :
         /\ [x EXCEPT !.status = "OVERDUE"] \in InstallmentRow
         /\ [x EXCEPT !.status = "OVERDUE"].due = x.due
         /\ [x EXCEPT !.status = "OVERDUE"].paid = x.paid
         /\ [x EXCEPT !.status = "OVERDUE"].status = "OVERDUE"
  BY DEF InstallmentRow, InstallmentStatus
<1>4. DOMAIN row.installments = DOMAIN Plan[s]
  BY RowParts
<1>5. ASSUME NEW i \in DOMAIN Plan[s]
      PROVE  /\ installments[i] \in InstallmentRow
             /\ installments[i].due = row.installments[i].due
             /\ installments[i].paid = row.installments[i].paid
             /\ installments[i].status = "PAID" <=> row.installments[i].status = "PAID"
  <2> DEFINE x == row.installments[i]
             y == [row.installments[i] EXCEPT !.status = "OVERDUE"]
  <2>1. x \in InstallmentRow
    BY RowParts
  <2>2. /\ y \in InstallmentRow /\ y.due = x.due /\ y.paid = x.paid
        /\ y.status = "OVERDUE"
    BY <1>3, <2>1
  <2>3. \/ installments[i] = x
        \/ installments[i] = y /\ x.status # "PAID"
    BY <1>4
  <2> HIDE DEF x, y, installments
  <2>4. /\ installments[i] \in InstallmentRow
        /\ installments[i].due = x.due
        /\ installments[i].paid = x.paid
        /\ installments[i].status = "PAID" <=> x.status = "PAID"
    BY <2>1, <2>2, <2>3
  <2> QED BY <2>4 DEF x
<1>6. installments \in Installments(s)
  BY <1>4, <1>5 DEF Installments, InstallmentRow
<1> HIDE DEF agreement, installments
<1>7. ASSUME NEW a \in AgreementStatus, NEW x \in Installments(s)
      PROVE  [row EXCEPT !.agreement = a, !.installments = x] \in Row(s)
  BY DEF Row, AgreementStatus
<1>8. /\ MarkOverdue(row) \in Row(s) /\ MarkOverdue(row).status = row.status
      /\ MarkOverdue(row).paidTotal = row.paidTotal
      /\ MarkOverdue(row).balanceDue = row.balanceDue
      /\ MarkOverdue(row).returned = row.returned
      /\ MarkOverdue(row).outstanding = row.outstanding
      /\ MarkOverdue(row).agreement = agreement
      /\ MarkOverdue(row).installments = installments
  <2> DEFINE q == [row EXCEPT !.agreement = agreement, !.installments = installments]
  <2>1. q \in Row(s)
    BY <1>2, <1>6, <1>7
  <2>2. /\ q.status = row.status /\ q.paidTotal = row.paidTotal
        /\ q.balanceDue = row.balanceDue /\ q.returned = row.returned
        /\ q.outstanding = row.outstanding
        /\ q.agreement = agreement /\ q.installments = installments
    BY DEF Row
  <2>3. MarkOverdue(row) = q
    BY <1>1
  <2> HIDE DEF q
  <2> QED BY <2>1, <2>2, <2>3
<1>9. \A i \in DOMAIN Plan[s] :
         /\ MarkOverdue(row).installments[i].due = row.installments[i].due
         /\ MarkOverdue(row).installments[i].paid = row.installments[i].paid
         /\ MarkOverdue(row).installments[i].status = "PAID" <=>
               row.installments[i].status = "PAID"
  BY <1>5, <1>8
<1> QED BY <1>2, <1>8, <1>9

RepaidInstallments(row, r) ==
    [i \in DOMAIN row.installments |->
        LET share == Allocated(r.seen, r.amount, i) IN
        IF share > 0 THEN Credited(r.seen.installments[i], share, r.now > i)
                     ELSE row.installments[i]]

RepaidAgreement(s, r) ==
    IF r.seen.outstanding - r.amount <= Cent THEN "PAID"
    ELSE IF r.now > Len(Plan[s]) THEN "OVERDUE" ELSE "ACTIVE"

\* The row that a repayment leaves.
RepaidRow(s, row, r) ==
    [row EXCEPT
        !.paidTotal = @ + r.amount,
        !.balanceDue = Outstanding(r.seen.outstanding, r.amount),
        !.outstanding = Outstanding(r.seen.outstanding, r.amount),
        !.agreement = RepaidAgreement(s, r),
        !.installments = RepaidInstallments(row, r)]

LEMMA RepaidParts ==
    ASSUME NEW s \in Sales, NEW row \in Row(s), NEW r, r.seen \in Row(s), r.amount \in Nat
    PROVE  /\ RepaidRow(s, row, r) \in Row(s)
           /\ RepaidRow(s, row, r).status = row.status
           /\ RepaidRow(s, row, r).returned = row.returned
           /\ RepaidRow(s, row, r).paidTotal = row.paidTotal + r.amount
           /\ RepaidRow(s, row, r).balanceDue = Outstanding(r.seen.outstanding, r.amount)
           /\ RepaidRow(s, row, r).outstanding = Outstanding(r.seen.outstanding, r.amount)
           /\ RepaidRow(s, row, r).agreement = RepaidAgreement(s, r)
           /\ \A i \in DOMAIN Plan[s] :
                 LET share == Allocated(r.seen, r.amount, i) IN
                 RepaidRow(s, row, r).installments[i] =
                     IF share > 0 THEN Credited(r.seen.installments[i], share, r.now > i)
                                  ELSE row.installments[i]
<1> DEFINE left == Outstanding(r.seen.outstanding, r.amount)
           total == row.paidTotal + r.amount
           agreement == RepaidAgreement(s, r)
           installments == RepaidInstallments(row, r)
<1>1. left \in Nat
  <2>1. r.seen.outstanding \in Nat
    BY RowParts
  <2> QED BY <2>1 DEF Outstanding, Larger
<1>2. total \in Int
  BY RowParts
<1>3. agreement \in AgreementStatus
  BY DEF RepaidAgreement, AgreementStatus
<1>4. DOMAIN row.installments = DOMAIN Plan[s]
  BY RowParts
<1>5. \A i \in DOMAIN Plan[s] :
         LET share == Allocated(r.seen, r.amount, i) IN
         installments[i] =
             IF share > 0 THEN Credited(r.seen.installments[i], share, r.now > i)
                          ELSE row.installments[i]
  BY <1>4 DEF RepaidInstallments
<1>6. \A i \in DOMAIN Plan[s] : installments[i] \in InstallmentRow
  <2> TAKE i \in DOMAIN Plan[s]
  <2> DEFINE share == Allocated(r.seen, r.amount, i)
             x == r.seen.installments[i]
  <2>1. share \in Nat
    BY AllocatedParts
  <2>2. x.due \in Nat /\ x.paid \in Nat /\ row.installments[i] \in InstallmentRow
    BY RowParts
  <2>3. Credited(x, share, r.now > i) \in InstallmentRow
    <3> HIDE DEF share, x
    <3>1. x.paid + share \in Nat
      BY <2>1, <2>2
    <3> QED BY <2>2, <3>1 DEF Credited, InstallmentRow, InstallmentStatus
  <2> QED BY <1>5, <2>2, <2>3
<1>7. installments \in Installments(s)
  BY <1>4, <1>6 DEF RepaidInstallments, Installments, InstallmentRow
<1> HIDE DEF left, total, agreement, installments
<1>8. ASSUME NEW t \in Int, NEW b \in Nat, NEW a \in AgreementStatus,
             NEW x \in Installments(s)
      PROVE  [row EXCEPT !.paidTotal = t, !.balanceDue = b, !.outstanding = b,
                         !.agreement = a, !.installments = x] \in Row(s)
  <2>1. b \in Int
    OBVIOUS
  <2> QED BY <2>1 DEF Row, AgreementStatus
<1>9. RepaidRow(s, row, r) = [row EXCEPT !.paidTotal = total, !.balanceDue = left,
                                         !.outstanding = left, !.agreement = agreement,
                                         !.installments = installments]
  BY DEF RepaidRow, total, left, agreement, installments
<1>10. /\ RepaidRow(s, row, r) \in Row(s)
       /\ RepaidRow(s, row, r).status = row.status
       /\ RepaidRow(s, row, r).returned = row.returned
       /\ RepaidRow(s, row, r).paidTotal = total
       /\ RepaidRow(s, row, r).balanceDue = left
       /\ RepaidRow(s, row, r).outstanding = left
       /\ RepaidRow(s, row, r).agreement = agreement
       /\ RepaidRow(s, row, r).installments = installments
  <2> DEFINE q == [row EXCEPT !.paidTotal = total, !.balanceDue = left,
                              !.outstanding = left, !.agreement = agreement,
                              !.installments = installments]
  <2>1. q \in Row(s)
    BY <1>1, <1>2, <1>3, <1>7, <1>8
  <2>2. /\ q.status = row.status /\ q.returned = row.returned
        /\ q.paidTotal = total /\ q.balanceDue = left
        /\ q.outstanding = left /\ q.agreement = agreement /\ q.installments = installments
    BY DEF Row
  <2> HIDE DEF q
  <2> QED BY <1>9, <2>1, <2>2 DEF q
<1> QED BY <1>5, <1>10 DEF total, left, agreement

LEMMA OffsetTyped ==
    ASSUME NEW r, r.sale \in Sales, r.goods \in Goods, r.seen \in Row(r.sale)
    PROVE  /\ Offset(r) \in Int /\ Offset(r) <= Grain[r.sale] * r.seen.balanceDue
           /\ Worth(r.sale, r.goods) \in Nat /\ CashRefund(r) \in Int
           /\ CashRefund(r) = Worth(r.sale, r.goods) - Offset(r)
           /\ r.seen.balanceDue \in Nat => Offset(r) \in Nat
           /\ WholeCents(r.sale, Worth(r.sale, r.goods)) =>
                 /\ \E n \in Int : Offset(r) = Grain[r.sale] * n
                 /\ \E n \in Int : CashRefund(r) = Grain[r.sale] * n
<1> DEFINE g == Grain[r.sale]
           w == Worth(r.sale, r.goods)
           b == g * r.seen.balanceDue
<1>1. w \in Nat /\ r.seen.balanceDue \in Int /\ g \in Nat
  BY WorthTyped, RowParts, GrainTyped
<1>2. CashRefund(r) = w - Offset(r)
  BY DEF CashRefund
<1>3. Offset(r) = Smaller(w, b)
  BY DEF Offset
<1>4. b \in Int /\ (r.seen.balanceDue \in Nat => b \in Nat)
  BY <1>1, TimesInt, TimesNat
<1>5. ASSUME WholeCents(r.sale, w)
      PROVE  /\ \E n \in Int : Offset(r) = g * n
             /\ \E n \in Int : CashRefund(r) = g * n
  <2>1. PICK m \in Int : w = g * m
    BY <1>1, <1>5, WholeIs
  <2>2. PICK n \in Int : Offset(r) = g * n
    BY <1>1, <1>3, <2>1 DEF Smaller
  <2>3. g * (m - n) = g * m - g * n /\ m - n \in Int
    BY <1>1, TimesInt
  <2> QED BY <1>2, <2>1, <2>2, <2>3
<1> HIDE DEF w, b
<1>6. /\ Offset(r) \in Int /\ Offset(r) <= b
      /\ b \in Nat => Offset(r) \in Nat
  BY <1>1, <1>3, <1>4 DEF Smaller
<1>7. CashRefund(r) \in Int
  BY <1>1, <1>2, <1>6
<1> HIDE DEF g
<1> QED BY <1>1, <1>2, <1>4, <1>5, <1>6, <1>7 DEF w, b, g

SetsOff(s, r) == Offset(r) > 0 /\ OnCredit(s)

\* What is left of the refund at installment i, and of the balance.
RestAt(s, r, i) == Larger(0, Offset(r) - Grain[s] * OwedIn(r.seen, (i + 1)..Len(Plan[s])))
LeftOf(s, r) == Larger(0, Grain[s] * r.seen.outstanding - Offset(r))

ReturnedInstallments(s, row, r) ==
    [i \in DOMAIN row.installments |->
        IF SetsOff(s, r) /\ RestAt(s, r, i) > 0
        THEN Reduced(s, r.seen.installments[i],
                     Smaller(RestAt(s, r, i), Grain[s] * Owed(r.seen, i)))
        ELSE row.installments[i]]

ReturnedAgreement(s, row, r) ==
    IF ~SetsOff(s, r) THEN row.agreement
    ELSE IF LeftOf(s, r) <= Grain[s] * Cent THEN "PAID"
    ELSE r.seen.agreement

ReturnedOutstanding(s, row, r) ==
    IF SetsOff(s, r) THEN Stored(s, LeftOf(s, r)) ELSE row.outstanding

\* The row that a return leaves.
ReturnedRow(s, row, r) ==
    [row EXCEPT
        !.status = IF r.full THEN "REFUNDED" ELSE "PARTIALLY_REFUNDED",
        !.paidTotal = Stored(s, Grain[s] * @ - CashRefund(r)),
        !.balanceDue = Stored(s, Grain[s] * @ - Offset(r)),
        !.returned = Together(@, r.goods),
        !.outstanding = ReturnedOutstanding(s, row, r),
        !.agreement = ReturnedAgreement(s, row, r),
        !.installments = ReturnedInstallments(s, row, r)]

LEMMA OwedInTyped ==
    ASSUME NEW s \in Sales, NEW row \in Row(s), NEW S \in SUBSET DOMAIN Plan[s]
    PROVE  /\ OwedIn(row, S) \in Nat
           /\ \A T \in SUBSET S : OwedIn(row, T) <= OwedIn(row, S)
           /\ \A i \in S : OwedIn(row, S) = Owed(row, i) + OwedIn(row, S \ {i})
           /\ (\A i \in S : Owed(row, i) = 0) => OwedIn(row, S) = 0
<1> DEFINE f == [i \in DOMAIN row.installments |-> Owed(row, i)]
<1>1. \A i \in S : f[i] \in Nat /\ f[i] = Owed(row, i) /\ f[i] \in Int
  BY RowParts, OwedParts
<1>2. IsFiniteSet(S)
  BY PlanDomain, FS_Subset
<1>3. \A T : OwedIn(row, T) = SumFunctionOnSet(f, T)
  BY DEF OwedIn
<1> HIDE DEF f
<1>4. OwedIn(row, S) \in Nat
  BY <1>1, <1>2, <1>3, SumNat
<1>5. \A T \in SUBSET S : OwedIn(row, T) <= OwedIn(row, S)
  BY <1>1, <1>2, <1>3, SumOfFewer
<1>6. \A i \in S : OwedIn(row, S) = Owed(row, i) + OwedIn(row, S \ {i})
  BY <1>1, <1>2, <1>3, SumWithout
<1>7. (\A i \in S : Owed(row, i) = 0) => OwedIn(row, S) = 0
  <2>1. (\A i \in S : Owed(row, i) = 0) => \A i \in S : f[i] = 0
    BY <1>1
  <2> QED BY <1>2, <1>3, <2>1, SumZero
<1> QED BY <1>4, <1>5, <1>6, <1>7

LEMMA LaterInstallments ==
    ASSUME NEW s \in Sales, NEW i \in DOMAIN Plan[s]
    PROVE  /\ (i + 1)..Len(Plan[s]) \in SUBSET DOMAIN Plan[s]
           /\ \A j \in DOMAIN Plan[s] : j > i =>
                 /\ j \in (i + 1)..Len(Plan[s])
                 /\ (j + 1)..Len(Plan[s]) \in SUBSET (((i + 1)..Len(Plan[s])) \ {j})
           /\ \A j \in (i + 1)..Len(Plan[s]) : j \in DOMAIN Plan[s] /\ j > i
           /\ i \in Nat
BY PlanDomain

\* No installment is shortened by more than it owes.
LEMMA ReductionTyped ==
    ASSUME NEW s \in Sales, NEW r, r.sale = s, r.seen \in Row(s), r.goods \in Goods,
           NEW i \in DOMAIN Plan[s], RestAt(s, r, i) > 0
    PROVE  LET reduction == Smaller(RestAt(s, r, i), Grain[s] * Owed(r.seen, i)) IN
           /\ reduction \in Nat /\ reduction <= Grain[s] * r.seen.installments[i].due
           /\ RestAt(s, r, i) \in Nat
<1> DEFINE x == r.seen.installments[i]
           after == Grain[s] * OwedIn(r.seen, (i + 1)..Len(Plan[s]))
           rest == RestAt(s, r, i)
           o == Grain[s] * Owed(r.seen, i)
<1>1. Owed(r.seen, i) <= x.due /\ Owed(r.seen, i) \in Nat /\ x.due \in Nat
  BY OwedParts, RowParts
<1>2. o \in Nat /\ o <= Grain[s] * x.due /\ Grain[s] * x.due \in Nat
  BY <1>1, GrainTyped, TimesNat, TimesGrows
<1>3. OwedIn(r.seen, (i + 1)..Len(Plan[s])) \in Nat
  BY LaterInstallments, OwedInTyped
<1>4. after \in Nat
  BY <1>3, GrainTyped, TimesNat
<1>5. rest = Larger(0, Offset(r) - after) /\ Offset(r) \in Int
  BY OffsetTyped DEF RestAt
<1> HIDE DEF after, rest
<1>6. rest \in Nat
  BY <1>4, <1>5 DEF Larger
<1> HIDE DEF o
<1>7. Smaller(rest, o) \in Nat /\ Smaller(rest, o) <= o
  BY <1>2, <1>6 DEF Smaller
<1> DEFINE d == Grain[s] * x.due
           m == Smaller(rest, o)
<1>8. m \in Nat /\ m <= d
  <2> HIDE DEF d, m
  <2>1. d \in Nat /\ o <= d /\ m \in Nat /\ m <= o
    BY <1>2, <1>7 DEF d, m
  <2> QED BY <1>2, <2>1
<1> QED BY <1>6, <1>8 DEF rest, o

LEMMA ReturnedParts ==
    ASSUME NEW s \in Sales, NEW row \in Row(s), NEW r, r.sale = s, r.seen \in Row(s),
           r.goods \in Goods
    PROVE  /\ ReturnedRow(s, row, r) \in Row(s)
           /\ ReturnedRow(s, row, r).status =
                 IF r.full THEN "REFUNDED" ELSE "PARTIALLY_REFUNDED"
           /\ ReturnedRow(s, row, r).paidTotal =
                 Stored(s, Grain[s] * row.paidTotal - CashRefund(r))
           /\ ReturnedRow(s, row, r).balanceDue =
                 Stored(s, Grain[s] * row.balanceDue - Offset(r))
           /\ ReturnedRow(s, row, r).returned = Together(row.returned, r.goods)
           /\ ReturnedRow(s, row, r).outstanding = ReturnedOutstanding(s, row, r)
           /\ ReturnedRow(s, row, r).agreement = ReturnedAgreement(s, row, r)
           /\ ReturnedRow(s, row, r).installments = ReturnedInstallments(s, row, r)
<1> DEFINE status == IF r.full THEN "REFUNDED" ELSE "PARTIALLY_REFUNDED"
           total == Stored(s, Grain[s] * row.paidTotal - CashRefund(r))
           balance == Stored(s, Grain[s] * row.balanceDue - Offset(r))
           returned == Together(row.returned, r.goods)
           outstanding == ReturnedOutstanding(s, row, r)
           agreement == ReturnedAgreement(s, row, r)
           installments == ReturnedInstallments(s, row, r)
           q == [row EXCEPT !.status = status, !.paidTotal = total, !.balanceDue = balance,
                            !.returned = returned, !.outstanding = outstanding,
                            !.agreement = agreement, !.installments = installments]
<1>1. status \in SaleStatus
  BY DEF SaleStatus
<1>2. total \in Int /\ balance \in Int
  <2>1. Grain[s] * row.paidTotal \in Int /\ Grain[s] * row.balanceDue \in Int
    BY GrainTyped, TimesInt, RowParts
  <2>2. CashRefund(r) \in Int /\ Offset(r) \in Int
    BY OffsetTyped
  <2> DEFINE p == Grain[s] * row.paidTotal
             b == Grain[s] * row.balanceDue
  <2> HIDE DEF p, b
  <2>3. p - CashRefund(r) \in Int /\ b - Offset(r) \in Int
    BY <2>1, <2>2 DEF p, b
  <2> QED BY <2>3, StoredNearest DEF p, b
<1>3. returned \in Goods
  BY TogetherTyped, RowParts
<1>4. outstanding \in Nat
  <2>1. r.seen.outstanding \in Nat /\ row.outstanding \in Nat
    BY RowParts
  <2>2. Offset(r) \in Int
    BY OffsetTyped
  <2>3. LeftOf(s, r) \in Nat
    <3> DEFINE p == Grain[s] * r.seen.outstanding
    <3>1. p \in Nat
      BY <2>1, GrainTyped, TimesNat
    <3> HIDE DEF p
    <3>2. Larger(0, p - Offset(r)) \in Nat
      BY <2>2, <3>1 DEF Larger
    <3> QED BY <3>2 DEF LeftOf, p
  <2> QED BY <2>1, <2>3, StoredNat DEF ReturnedOutstanding
<1>5. agreement \in AgreementStatus
  <2>1. r.seen.agreement \in AgreementStatus /\ row.agreement \in AgreementStatus
    BY RowParts
  <2> QED BY <2>1 DEF ReturnedAgreement, AgreementStatus
<1>6. installments \in Installments(s)
  <2>1. DOMAIN row.installments = DOMAIN Plan[s]
    BY RowParts
  <2>2. ASSUME NEW i \in DOMAIN Plan[s]
        PROVE  installments[i] \in InstallmentRow
    <3> DEFINE x == r.seen.installments[i]
               reduction == Smaller(RestAt(s, r, i), Grain[s] * Owed(r.seen, i))
    <3>1. x \in InstallmentRow /\ row.installments[i] \in InstallmentRow
      BY RowParts
    <3>2. installments[i] = IF SetsOff(s, r) /\ RestAt(s, r, i) > 0
                            THEN Reduced(s, x, reduction) ELSE row.installments[i]
      BY <2>1 DEF ReturnedInstallments
    <3>3. CASE SetsOff(s, r) /\ RestAt(s, r, i) > 0
      <4>1. reduction \in Nat /\ reduction <= Grain[s] * x.due
        BY <3>3, ReductionTyped
      <4> HIDE DEF reduction, x
      <4> QED BY <3>1, <3>2, <3>3, <4>1, ReducedParts
    <3>4. CASE ~(SetsOff(s, r) /\ RestAt(s, r, i) > 0)
      BY <3>1, <3>2, <3>4
    <3> QED BY <3>3, <3>4
  <2>3. installments = [i \in DOMAIN Plan[s] |-> installments[i]]
    BY <2>1 DEF ReturnedInstallments
  <2> HIDE DEF installments
  <2> QED BY <2>2, <2>3 DEF Installments, InstallmentRow
<1>7. ReturnedRow(s, row, r) = q
  BY DEF ReturnedRow
<1> HIDE DEF status, total, balance, returned, outstanding, agreement, installments
<1>8. q \in Row(s)
  BY <1>1, <1>2, <1>3, <1>4, <1>5, <1>6 DEF Row, SaleStatus, AgreementStatus
<1>9. /\ q.status = status /\ q.paidTotal = total /\ q.balanceDue = balance
      /\ q.returned = returned /\ q.outstanding = outstanding
      /\ q.agreement = agreement /\ q.installments = installments
  BY DEF Row
<1> HIDE DEF q
<1> QED
  BY <1>7, <1>8, <1>9
  DEF status, total, balance, returned, outstanding, agreement, installments

-----------------------------------------------------------------------------
(* Type correctness.                                                       *)

RepayRequestOK(r) ==
    /\ r.sale \in Sales /\ r.seen \in Row(r.sale)
    /\ r.amount \in Nat /\ r.now \in 0..MaxDay

ReturnRequestOK(r) == r.sale \in Sales /\ r.seen \in Row(r.sale) /\ r.goods \in Goods

LEMMA RequestParts ==
    ASSUME TypeOK, NEW c \in Clerks
    PROVE  /\ request[c].op = "repay" => RepayRequestOK(request[c])
           /\ request[c].op = "return" => ReturnRequestOK(request[c])
           /\ request[c].op = "counted" =>
                 ReturnRequestOK(request[c]) /\ request[c].full \in BOOLEAN
<1>1. RequestOK(request[c])
  BY DEF TypeOK
<1> QED BY <1>1 DEF RequestOK, Idle, RepayRequestOK, ReturnRequestOK

LEMMA InitTyped == Init => TypeOK
<1> SUFFICES ASSUME Init PROVE TypeOK
  OBVIOUS
<1>1. ASSUME NEW s \in Sales PROVE ledger[s] \in Row(s)
  <2>1. ledger[s] = NewSale(s)
    BY DEF Init
  <2>2. Balance[s] \in Int
    BY LedgerAssumption
  <2>3. OnCredit(s) => Balance[s] \in Nat
    BY <2>2, PlanAssumption
  <2>4. [l \in Lines |-> 0] \in Goods
    BY DEF Goods
  <2>5. [i \in DOMAIN Plan[s] |-> [due |-> Plan[s][i], paid |-> 0, status |-> "PENDING"]]
           \in Installments(s)
    BY PlanDomain DEF Installments, InstallmentStatus
  <2>6. Tendered[s] \in Int
    BY LedgerAssumption
  <2> QED BY <2>1, <2>2, <2>3, <2>4, <2>5, <2>6 DEF NewSale, Row
<1>2. DOMAIN ledger = Sales
  BY DEF Init
<1>3. DOMAIN request = Clerks /\ \A c \in Clerks : RequestOK(request[c])
  BY DEF Init, RequestOK
<1>4. day \in 0..MaxDay /\ repaid \in [Sales -> Nat] /\ offset \in [Sales -> Int]
      /\ uneven \in [Sales -> Nat]
      /\ clashed \subseteq Sales
  BY LedgerAssumption DEF Init
<1> QED BY <1>1, <1>2, <1>3, <1>4 DEF TypeOK

RequestsTyped(f) == DOMAIN f = Clerks /\ \A c \in Clerks : RequestOK(f[c])
LedgerTyped(f) == DOMAIN f = Sales /\ \A s \in Sales : f[s] \in Row(s)

LEMMA Answered ==
    ASSUME TypeOK, NEW c \in Clerks, NEW r, RequestOK(r), request' = [request EXCEPT ![c] = r]
    PROVE  /\ RequestsTyped(request') /\ request'[c] = r
           /\ \A d \in Clerks \ {c} : request'[d] = request[d]
BY DEF TypeOK, RequestsTyped

LEMMA Written ==
    ASSUME TypeOK, NEW s \in Sales, NEW row \in Row(s), ledger' = [ledger EXCEPT ![s] = row]
    PROVE  /\ LedgerTyped(ledger') /\ ledger'[s] = row
           /\ \A q \in Sales \ {s} : ledger'[q] = ledger[q]
BY DEF TypeOK, LedgerTyped

LEMMA IdleOK == RequestOK(Idle)
BY DEF RequestOK

LEMMA BeginRepayTyped ==
    ASSUME TypeOK, NEW c \in Clerks, NEW s \in Sales, NEW amount \in Amounts,
           BeginRepay(c, s, amount)
    PROVE  /\ TypeOK'
           /\ ledger'[s] = MarkOverdue(ledger[s])
           /\ \A q \in Sales \ {s} : ledger'[q] = ledger[q]
           /\ request'[c] = [op |-> "repay", sale |-> s, amount |-> amount, now |-> day,
                             seen |-> ledger'[s]]
           /\ \A d \in Clerks \ {c} : request'[d] = request[d]
<1> DEFINE r == [op |-> "repay", sale |-> s, amount |-> amount, now |-> day,
                 seen |-> ledger'[s]]
<1>1. MarkOverdue(ledger[s]) \in Row(s)
  BY MarkOverdueParts DEF TypeOK
<1>2. ledger' = [ledger EXCEPT ![s] = MarkOverdue(ledger[s])]
  BY DEF BeginRepay
<1>3. /\ LedgerTyped(ledger') /\ ledger'[s] = MarkOverdue(ledger[s])
      /\ \A q \in Sales \ {s} : ledger'[q] = ledger[q]
  BY <1>1, <1>2, Written
<1>4. RequestOK(r)
  BY <1>1, <1>3, LedgerAssumption DEF RequestOK, TypeOK
<1>5. request' = [request EXCEPT ![c] = r]
  BY DEF BeginRepay
<1> HIDE DEF r
<1>6. /\ RequestsTyped(request') /\ request'[c] = r
      /\ \A d \in Clerks \ {c} : request'[d] = request[d]
  BY <1>4, <1>5, Answered
<1>7. UNCHANGED <<day, repaid, offset, uneven, clashed>>
  BY DEF BeginRepay
<1> QED BY <1>3, <1>6, <1>7 DEF TypeOK, LedgerTyped, RequestsTyped, r

LEMMA CommitRepayTyped ==
    ASSUME TypeOK, NEW c \in Clerks, CommitRepay(c)
    PROVE  LET r == request[c]
               s == r.sale
           IN  /\ TypeOK' /\ s \in Sales /\ RepayRequestOK(r)
               /\ ledger'[s] = RepaidRow(s, ledger[s], r)
               /\ \A q \in Sales \ {s} : ledger'[q] = ledger[q]
               /\ request'[c] = Idle
               /\ \A d \in Clerks \ {c} : request'[d] = request[d]
               /\ repaid'[s] = repaid[s] + r.amount
               /\ \A q \in Sales \ {s} : repaid'[q] = repaid[q]
<1> DEFINE r == request[c]
           s == r.sale
<1>1. RepayRequestOK(r) /\ s \in Sales
  BY RequestParts DEF CommitRepay, RepayRequestOK
<1>2. ledger' = [ledger EXCEPT ![s] = RepaidRow(s, ledger[s], r)]
  BY DEF CommitRepay, RepaidRow, RepaidInstallments, RepaidAgreement
<1>3. RepaidRow(s, ledger[s], r) \in Row(s)
  BY <1>1, RepaidParts DEF RepayRequestOK, TypeOK
<1>4. /\ LedgerTyped(ledger') /\ ledger'[s] = RepaidRow(s, ledger[s], r)
      /\ \A q \in Sales \ {s} : ledger'[q] = ledger[q]
  BY <1>1, <1>2, <1>3, Written
<1>5. /\ RequestsTyped(request') /\ request'[c] = Idle
      /\ \A d \in Clerks \ {c} : request'[d] = request[d]
  BY IdleOK, Answered DEF CommitRepay
<1>6. repaid' = [repaid EXCEPT ![s] = @ + r.amount]
  BY DEF CommitRepay
<1>7. /\ repaid' \in [Sales -> Nat] /\ repaid'[s] = repaid[s] + r.amount
      /\ \A q \in Sales \ {s} : repaid'[q] = repaid[q]
  <2>1. repaid \in [Sales -> Nat] /\ r.amount \in Nat
    BY <1>1 DEF TypeOK, RepayRequestOK
  <2>2. repaid[s] + r.amount \in Nat
    BY <1>1, <2>1
  <2> QED BY <1>1, <1>6, <2>1, <2>2
<1>8. UNCHANGED <<day, offset, uneven>> /\ clashed' \subseteq clashed \cup {s}
  BY DEF CommitRepay, Clash
<1> QED BY <1>1, <1>4, <1>5, <1>7, <1>8 DEF TypeOK, LedgerTyped, RequestsTyped

LEMMA BeginReturnTyped ==
    ASSUME TypeOK, NEW c \in Clerks, NEW s \in Sales, NEW goods \in Goods,
           BeginReturn(c, s, goods)
    PROVE  /\ TypeOK'
           /\ request'[c] = [op |-> "return", sale |-> s, goods |-> goods,
                             seen |-> ledger[s]]
           /\ \A d \in Clerks \ {c} : request'[d] = request[d]
<1> DEFINE r == [op |-> "return", sale |-> s, goods |-> goods, seen |-> ledger[s]]
<1>1. RequestOK(r)
  BY DEF RequestOK, TypeOK
<1>2. request' = [request EXCEPT ![c] = r]
  BY DEF BeginReturn
<1> HIDE DEF r
<1>3. /\ RequestsTyped(request') /\ request'[c] = r
      /\ \A d \in Clerks \ {c} : request'[d] = request[d]
  BY <1>1, <1>2, Answered
<1>4. UNCHANGED <<ledger, day, repaid, offset, uneven, clashed>>
  BY DEF BeginReturn
<1> QED BY <1>3, <1>4 DEF TypeOK, RequestsTyped, r

LEMMA CountReturnedTyped ==
    ASSUME TypeOK, NEW c \in Clerks, CountReturned(c)
    PROVE  LET r == request[c] IN
           /\ TypeOK' /\ ReturnRequestOK(r)
           /\ request'[c] =
                 [op |-> "counted", sale |-> r.sale, goods |-> r.goods, seen |-> r.seen,
                  full |-> FullyReturned(r.sale, Together(ledger[r.sale].returned, r.goods))]
           /\ \A d \in Clerks \ {c} : request'[d] = request[d]
<1> DEFINE r == request[c]
           full == FullyReturned(r.sale, Together(ledger[r.sale].returned, r.goods))
           q == [op |-> "counted", sale |-> r.sale, goods |-> r.goods, seen |-> r.seen,
                 full |-> full]
<1>1. ReturnRequestOK(r)
  BY RequestParts DEF CountReturned
<1>2. full \in BOOLEAN
  BY DEF FullyReturned
<1>3. request' = [request EXCEPT ![c] = q]
  BY DEF CountReturned
<1>4. RequestOK(q)
  <2> HIDE DEF full
  <2> QED BY <1>1, <1>2 DEF RequestOK, ReturnRequestOK
<1> HIDE DEF q
<1>5. /\ RequestsTyped(request') /\ request'[c] = q
      /\ \A d \in Clerks \ {c} : request'[d] = request[d]
  BY <1>3, <1>4, Answered
<1>6. UNCHANGED <<ledger, day, repaid, offset, uneven, clashed>>
  BY DEF CountReturned
<1> QED BY <1>1, <1>5, <1>6 DEF TypeOK, RequestsTyped, q

LEMMA CommitReturnTyped ==
    ASSUME TypeOK, NEW c \in Clerks, CommitReturn(c)
    PROVE  LET r == request[c]
               s == r.sale
           IN  /\ TypeOK' /\ s \in Sales /\ ReturnRequestOK(r)
               /\ ledger'[s] = ReturnedRow(s, ledger[s], r)
               /\ \A q \in Sales \ {s} : ledger'[q] = ledger[q]
               /\ request'[c] = Idle
               /\ \A d \in Clerks \ {c} : request'[d] = request[d]
               /\ offset'[s] = offset[s] + Offset(r)
               /\ uneven'[s] = IF WholeCents(s, Worth(s, r.goods)) THEN uneven[s]
                                                                  ELSE uneven[s] + 1
               /\ \A q \in Sales \ {s} : offset'[q] = offset[q] /\ uneven'[q] = uneven[q]
<1> DEFINE r == request[c]
           s == r.sale
<1>1. ReturnRequestOK(r) /\ s \in Sales
  BY RequestParts DEF CommitReturn, ReturnRequestOK
<1>2. ledger' = [ledger EXCEPT ![s] = ReturnedRow(s, ledger[s], r)]
  BY DEF CommitReturn, ReturnedRow, ReturnedInstallments, ReturnedAgreement,
         ReturnedOutstanding, SetsOff, RestAt, LeftOf
<1>3. ReturnedRow(s, ledger[s], r) \in Row(s)
  BY <1>1, ReturnedParts DEF ReturnRequestOK, TypeOK
<1>4. /\ LedgerTyped(ledger') /\ ledger'[s] = ReturnedRow(s, ledger[s], r)
      /\ \A q \in Sales \ {s} : ledger'[q] = ledger[q]
  BY <1>1, <1>2, <1>3, Written
<1>5. /\ RequestsTyped(request') /\ request'[c] = Idle
      /\ \A d \in Clerks \ {c} : request'[d] = request[d]
  BY IdleOK, Answered DEF CommitReturn
<1>6. offset' = [offset EXCEPT ![s] = @ + Offset(r)]
  BY DEF CommitReturn
<1>7. /\ offset' \in [Sales -> Int] /\ offset'[s] = offset[s] + Offset(r)
      /\ \A q \in Sales \ {s} : offset'[q] = offset[q]
  <2>1. offset \in [Sales -> Int] /\ Offset(r) \in Int
    BY <1>1, OffsetTyped DEF TypeOK, ReturnRequestOK
  <2>2. offset[s] + Offset(r) \in Int
    BY <1>1, <2>1
  <2> QED BY <1>1, <1>6, <2>1, <2>2
<1>8. UNCHANGED <<day, repaid>> /\ clashed' \subseteq clashed \cup {s}
  BY DEF CommitReturn, Clash
<1> DEFINE even == WholeCents(s, Worth(s, r.goods))
<1>9. uneven' = [uneven EXCEPT ![s] = IF even THEN @ ELSE @ + 1]
  BY DEF CommitReturn
<1>10. /\ uneven' \in [Sales -> Nat]
       /\ uneven'[s] = IF even THEN uneven[s] ELSE uneven[s] + 1
       /\ \A q \in Sales \ {s} : uneven'[q] = uneven[q]
  <2> HIDE DEF even
  <2>1. uneven \in [Sales -> Nat] /\ uneven[s] + 1 \in Nat /\ uneven[s] \in Nat
    BY <1>1 DEF TypeOK
  <2>2. (IF even THEN uneven[s] ELSE uneven[s] + 1) \in Nat
    BY <2>1
  <2> QED BY <1>1, <1>9, <2>1, <2>2
<1> QED BY <1>1, <1>4, <1>5, <1>7, <1>8, <1>10 DEF TypeOK, LedgerTyped, RequestsTyped

LEMMA ViewTyped ==
    ASSUME TypeOK, ViewAgreements
    PROVE  TypeOK' /\ \A s \in Sales : ledger'[s] = MarkOverdue(ledger[s])
<1>1. ledger' = [s \in Sales |-> MarkOverdue(ledger[s])]
  BY DEF ViewAgreements
<1>2. \A s \in Sales : ledger'[s] = MarkOverdue(ledger[s]) /\ ledger'[s] \in Row(s)
  BY <1>1, MarkOverdueParts DEF TypeOK
<1>3. UNCHANGED <<request, day, repaid, offset, uneven, clashed>>
  BY DEF ViewAgreements
<1> QED BY <1>1, <1>2, <1>3 DEF TypeOK

LEMMA AbandonTyped ==
    ASSUME TypeOK, NEW c \in Clerks, Abandon(c)
    PROVE  TypeOK' /\ request'[c] = Idle /\ \A d \in Clerks \ {c} : request'[d] = request[d]
<1>1. /\ RequestsTyped(request') /\ request'[c] = Idle
      /\ \A d \in Clerks \ {c} : request'[d] = request[d]
  BY IdleOK, Answered DEF Abandon
<1>2. UNCHANGED <<ledger, day, repaid, offset, uneven, clashed>>
  BY DEF Abandon
<1> QED BY <1>1, <1>2 DEF TypeOK, RequestsTyped

\* The goods a customer may bring back.
LEMMA Bring ==
    ASSUME NEW s \in Sales, NEW goods \in [Lines -> 0..SumFunction(Quantity[s])]
    PROVE  goods \in Goods
<1>1. SumFunction(Quantity[s]) \in Nat
  BY CountTyped, LedgerAssumption
<1> QED BY <1>1 DEF Goods

LEMMA TypedStep ==
    ASSUME TypeOK, [Next]_vars
    PROVE  TypeOK'
<1>1. CASE NextDay
  BY <1>1, LedgerAssumption DEF NextDay, TypeOK
<1>2. CASE UNCHANGED vars
  BY <1>2 DEF vars, TypeOK
<1> QED
  BY <1>1, <1>2, BeginRepayTyped, CommitRepayTyped, BeginReturnTyped, CountReturnedTyped,
     CommitReturnTyped, ViewTyped, AbandonTyped, Bring DEF Next

\* The rows of sales, agreements and installments keep their types through every
\* repayment and return, stale ones included: no outstanding balance, installment or
\* payment becomes negative.
THEOREM LedgerTypeCorrect == Spec => []TypeOK
<1>1. TypeOK /\ [Next]_vars => TypeOK'
  BY TypedStep
<1> QED BY InitTyped, <1>1, PTL DEF Spec

-----------------------------------------------------------------------------
(* What a row says of one sale on credit.                                  *)

\* What the installments still owe.
DueIn(row) ==
    SumFunction([i \in DOMAIN row.installments |->
                    row.installments[i].due - row.installments[i].paid])

\* The amounts of a row agree and its statuses say what its amounts say.
RowSound(s, row) ==
    /\ row.balanceDue = row.outstanding
    /\ DueIn(row) - row.outstanding \in -Cent..Cent
    /\ row.outstanding = 0 /\ Balance[s] > 0 => row.agreement = "PAID"
    /\ row.agreement = "PAID" => row.outstanding <= Cent
    /\ \A i \in DOMAIN Plan[s] :
          /\ row.installments[i].paid <= row.installments[i].due
          /\ row.installments[i].status = "PAID" =>
                row.installments[i].paid >= row.installments[i].due
    /\ \A i \in Unsettled(row), j \in DOMAIN Plan[s] : j > i =>
          /\ row.installments[j].paid >= row.installments[j].due
          /\ row.installments[j].status = "PAID"

LEMMA UnsettledParts ==
    ASSUME NEW s \in Sales, NEW row \in Row(s), NEW i
    PROVE  i \in Unsettled(row) <=>
              /\ i \in DOMAIN Plan[s]
              /\ row.installments[i].paid >= row.installments[i].due
              /\ row.installments[i].status # "PAID"
BY RowParts DEF Unsettled

LEMMA FiguresSame ==
    ASSUME NEW s \in Sales, NEW x \in Row(s), NEW y \in Row(s), Figures(x) = Figures(y)
    PROVE  /\ x.balanceDue = y.balanceDue /\ x.outstanding = y.outstanding
           /\ x.returned = y.returned
           /\ \A i \in DOMAIN Plan[s] :
                 /\ x.installments[i].due = y.installments[i].due
                 /\ x.installments[i].paid = y.installments[i].paid
<1> DEFINE f(row) == [i \in DOMAIN row.installments |->
                         <<row.installments[i].due, row.installments[i].paid>>]
<1>1. /\ x.balanceDue = y.balanceDue /\ x.outstanding = y.outstanding
      /\ x.returned = y.returned /\ f(x) = f(y)
  BY DEF Figures
<1>2. DOMAIN x.installments = DOMAIN Plan[s] /\ DOMAIN y.installments = DOMAIN Plan[s]
  BY RowParts
<1>3. ASSUME NEW i \in DOMAIN Plan[s]
      PROVE  /\ x.installments[i].due = y.installments[i].due
             /\ x.installments[i].paid = y.installments[i].paid
  <2>1. f(x)[i] = <<x.installments[i].due, x.installments[i].paid>>
    BY <1>2
  <2>2. f(y)[i] = <<y.installments[i].due, y.installments[i].paid>>
    BY <1>2
  <2> QED BY <1>1, <2>1, <2>2
<1> QED BY <1>1, <1>3

LEMMA DueTyped ==
    ASSUME NEW s \in Sales, NEW row \in Row(s)
    PROVE  /\ DueIn(row) \in Int
           /\ DueIn(row) = SumFunctionOnSet(
                 [i \in DOMAIN Plan[s] |-> row.installments[i].due - row.installments[i].paid],
                 DOMAIN Plan[s])
<1> DEFINE f == [i \in DOMAIN Plan[s] |-> row.installments[i].due - row.installments[i].paid]
<1>1. DueIn(row) = SumFunctionOnSet(f, DOMAIN Plan[s])
  BY RowParts DEF DueIn, SumFunction
<1>2. \A i \in DOMAIN Plan[s] : f[i] \in Int
  BY RowParts
<1> HIDE DEF f
<1>3. SumFunctionOnSet(f, DOMAIN Plan[s]) \in Int
  BY <1>2, PlanDomain, SumTyped
<1> QED BY <1>1, <1>3 DEF f

\* Rows that owe the same in each installment owe the same in all.
LEMMA DueSame ==
    ASSUME NEW s \in Sales, NEW x \in Row(s), NEW y \in Row(s),
           \A i \in DOMAIN Plan[s] :
              /\ x.installments[i].due = y.installments[i].due
              /\ x.installments[i].paid = y.installments[i].paid
    PROVE  DueIn(x) = DueIn(y)
<1>1. [i \in DOMAIN Plan[s] |-> x.installments[i].due - x.installments[i].paid]
        = [i \in DOMAIN Plan[s] |-> y.installments[i].due - y.installments[i].paid]
  OBVIOUS
<1> QED BY <1>1, DueTyped

\* When none is paid over its due, the installments owe what is owed in each.
LEMMA DueIsOwed ==
    ASSUME NEW s \in Sales, NEW row \in Row(s),
           \A i \in DOMAIN Plan[s] : row.installments[i].paid <= row.installments[i].due
    PROVE  DueIn(row) = OwedIn(row, DOMAIN Plan[s])
<1> DEFINE f == [i \in DOMAIN Plan[s] |-> row.installments[i].due - row.installments[i].paid]
           g == [i \in DOMAIN Plan[s] |-> Owed(row, i)]
<1>1. DueIn(row) = SumFunctionOnSet(f, DOMAIN Plan[s])
  BY DueTyped
<1>2. OwedIn(row, DOMAIN Plan[s]) = SumFunctionOnSet(g, DOMAIN Plan[s])
  BY RowParts DEF OwedIn
<1>3. \A i \in DOMAIN Plan[s] : f[i] = g[i]
  BY OwedParts
<1> HIDE DEF f, g
<1> QED BY <1>1, <1>2, <1>3, PlanDomain, SumAgrees

\* What the installments owe drops by what is taken off them.
LEMMA DueDrops ==
    ASSUME NEW s \in Sales, NEW x \in Row(s), NEW y \in Row(s), NEW g,
           \A i \in DOMAIN Plan[s] :
              /\ g[i] \in Nat
              /\ y.installments[i].due - y.installments[i].paid
                    = x.installments[i].due - x.installments[i].paid - g[i]
    PROVE  DueIn(x) = DueIn(y) + SumFunctionOnSet(g, DOMAIN Plan[s])
<1> DEFINE f == [i \in DOMAIN Plan[s] |-> x.installments[i].due - x.installments[i].paid]
           h == [i \in DOMAIN Plan[s] |-> y.installments[i].due - y.installments[i].paid]
<1>1. /\ DueIn(x) = SumFunctionOnSet(f, DOMAIN Plan[s])
      /\ DueIn(y) = SumFunctionOnSet(h, DOMAIN Plan[s])
  BY DueTyped
<1>2. \A i \in DOMAIN Plan[s] : h[i] \in Int /\ g[i] \in Int /\ f[i] = h[i] + g[i]
  <2> TAKE i \in DOMAIN Plan[s]
  <2>1. /\ x.installments[i].due \in Nat /\ x.installments[i].paid \in Nat
        /\ y.installments[i].due \in Nat /\ y.installments[i].paid \in Nat
    BY RowParts
  <2>2. /\ g[i] \in Nat
        /\ y.installments[i].due - y.installments[i].paid
              = x.installments[i].due - x.installments[i].paid - g[i]
    OBVIOUS
  <2> QED BY <2>1, <2>2
<1> HIDE DEF f, h
<1> QED BY <1>1, <1>2, PlanDomain, SumAdds

LEMMA MarkedSound ==
    ASSUME NEW s \in Sales, NEW row \in Row(s), RowSound(s, row)
    PROVE  /\ RowSound(s, MarkOverdue(row))
           /\ Unsettled(MarkOverdue(row)) = Unsettled(row)
<1> DEFINE new == MarkOverdue(row)
<1>1. /\ new \in Row(s) /\ new.balanceDue = row.balanceDue
      /\ new.outstanding = row.outstanding
      /\ new.agreement = "PAID" <=> row.agreement = "PAID"
      /\ \A i \in DOMAIN Plan[s] :
            /\ new.installments[i].due = row.installments[i].due
            /\ new.installments[i].paid = row.installments[i].paid
            /\ new.installments[i].status = "PAID" <=> row.installments[i].status = "PAID"
  BY MarkOverdueParts
<1> HIDE DEF new
<1>2. DueIn(new) = DueIn(row)
  BY <1>1, DueSame
<1>3. \A i : i \in Unsettled(new) <=> i \in Unsettled(row)
  BY <1>1, UnsettledParts
<1> QED BY <1>1, <1>2, <1>3 DEF RowSound, new

LEMMA RepaidSound ==
    ASSUME NEW s \in Sales, NEW row \in Row(s), NEW r, r.seen \in Row(s), r.amount \in Nat,
           Figures(r.seen) = Figures(row), RowSound(s, row)
    PROVE  /\ RowSound(s, RepaidRow(s, row, r))
           /\ Unsettled(RepaidRow(s, row, r)) \subseteq Unsettled(row)
<1> DEFINE new == RepaidRow(s, row, r)
           S == DOMAIN Plan[s]
           a == r.amount
           share(i) == Allocated(r.seen, a, i)
           g == [i \in S |-> share(i)]
           all == OwedIn(r.seen, S)
<1>1. /\ new \in Row(s)
      /\ new.balanceDue = Outstanding(r.seen.outstanding, a)
      /\ new.outstanding = Outstanding(r.seen.outstanding, a)
      /\ new.agreement = RepaidAgreement(s, r)
      /\ \A i \in S :
            new.installments[i] =
                IF share(i) > 0 THEN Credited(r.seen.installments[i], share(i), r.now > i)
                                ELSE row.installments[i]
  BY RepaidParts
<1>2. /\ row.outstanding = r.seen.outstanding
      /\ \A i \in S : /\ r.seen.installments[i].due = row.installments[i].due
                      /\ r.seen.installments[i].paid = row.installments[i].paid
  BY FiguresSame
<1>3. /\ \A i \in S : share(i) \in Nat /\ share(i) <= Owed(r.seen, i)
      /\ SumFunction(g) = IF a < all THEN a ELSE all
  BY AllocatedParts
<1>4. \A i \in S : r.seen.installments[i].paid <= r.seen.installments[i].due
  BY <1>2 DEF RowSound
<1>5. DueIn(r.seen) = all /\ DueIn(r.seen) = DueIn(row) /\ DueIn(row) \in Int
  BY <1>2, <1>4, DueIsOwed, DueSame, DueTyped
<1>6. row.outstanding \in Nat
  BY RowParts
<1> HIDE DEF new
<1>7. ASSUME NEW i \in S
      PROVE  /\ new.installments[i].due = row.installments[i].due
             /\ new.installments[i].paid = row.installments[i].paid + share(i)
             /\ new.installments[i].paid <= new.installments[i].due
             /\ new.installments[i].status = "PAID" =>
                   new.installments[i].paid >= new.installments[i].due
             /\ new.installments[i].status # "PAID" =>
                   \/ new.installments[i].paid < new.installments[i].due
                   \/ new.installments[i] = row.installments[i]
             /\ row.installments[i].paid >= row.installments[i].due =>
                   new.installments[i] = row.installments[i]
  <2> DEFINE x == r.seen.installments[i]
             y == row.installments[i]
             z == new.installments[i]
             sh == share(i)
  <2>1. /\ x.due \in Nat /\ x.paid \in Nat
        /\ x.due = y.due /\ x.paid = y.paid /\ y.paid <= y.due
        /\ y.status = "PAID" => y.paid >= y.due
    BY <1>2, RowParts DEF RowSound
  <2>2. sh \in Nat /\ sh <= x.due - x.paid
    BY <1>3, <1>4, OwedParts
  <2>3. z = IF sh > 0 THEN Credited(x, sh, r.now > i) ELSE y
    BY <1>1
  <2> HIDE DEF x, y, z, sh
  <2>4. CASE sh > 0
    <3>1. /\ z.due = x.due /\ z.paid = x.paid + sh
          /\ z.status = "PAID" <=> x.paid + sh >= x.due
      BY <2>3, <2>4 DEF Credited
    <3>2. /\ z.due = y.due /\ z.paid = y.paid + sh /\ z.paid <= z.due
          /\ z.status = "PAID" => z.paid >= z.due
          /\ z.status # "PAID" => z.paid < z.due
          /\ ~(y.paid >= y.due)
      BY <2>1, <2>2, <2>4, <3>1
    <3> QED BY <3>2 DEF x, y, z, sh
  <2>5. CASE ~(sh > 0)
    <3>1. sh = 0 /\ z = y
      BY <2>2, <2>3, <2>5
    <3>2. /\ z.due = y.due /\ z.paid = y.paid + sh /\ z.paid <= z.due
          /\ z.status = "PAID" => z.paid >= z.due
      BY <2>1, <3>1
    <3> QED BY <3>1, <3>2 DEF x, y, z, sh
  <2> QED BY <2>4, <2>5
<1>8. DueIn(row) = DueIn(new) + SumFunctionOnSet(g, S) /\ DueIn(new) \in Int
  <2>1. ASSUME NEW i \in S
        PROVE  /\ g[i] \in Nat
               /\ new.installments[i].due - new.installments[i].paid
                     = row.installments[i].due - row.installments[i].paid - g[i]
    <3>1. g[i] = share(i) /\ share(i) \in Nat
      BY <1>3
    <3>2. row.installments[i].due \in Nat /\ row.installments[i].paid \in Nat
      BY RowParts
    <3> HIDE DEF g, share
    <3> QED BY <1>7, <3>1, <3>2
  <2> HIDE DEF g
  <2> QED BY <1>1, <2>1, DueDrops, DueTyped
<1>9. SumFunction(g) = SumFunctionOnSet(g, S)
  BY DEF SumFunction
<1> DEFINE D == DueIn(row)
           E == DueIn(new)
           O == row.outstanding
           N == new.outstanding
<1>10. D - O \in -1..1
  BY DEF RowSound, Cent
<1>11. N = Larger(0, O - a) /\ new.balanceDue = N
  BY <1>1, <1>2 DEF Outstanding
<1>12. E = D - (IF a < D THEN a ELSE D) /\ D \in Int
  <2> HIDE DEF g, S, all
  <2> QED BY <1>3, <1>5, <1>8, <1>9
<1>13. E - N \in -1..1
  <2> HIDE DEF D, E, O, N, all, S
  <2>1. O \in Nat
    BY <1>6 DEF O
  <2> QED BY <1>10, <1>11, <1>12, <2>1 DEF Larger
<1>14. /\ new.agreement = "PAID" <=> O - a <= 1
       /\ N = 0 => O - a <= 1
       /\ O - a <= 1 => N <= 1
  <2>1. new.agreement = "PAID" <=> O - a <= 1
    BY <1>1, <1>2 DEF RepaidAgreement, Cent
  <2> HIDE DEF O, N
  <2>2. O \in Nat
    BY <1>6 DEF O
  <2> QED BY <1>11, <2>1, <2>2 DEF Larger
<1>15. \A i \in Unsettled(new) : i \in Unsettled(row)
  <2> SUFFICES ASSUME NEW i \in S, i \in Unsettled(new) PROVE i \in Unsettled(row)
    BY <1>1, UnsettledParts
  <2>1. new.installments[i].status # "PAID"
        /\ new.installments[i].paid >= new.installments[i].due
        /\ new.installments[i].paid \in Nat /\ new.installments[i].due \in Nat
    BY <1>1, UnsettledParts, RowParts
  <2>2. new.installments[i] = row.installments[i]
    BY <1>7, <2>1
  <2> QED BY <2>1, <2>2, UnsettledParts
<1>16. \A i \in Unsettled(new), j \in S : j > i =>
          /\ new.installments[j].paid >= new.installments[j].due
          /\ new.installments[j].status = "PAID"
  BY <1>7, <1>15 DEF RowSound
<1> QED BY <1>7, <1>11, <1>13, <1>14, <1>15, <1>16 DEF RowSound, Cent, new

\* The cents a return takes off the balance of a sale on credit.
CentsOff(s, row, r) == row.outstanding - Stored(s, Grain[s] * row.outstanding - Offset(r))

LEMMA ReturnedCents ==
    ASSUME NEW s \in Sales, NEW row \in Row(s), NEW r, r.sale = s, r.seen \in Row(s),
           r.goods \in Goods, Figures(r.seen) = Figures(row),
           row.balanceDue = row.outstanding, OnCredit(s)
    PROVE  /\ Offset(r) \in Nat /\ Offset(r) <= Grain[s] * row.outstanding
           /\ Grain[s] * row.outstanding \in Nat
           /\ CentsOff(s, row, r) \in Nat /\ CentsOff(s, row, r) <= row.outstanding
           /\ Taken(s, Offset(r), CentsOff(s, row, r))
           /\ ReturnedRow(s, row, r).balanceDue = row.outstanding - CentsOff(s, row, r)
           /\ ReturnedRow(s, row, r).outstanding = row.outstanding - CentsOff(s, row, r)
           /\ LeftOf(s, r) = Grain[s] * row.outstanding - Offset(r)
<1> DEFINE g == Grain[s]
           o == row.outstanding
           a == Offset(r)
           x == g * o
           left == Stored(s, x - a)
           t == CentsOff(s, row, r)
<1>1. o \in Nat /\ r.seen.outstanding = o /\ r.seen.balanceDue = o /\ row.balanceDue = o
  BY FiguresSame, RowParts
<1>2. x \in Nat /\ g \in Nat \ {0}
  BY <1>1, GrainTyped, TimesNat
<1>3. a \in Nat /\ a <= x
  BY <1>1, OffsetTyped
<1>4. left \in Nat /\ o - left \in Int /\ Taken(s, a, o - left)
  <2> HIDE DEF a
  <2> QED BY <1>1, <1>3, TakenOff
<1>5. t = o - left
  BY DEF CentsOff
<1>6. 0 <= t /\ t \in Int
  <2>1. Taken(s, g * 0, 0) /\ g * 0 = 0
    BY <1>2, TakenWhole
  <2>2. t \in Int /\ Taken(s, a, t) /\ Taken(s, 0, 0)
    BY <1>4, <1>5, <2>1
  <2> HIDE DEF a, t
  <2> QED BY <1>3, <2>2, TakenGrows
<1>7. t \in Nat /\ t <= o /\ o - t = left
  <2> HIDE DEF o, t, left
  <2> QED BY <1>1, <1>4, <1>5, <1>6
<1>8. LeftOf(s, r) = x - a
  <2>1. LeftOf(s, r) = Larger(0, x - a)
    BY <1>1 DEF LeftOf
  <2> HIDE DEF x, a
  <2> QED BY <1>2, <1>3, <2>1 DEF Larger
<1>9. ReturnedRow(s, row, r).balanceDue = left
  BY <1>1, ReturnedParts
<1>10. ReturnedRow(s, row, r).outstanding = left
  <2>1. ReturnedRow(s, row, r).outstanding
          = IF a > 0 THEN Stored(s, LeftOf(s, r)) ELSE row.outstanding
    BY ReturnedParts DEF ReturnedOutstanding, SetsOff
  <2>2. CASE a > 0
    BY <1>8, <2>1, <2>2
  <2>3. CASE ~(a > 0)
    <3>1. a = 0
      <4> HIDE DEF a
      <4> QED BY <1>3, <2>3
    <3>2. x - a = x
      <4> HIDE DEF x, a
      <4> QED BY <1>2, <3>1
    <3>3. left = o
      BY <1>1, <3>2, StoredWhole
    <3> QED BY <2>1, <2>3, <3>3
  <2> QED BY <2>2, <2>3
<1> QED BY <1>2, <1>3, <1>4, <1>5, <1>7, <1>8, <1>9, <1>10

\* One installment of a row that a return leaves.
LEMMA ReturnedInstallment ==
    ASSUME NEW s \in Sales, NEW row \in Row(s), NEW r, r.sale = s, r.seen \in Row(s),
           r.goods \in Goods, Figures(r.seen) = Figures(row),
           RowSound(s, row), RowSound(s, r.seen), OnCredit(s), NEW i \in DOMAIN Plan[s]
    PROVE  LET y == row.installments[i]
               z == ReturnedRow(s, row, r).installments[i]
               touched == SetsOff(s, r) /\ RestAt(s, r, i) > 0
           IN  /\ z.paid = y.paid
               /\ z.due = y.due - Reduction(r.seen, CentsOff(s, row, r), i, Len(Plan[s]))
               /\ z.paid <= z.due
               /\ z.status = "PAID" => z.paid >= z.due
               /\ ~touched => z = y
               /\ touched /\ RestAt(s, r, i) >= Grain[s] * Owed(r.seen, i) => z.status = "PAID"
               /\ touched /\ z.status # "PAID" /\ z.paid >= z.due =>
                     ~WholeCents(s, Worth(s, r.goods))
<1> DEFINE x == r.seen.installments[i]
           y == row.installments[i]
           z == ReturnedRow(s, row, r).installments[i]
           a == Offset(r)
           t == CentsOff(s, row, r)
           after == OwedIn(r.seen, (i + 1)..Len(Plan[s]))
           off == Grain[s] * after
           rest == RestAt(s, r, i)
           cut == Reduction(r.seen, t, i, Len(Plan[s]))
           red == Smaller(rest, Grain[s] * Owed(r.seen, i))
<1>1. /\ x \in InstallmentRow /\ y \in InstallmentRow
      /\ x.due = y.due /\ x.paid = y.paid
      /\ x.paid <= x.due /\ (x.status = "PAID" => x.paid >= x.due)
      /\ y.paid <= y.due /\ (y.status = "PAID" => y.paid >= y.due)
  BY FiguresSame, RowParts DEF RowSound
<1>2. Owed(r.seen, i) = x.due - x.paid
  BY <1>1, OwedParts
<1>3. a \in Nat /\ t \in Nat /\ Taken(s, a, t)
  BY ReturnedCents DEF RowSound
<1>4. after \in Nat
  BY LaterInstallments, OwedInTyped
<1>5. rest = Larger(0, a - Grain[s] * after)
  BY DEF RestAt
<1>6. z = IF a > 0 /\ rest > 0 THEN Reduced(s, x, red) ELSE y
  <2>1. DOMAIN row.installments = DOMAIN Plan[s]
    BY RowParts
  <2>2. ReturnedRow(s, row, r).installments = ReturnedInstallments(s, row, r)
    BY ReturnedParts
  <2> QED BY <2>1, <2>2 DEF ReturnedInstallments, SetsOff
<1>7. SetsOff(s, r) <=> a > 0
  BY DEF SetsOff
<1>8. cut = LET left == Larger(0, t - after) IN
            IF left > 0 THEN Smaller(left, x.due - x.paid) ELSE 0
  BY <1>2 DEF Reduction, LeftAfter
<1>9. CASE a > 0 /\ rest > 0
  <2>1. z = Reduced(s, x, Smaller(Larger(0, a - Grain[s] * after), Grain[s] * (x.due - x.paid)))
    BY <1>2, <1>5, <1>6, <1>9
  <2>2. Larger(0, a - Grain[s] * after) > 0
    BY <1>5, <1>9
  <2> DEFINE w == Reduced(s, x, Smaller(Larger(0, a - Grain[s] * after),
                                        Grain[s] * (x.due - x.paid)))
  <2>3. /\ w.paid = x.paid
        /\ w.due = x.due - LET left == Larger(0, t - after) IN
                           IF left > 0 THEN Smaller(left, x.due - x.paid) ELSE 0
        /\ w.paid <= w.due
        /\ w.status = "PAID" => w.paid >= w.due
        /\ Larger(0, a - Grain[s] * after) >= Grain[s] * (x.due - x.paid) => w.status = "PAID"
        /\ w.status # "PAID" /\ w.paid >= w.due => ~ \E n \in Int : a = Grain[s] * n
    <3>1. t \in Int
      BY <1>3
    <3> HIDE DEF x, a, t, after
    <3> QED BY <1>1, <1>3, <1>4, <2>2, <3>1, CutParts
  <2>4. WholeCents(s, Worth(s, r.goods)) => \E n \in Int : a = Grain[s] * n
    BY OffsetTyped
  <2> HIDE DEF x, y, z, a, t, after, cut, red, w
  <2> QED BY <1>1, <1>2, <1>5, <1>7, <1>8, <1>9, <2>1, <2>3, <2>4
          DEF x, y, z, a, t, after, cut, red, w
<1>10. CASE ~(a > 0 /\ rest > 0)
  <2>1. z = y
    BY <1>6, <1>10
  <2>2. off \in Nat
    BY <1>4, GrainTyped, TimesNat
  <2>3. a <= off
    <3>1. rest = Larger(0, a - off)
      BY <1>5
    <3> HIDE DEF a, off, rest
    <3> QED BY <1>3, <1>10, <2>2, <3>1 DEF Larger
  <2>4. t <= after
    <3>1. Taken(s, off, after) /\ after \in Int /\ t \in Int /\ a \in Int /\ off \in Int
      BY <1>3, <1>4, <2>2, TakenWhole
    <3> HIDE DEF a, t, off, after
    <3> QED BY <1>3, <2>3, <3>1, TakenGrows
  <2>5. cut = 0
    <3> HIDE DEF t, after, cut
    <3>1. ~(Larger(0, t - after) > 0)
      BY <1>3, <1>4, <2>4 DEF Larger
    <3> QED BY <1>8, <3>1
  <2>6. y.due - cut = y.due
    <3> HIDE DEF y, cut
    <3> QED BY <1>1, <2>5 DEF InstallmentRow
  <2> HIDE DEF y, z
  <2> QED BY <1>1, <1>7, <1>10, <2>1, <2>6 DEF y, z
<1> QED BY <1>9, <1>10

\* The installments after one that the refund does not pay off are paid off.
LEMMA LaterPaidOff ==
    ASSUME NEW s \in Sales, NEW r, r.sale = s, r.seen \in Row(s), r.goods \in Goods,
           Offset(r) \in Nat, NEW i \in DOMAIN Plan[s], NEW j \in DOMAIN Plan[s], j > i,
           RestAt(s, r, i) > 0
    PROVE  RestAt(s, r, j) > 0 /\ RestAt(s, r, j) >= Grain[s] * Owed(r.seen, j)
<1> DEFINE P == (i + 1)..Len(Plan[s])
           Q == (j + 1)..Len(Plan[s])
           m == OwedIn(r.seen, P)
           n == OwedIn(r.seen, Q)
           w == Owed(r.seen, j)
           g == Grain[s]
           a == Offset(r)
           gm == g * m
           gn == g * n
           gw == g * w
<1>1. P \in SUBSET DOMAIN Plan[s] /\ j \in P /\ Q \in SUBSET (P \ {j})
      /\ P \ {j} \in SUBSET DOMAIN Plan[s] /\ Q \in SUBSET DOMAIN Plan[s]
  BY LaterInstallments
<1> HIDE DEF P, Q
<1>2. m \in Nat /\ n \in Nat /\ OwedIn(r.seen, P \ {j}) \in Nat
  BY <1>1, OwedInTyped
<1>3. n <= OwedIn(r.seen, P \ {j}) /\ m = w + OwedIn(r.seen, P \ {j})
  BY <1>1, OwedInTyped
<1>4. w \in Nat
  BY RowParts, OwedParts
<1> DEFINE k == OwedIn(r.seen, P \ {j})
<1>5. w + n <= m /\ w + n \in Nat
  <2> HIDE DEF m, n, w, k
  <2>1. n <= k /\ m = w + k /\ k \in Nat
    BY <1>2, <1>3 DEF k
  <2> QED BY <1>2, <1>4, <2>1
<1>6. /\ gm \in Nat /\ gn \in Nat /\ gw \in Nat
      /\ g * (w + n) = gw + gn /\ g * (w + n) <= gm
  BY <1>2, <1>4, <1>5, GrainTyped, TimesNat, TimesInt, TimesGrows
<1>7. RestAt(s, r, i) = Larger(0, a - gm) /\ RestAt(s, r, j) = Larger(0, a - gn)
  BY DEF RestAt, P, Q
<1> HIDE DEF a, gm, gn, gw
<1>8. a \in Nat
  BY DEF a
<1>9. a - gm > 0
  BY <1>6, <1>7, <1>8 DEF Larger
<1>10. gw + gn <= gm
  BY <1>6
<1>11. a - gn > 0 /\ a - gn >= gw
  BY <1>6, <1>8, <1>9, <1>10
<1>12. RestAt(s, r, j) > 0 /\ RestAt(s, r, j) >= gw
  BY <1>6, <1>7, <1>8, <1>11 DEF Larger
<1> QED BY <1>12 DEF gw, w

LEMMA ReturnedSound ==
    ASSUME NEW s \in Sales, NEW row \in Row(s), NEW r, r.sale = s, r.seen \in Row(s),
           r.goods \in Goods, Figures(r.seen) = Figures(row),
           RowSound(s, row), RowSound(s, r.seen), OnCredit(s)
    PROVE  /\ RowSound(s, ReturnedRow(s, row, r))
           /\ WholeCents(s, Worth(s, r.goods)) =>
                 Unsettled(ReturnedRow(s, row, r)) \subseteq Unsettled(row)
<1> DEFINE new == ReturnedRow(s, row, r)
           S == DOMAIN Plan[s]
           n == Len(Plan[s])
           a == Offset(r)
           t == CentsOff(s, row, r)
           o == row.outstanding
           cut(i) == Reduction(r.seen, t, i, n)
           g == [i \in S |-> cut(i)]
           all == OwedIn(r.seen, S)
           touched(i) == SetsOff(s, r) /\ RestAt(s, r, i) > 0
<1>1. /\ new \in Row(s)
      /\ new.agreement = ReturnedAgreement(s, row, r)
  BY ReturnedParts
<1>2. /\ o = r.seen.outstanding /\ row.balanceDue = r.seen.balanceDue
      /\ \A i \in S : /\ r.seen.installments[i].due = row.installments[i].due
                      /\ r.seen.installments[i].paid = row.installments[i].paid
  BY FiguresSame
<1>3. o \in Nat /\ row.balanceDue = o
  BY RowParts DEF RowSound
<1>4. /\ a \in Nat /\ a <= Grain[s] * o /\ Grain[s] * o \in Nat /\ t \in Nat /\ t <= o
      /\ Taken(s, a, t)
      /\ new.balanceDue = o - t /\ new.outstanding = o - t
      /\ LeftOf(s, r) = Grain[s] * o - a
  BY <1>3, ReturnedCents
<1>5. /\ \A i \in S : cut(i) \in Nat /\ cut(i) <= Owed(r.seen, i)
      /\ SumFunction(g) = IF t < all THEN t ELSE all
  <2> HIDE DEF t
  <2> QED BY <1>4, ReductionParts
<1>6. \A i \in S : r.seen.installments[i].paid <= r.seen.installments[i].due
  BY DEF RowSound
<1>7. DueIn(r.seen) = all /\ DueIn(r.seen) = DueIn(row) /\ DueIn(row) \in Int
  BY <1>2, <1>6, DueIsOwed, DueSame, DueTyped
<1>8. \A i \in S :
         /\ new.installments[i].paid = row.installments[i].paid
         /\ new.installments[i].due = row.installments[i].due - cut(i)
         /\ new.installments[i].paid <= new.installments[i].due
         /\ new.installments[i].status = "PAID" =>
               new.installments[i].paid >= new.installments[i].due
         /\ ~touched(i) => new.installments[i] = row.installments[i]
         /\ touched(i) /\ RestAt(s, r, i) >= Grain[s] * Owed(r.seen, i) =>
               new.installments[i].status = "PAID"
         /\ touched(i) /\ new.installments[i].status # "PAID"
            /\ new.installments[i].paid >= new.installments[i].due =>
               ~WholeCents(s, Worth(s, r.goods))
  BY ReturnedInstallment
<1> HIDE DEF new
<1>9. DueIn(row) = DueIn(new) + SumFunctionOnSet(g, S) /\ DueIn(new) \in Int
  <2>1. ASSUME NEW i \in S
        PROVE  /\ g[i] \in Nat
               /\ new.installments[i].due - new.installments[i].paid
                     = row.installments[i].due - row.installments[i].paid - g[i]
    <3>1. g[i] = cut(i) /\ cut(i) \in Nat
      BY <1>5
    <3>2. row.installments[i].due \in Nat /\ row.installments[i].paid \in Nat
      BY RowParts
    <3> HIDE DEF g, cut
    <3> QED BY <1>8, <3>1, <3>2
  <2>2. new \in Row(s)
    BY <1>1
  <2> HIDE DEF g, S
  <2>3. DueIn(row) = DueIn(new) + SumFunctionOnSet(g, DOMAIN Plan[s])
    BY <2>1, <2>2, DueDrops DEF S
  <2> QED BY <2>2, <2>3, DueTyped DEF S
<1>10. SumFunction(g) = SumFunctionOnSet(g, S)
  BY DEF SumFunction
<1> DEFINE D == DueIn(row)
           E == DueIn(new)
           N == new.outstanding
<1>11. D - o \in -1..1
  BY DEF RowSound, Cent
<1>12. E = D - (IF t < D THEN t ELSE D) /\ D \in Int
  <2> HIDE DEF g, S, all, t
  <2> QED BY <1>4, <1>5, <1>7, <1>9, <1>10
<1>13. E - N \in -1..1
  <2>1. N = o - t /\ o \in Nat /\ t \in Nat /\ t <= o
    BY <1>3, <1>4
  <2> HIDE DEF D, E, o, N, all, S, t
  <2> QED BY <1>11, <1>12, <2>1
<1>14. /\ new.outstanding = 0 /\ Balance[s] > 0 => new.agreement = "PAID"
       /\ new.agreement = "PAID" => new.outstanding <= 1
  <2>1. CASE a > 0
    <3> DEFINE x == Grain[s] * o
               left == x - a
    <3>1. new.agreement = IF left <= Grain[s] * 1 THEN "PAID" ELSE r.seen.agreement
      <4>1. LeftOf(s, r) = left /\ SetsOff(s, r)
        BY <1>4, <2>1 DEF SetsOff
      <4>2. Cent = 1
        BY DEF Cent
      <4> HIDE DEF left
      <4> QED BY <1>1, <4>1, <4>2 DEF ReturnedAgreement
    <3>2. left \in Nat /\ new.outstanding = Stored(s, left) /\ new.outstanding \in Nat
      <4>1. left \in Nat
        <5>1. a \in Nat /\ x \in Nat /\ a <= x
          BY <1>4
        <5> HIDE DEF x, a
        <5> QED BY <5>1
      <4>2. o - t = Stored(s, left)
        <5> DEFINE k == Stored(s, left)
        <5>1. t = o - k /\ k \in Nat
          <6>1. t = o - k
            BY DEF CentsOff
          <6> HIDE DEF left
          <6> QED BY <4>1, <6>1, StoredNat
        <5> HIDE DEF k, t, o
        <5>2. o - t = k
          BY <1>3, <5>1
        <5> QED BY <5>2 DEF k
      <4> HIDE DEF left
      <4> QED BY <1>4, <4>1, <4>2, StoredNat
    <3> HIDE DEF left
    <3>3. left <= Grain[s] * 1 => new.outstanding <= 1
      <4> DEFINE p == Grain[s] * new.outstanding
                 gr == Grain[s]
      <4>1. /\ p \in Nat /\ gr \in Nat \ {0} /\ gr * 1 = gr
            /\ new.outstanding > 1 => gr * 1 + gr <= p
        BY <3>2, GrainTyped, TimesNat, TimesGrows
      <4>2. 2 * (p - left) <= gr
        BY <3>2, StoredNat
      <4> HIDE DEF p, gr
      <4>3. left <= gr => ~(new.outstanding > 1)
        BY <3>2, <4>1, <4>2
      <4> QED BY <3>2, <4>1, <4>3 DEF gr
    <3>4. new.outstanding = 0 => left <= Grain[s] * 1
      <4> DEFINE gr == Grain[s]
      <4>1. gr \in Nat \ {0} /\ gr * 1 = gr /\ gr * 0 = 0
        BY GrainTyped
      <4>2. new.outstanding = 0 => -gr < 2 * (gr * 0 - left)
        BY <3>2, StoredNat
      <4> HIDE DEF gr
      <4>3. new.outstanding = 0 => left <= gr
        BY <3>2, <4>1, <4>2
      <4> QED BY <4>1, <4>3 DEF gr
    <3>5. r.seen.agreement = "PAID" => new.outstanding <= 1
      <4>1. r.seen.agreement = "PAID" => o <= 1
        BY <1>2 DEF RowSound, Cent
      <4> HIDE DEF o, t
      <4> QED BY <1>3, <1>4, <4>1
    <3> QED BY <3>1, <3>3, <3>4, <3>5
  <2>2. CASE ~(a > 0)
    <3>1. new.agreement = row.agreement
      BY <1>1, <2>2 DEF ReturnedAgreement, SetsOff
    <3>2. new.outstanding = row.outstanding
      BY <2>2, ReturnedParts DEF ReturnedOutstanding, SetsOff, new
    <3> QED BY <3>1, <3>2 DEF RowSound, Cent
  <2> QED BY <2>1, <2>2
<1>15. ASSUME NEW i \in S, i \in Unsettled(new), ~touched(i)
       PROVE  i \in Unsettled(row)
  <2>1. new.installments[i] = row.installments[i]
    BY <1>8, <1>15
  <2> QED BY <1>1, <1>15, <2>1, UnsettledParts
<1>16. ASSUME NEW i \in S, i \in Unsettled(new), touched(i)
       PROVE  ~WholeCents(s, Worth(s, r.goods))
  BY <1>1, <1>8, <1>16, UnsettledParts
<1>17. ASSUME NEW i \in S, i \in Unsettled(new), NEW j \in S, j > i
       PROVE  /\ new.installments[j].paid >= new.installments[j].due
              /\ new.installments[j].status = "PAID"
  <2>1. new.installments[j].status = "PAID"
    <3>1. CASE touched(i)
      <4>1. touched(j) /\ RestAt(s, r, j) >= Grain[s] * Owed(r.seen, j)
        BY <1>4, <1>17, <3>1, LaterPaidOff
      <4> QED BY <1>8, <4>1
    <3>2. CASE ~touched(i)
      <4>1. row.installments[j].paid >= row.installments[j].due
            /\ row.installments[j].status = "PAID"
        BY <1>15, <1>17, <3>2 DEF RowSound
      <4>2. CASE ~touched(j)
        BY <1>8, <4>1, <4>2
      <4>3. CASE touched(j)
        <5>1. Owed(r.seen, j) = 0
          <6>1. r.seen.installments[j].due = row.installments[j].due
                /\ r.seen.installments[j].paid = row.installments[j].paid
            BY <1>2
          <6>2. r.seen.installments[j].due \in Nat /\ r.seen.installments[j].paid \in Nat
            BY RowParts
          <6>3. r.seen.installments[j].paid >= r.seen.installments[j].due
            BY <4>1, <6>1
          <6>4. DOMAIN r.seen.installments = DOMAIN Plan[s]
            BY RowParts
          <6> QED BY <6>2, <6>3 DEF Owed, Larger
        <5>2. Grain[s] * Owed(r.seen, j) = 0
          BY <5>1, GrainTyped
        <5>3. RestAt(s, r, j) \in Nat
          BY <4>3, ReductionTyped
        <5>4. RestAt(s, r, j) >= Grain[s] * Owed(r.seen, j)
          BY <5>2, <5>3
        <5> QED BY <1>8, <4>3, <5>4
      <4> QED BY <4>2, <4>3
    <3> QED BY <3>1, <3>2
  <2> QED BY <1>8, <2>1
<1>18. \A i \in Unsettled(new) : i \in S
  BY <1>1, UnsettledParts
<1>19. RowSound(s, new)
  BY <1>4, <1>8, <1>13, <1>14, <1>17, <1>18 DEF RowSound, Cent
<1>20. WholeCents(s, Worth(s, r.goods)) => Unsettled(new) \subseteq Unsettled(row)
  BY <1>15, <1>16, <1>18
<1> QED BY <1>19, <1>20 DEF new

-----------------------------------------------------------------------------
(* What is true of every sale and of every request.                        *)

\* What a request to return goods found and counted, as the sale's row is now.
CountOK(r, row) ==
    /\ r.op \in {"return", "counted"} =>
          \A l \in Lines :
             /\ r.goods[l] > 0 => r.goods[l] <= Quantity[r.sale][l] - r.seen.returned[l]
             /\ r.seen.returned[l] <= row.returned[l]
    /\ r.op = "counted" =>
          /\ r.full => FullyReturned(r.sale, Together(row.returned, r.goods))
          /\ r.seen.returned = row.returned /\ FullyReturned(r.sale, Together(row.returned, r.goods))
                => r.full

RequestInv(c) ==
    /\ CountOK(request[c], ledger[request[c].sale])
    /\ request[c].op = "repay" => OnCredit(request[c].sale)
    /\ request[c] # Idle /\ request[c].sale \notin clashed /\ OnCredit(request[c].sale) =>
          RowSound(request[c].sale, request[c].seen)

\* A line is returned once, and all lines only when the sale is refunded.
Orderly(s, row) ==
    /\ \A l \in Lines : row.returned[l] <= Quantity[s][l]
    /\ (\A l \in Lines : row.returned[l] >= Quantity[s][l]) => row.status = "REFUNDED"

RefundedTrue(s, row) ==
    row.status = "REFUNDED" => SumFunction(row.returned) >= SumFunction(Quantity[s])

\* The balance of a credit sale is what its history makes.
BalanceTrue(s) ==
    Within(s, uneven[s], Grain[s] * ledger[s].outstanding,
           Larger(0, Grain[s] * (Balance[s] - repaid[s]) - offset[s]))

PaidTotalTrue(s) ==
    Within(s, uneven[s], Grain[s] * ledger[s].paidTotal,
           Grain[s] * (Tendered[s] + repaid[s]) - CashBack(s))

\* Only a refund leaves an installment unpaid that owes nothing.
SettledTrue(s) == Unsettled(ledger[s]) # {} => uneven[s] > 0 \/ Balance[s] = 0

SaleInv(s) ==
    /\ PaidTotalTrue(s)
    /\ RefundedTrue(s, ledger[s])
    /\ ~OnCredit(s) => ledger[s].agreement = "NONE"
    /\ s \notin clashed => Orderly(s, ledger[s])
    /\ s \notin clashed /\ OnCredit(s) =>
          RowSound(s, ledger[s]) /\ BalanceTrue(s) /\ SettledTrue(s)

LedgerInv ==
    /\ TypeOK
    /\ \A s \in Sales : SaleInv(s)
    /\ \A c \in Clerks : RequestInv(c)

\* A refund that is stored as cents adds half a cent to the difference, or nothing
\* when all are whole cents.
LEMMA RoundedOnce ==
    ASSUME NEW s \in Sales, NEW h \in Nat, NEW x \in Int, NEW y \in Int, NEW c \in Int,
           Within(s, h, x, y)
    PROVE  /\ Within(s, h + 1, Grain[s] * Stored(s, x - c), y - c)
           /\ (\E n \in Int : x = Grain[s] * n) /\ (\E n \in Int : c = Grain[s] * n) =>
                 Within(s, h, Grain[s] * Stored(s, x - c), y - c)
<1> DEFINE g == Grain[s]
           n == Stored(s, x - c)
           p == g * n
           gh == g * h
<1>1. g \in Nat /\ n \in Int /\ 2 * (p - (x - c)) \in -g..g
  BY GrainTyped, StoredNearest DEF Nearest
<1>2. p \in Int /\ gh \in Nat /\ g * (h + 1) = gh + g /\ g * (h + 1) \in Nat
  <2> HIDE DEF n
  <2>1. g * (h + 1) = gh + g * 1 /\ g * 1 = g
    BY <1>1, TimesInt
  <2> QED BY <1>1, <2>1, TimesInt, TimesNat
<1>3. 2 * (x - y) \in -gh..gh
  BY DEF Within
<1>4. 2 * (p - (y - c)) \in -(gh + g)..(gh + g)
  <2> HIDE DEF g, p, gh
  <2> QED BY <1>1, <1>2, <1>3
<1>5. ASSUME NEW i \in Int, x = g * i, NEW j \in Int, c = g * j
      PROVE  2 * (p - (y - c)) \in -gh..gh
  <2>1. x - c = g * (i - j) /\ i - j \in Int
    BY <1>1, <1>5, TimesInt
  <2>2. n = i - j
    BY <2>1, StoredWhole
  <2>3. p = x - c
    BY <2>1, <2>2
  <2> HIDE DEF g, p, gh
  <2>4. 2 * ((x - c) - (y - c)) = 2 * (x - y)
    OBVIOUS
  <2> QED BY <1>3, <2>3, <2>4
<1>6. Within(s, h + 1, p, y - c)
  BY <1>2, <1>4 DEF Within
<1>7. (\E i \in Int : x = g * i) /\ (\E i \in Int : c = g * i) => Within(s, h, p, y - c)
  BY <1>5 DEF Within
<1> QED BY <1>6, <1>7

\* Both amounts drop by as much, as far as to nothing.
LEMMA WithinDrops ==
    ASSUME NEW s \in Sales, NEW h \in Nat, NEW x \in Nat, NEW y \in Int, NEW c \in Nat,
           Within(s, h, x, Larger(0, y))
    PROVE  Within(s, h, Larger(0, x - c), Larger(0, y - c))
<1> DEFINE gh == Grain[s] * h
           u == Larger(0, x - c)
           v == Larger(0, y - c)
           w == Larger(0, y)
<1>1. gh \in Nat
  BY GrainTyped, TimesNat
<1>2. 2 * (x - w) \in -gh..gh
  BY DEF Within
<1>3. /\ u = IF x >= c THEN x - c ELSE 0
      /\ v = IF y >= c THEN y - c ELSE 0
      /\ w = IF y >= 0 THEN y ELSE 0
  BY DEF Larger
<1> HIDE DEF gh, u, v, w
<1>4. 2 * (u - v) \in -gh..gh
  <2>1. CASE y >= c
    BY <1>1, <1>2, <1>3, <2>1
  <2>2. CASE y < c
    BY <1>1, <1>2, <1>3, <2>2
  <2> QED BY <2>1, <2>2
<1> QED BY <1>4 DEF Within, gh, u, v

LEMMA InitInv == Init => LedgerInv
<1> SUFFICES ASSUME Init PROVE LedgerInv
  OBVIOUS
<1>1. TypeOK
  BY InitTyped
<1>2. ASSUME NEW s \in Sales PROVE SaleInv(s)
  <2> DEFINE row == ledger[s]
             none == [l \in Lines |-> 0]
  <2>1. /\ row = NewSale(s) /\ row \in Row(s) /\ repaid[s] = 0 /\ offset[s] = 0
        /\ uneven[s] = 0
    BY <1>1 DEF Init, TypeOK
  <2>2. /\ row.paidTotal = Tendered[s] /\ row.status = "COMPLETED" /\ row.returned = none
        /\ row.balanceDue = Balance[s]
        /\ OnCredit(s) => row.outstanding = Balance[s] /\ row.agreement = "ACTIVE"
        /\ ~OnCredit(s) => row.agreement = "NONE"
        /\ \A i \in DOMAIN Plan[s] :
              row.installments[i] = [due |-> Plan[s][i], paid |-> 0, status |-> "PENDING"]
    BY <2>1 DEF NewSale
  <2> HIDE DEF row
  <2>0. \A i \in DOMAIN Plan[s] :
           /\ row.installments[i].due = Plan[s][i] /\ row.installments[i].paid = 0
           /\ row.installments[i].status = "PENDING"
           /\ Plan[s][i] \in Nat
    <3> TAKE i \in DOMAIN Plan[s]
    <3>1. row.installments[i] = [due |-> Plan[s][i], paid |-> 0, status |-> "PENDING"]
      BY <2>2
    <3> QED BY <3>1, PlanDomain
  <2>3. Worth(s, none) = 0
    <3> DEFINE f == [l \in Lines |-> Price[s][l] * none[l]]
    <3>1. \A l \in Lines : f[l] = 0
      BY LedgerAssumption DEF Goods
    <3>2. Worth(s, none) = SumFunctionOnSet(f, Lines)
      BY DEF Worth, SumFunction
    <3> HIDE DEF f
    <3> QED BY <3>1, <3>2, SumZero, LedgerAssumption
  <2>7. Grain[s] * 0 = 0 /\ Grain[s] \in Nat
    BY GrainTyped
  <2>4. PaidTotalTrue(s)
    <3> DEFINE x == Grain[s] * Tendered[s]
    <3>1. x \in Nat
      BY GrainTyped, TimesNat, LedgerAssumption
    <3>2. CashBack(s) = 0 /\ Tendered[s] + repaid[s] = Tendered[s]
      BY <2>1, <2>2, <2>3, LedgerAssumption DEF CashBack, row
    <3>3. Grain[s] * ledger[s].paidTotal = x
      BY <2>2 DEF row
    <3>4. Grain[s] * (Tendered[s] + repaid[s]) - CashBack(s) = x
      <4>1. Grain[s] * (Tendered[s] + repaid[s]) = x
        BY <3>2
      <4> HIDE DEF x
      <4> QED BY <3>1, <3>2, <4>1
    <3>5. 2 * (x - x) \in -0..0
      <4> HIDE DEF x
      <4> QED BY <3>1
    <3> HIDE DEF x
    <3> QED BY <2>1, <2>7, <3>3, <3>4, <3>5 DEF PaidTotalTrue, Within
  <2>5. Orderly(s, row)
    <3>1. \A l \in Lines : Quantity[s][l] \in Nat /\ row.returned[l] = 0
      BY <2>2, LedgerAssumption DEF Goods
    <3>2. PICK l \in Lines : Quantity[s][l] > 0
      BY LedgerAssumption
    <3>3. ~(row.returned[l] >= Quantity[s][l])
      BY <3>1, <3>2
    <3> QED BY <3>1, <3>3 DEF Orderly
  <2>6. ASSUME OnCredit(s) PROVE RowSound(s, row) /\ BalanceTrue(s) /\ SettledTrue(s)
    <3>1. /\ Balance[s] >= 0 /\ Balance[s] \in Int
          /\ SumFunction(Plan[s]) - Balance[s] \in -Cent..Cent
          /\ \/ \A i \in DOMAIN Plan[s] : Plan[s][i] > 0
             \/ Plan[s] = <<0>> /\ Balance[s] = 0
      BY <2>6, PlanAssumption, LedgerAssumption
    <3>2. DueIn(row) = SumFunction(Plan[s])
      <4> DEFINE f == [i \in DOMAIN Plan[s] |->
                          row.installments[i].due - row.installments[i].paid]
      <4>1. DueIn(row) = SumFunctionOnSet(f, DOMAIN Plan[s])
        BY <2>1, DueTyped DEF row
      <4>2. \A i \in DOMAIN Plan[s] : f[i] = Plan[s][i]
        <5> TAKE i \in DOMAIN Plan[s]
        <5>1. f[i] = row.installments[i].due - row.installments[i].paid
          OBVIOUS
        <5> HIDE DEF f
        <5> QED BY <2>0, <5>1
      <4> HIDE DEF f
      <4> QED BY <4>1, <4>2, PlanDomain, SumAgrees DEF SumFunction
    <3>3. \A i \in DOMAIN Plan[s] :
             /\ row.installments[i].paid <= row.installments[i].due
             /\ row.installments[i].status # "PAID"
      BY <2>0
    <3>4. Unsettled(row) # {} => Plan[s] = <<0>> /\ Balance[s] = 0
      <4> SUFFICES ASSUME NEW i \in Unsettled(row)
                   PROVE  Plan[s] = <<0>> /\ Balance[s] = 0
        OBVIOUS
      <4>1. i \in DOMAIN Plan[s] /\ row.installments[i].paid >= row.installments[i].due
        BY <2>1, UnsettledParts DEF row
      <4>2. ~(Plan[s][i] > 0)
        BY <2>0, <4>1
      <4> QED BY <3>1, <4>1, <4>2
    <3>5. \A i \in Unsettled(row), j \in DOMAIN Plan[s] : ~(j > i)
      <4> SUFFICES ASSUME NEW i \in Unsettled(row), NEW j \in DOMAIN Plan[s]
                   PROVE  ~(j > i)
        OBVIOUS
      <4>1. i \in DOMAIN Plan[s]
        BY <2>1, UnsettledParts DEF row
      <4>2. DOMAIN Plan[s] = {1}
        <5>1. Plan[s] = <<0>>
          BY <3>4
        <5>2. Len(<<0>>) = 1 /\ DOMAIN <<0>> = 1..1
          OBVIOUS
        <5> QED BY <5>1, <5>2
      <4> QED BY <4>1, <4>2
    <3>6. RowSound(s, row)
      BY <2>2, <2>6, <3>1, <3>2, <3>3, <3>5 DEF RowSound
    <3>7. BalanceTrue(s)
      <4> DEFINE x == Grain[s] * Balance[s]
      <4>1. x \in Nat
        BY <3>1, <2>7, TimesNat
      <4>2. Balance[s] - repaid[s] = Balance[s]
        BY <2>1, <3>1
      <4>3. Larger(0, x - offset[s]) = x
        <5> HIDE DEF x
        <5> QED BY <2>1, <4>1 DEF Larger
      <4>4. 2 * (x - x) \in -0..0
        <5> HIDE DEF x
        <5> QED BY <4>1
      <4>5. ledger[s].outstanding = Balance[s]
        BY <2>2, <2>6 DEF row
      <4>6. Grain[s] * uneven[s] = 0
        BY <2>1, <2>7
      <4> QED BY <4>2, <4>3, <4>4, <4>5, <4>6 DEF BalanceTrue, Within
    <3> QED BY <3>4, <3>6, <3>7 DEF SettledTrue, row
  <2> QED BY <2>2, <2>4, <2>5, <2>6 DEF SaleInv, RefundedTrue, row
<1>3. \A c \in Clerks : RequestInv(c)
  BY DEF Init, RequestInv, CountOK, Idle
<1> QED BY <1>1, <1>2, <1>3 DEF LedgerInv

\* A sale that nothing was written to, but that it is late.
LEMMA SaleKept ==
    ASSUME TypeOK, NEW s \in Sales, SaleInv(s), clashed \subseteq clashed',
           ledger'[s] \in {ledger[s], MarkOverdue(ledger[s])},
           repaid'[s] = repaid[s], offset'[s] = offset[s], uneven'[s] = uneven[s]
    PROVE  SaleInv(s)'
<1> DEFINE row == ledger[s]
           new == ledger'[s]
<1>1. row \in Row(s)
  BY DEF TypeOK
<1>2. /\ new.status = row.status /\ new.paidTotal = row.paidTotal
      /\ new.balanceDue = row.balanceDue /\ new.returned = row.returned
      /\ new.outstanding = row.outstanding
      /\ row.agreement = "NONE" => new.agreement = "NONE"
  BY <1>1, MarkOverdueParts
<1>3. s \notin clashed' /\ OnCredit(s) => RowSound(s, new) /\ Unsettled(new) = Unsettled(row)
  BY <1>1, MarkedSound DEF SaleInv
<1> HIDE DEF row, new
<1>4. CashBack(s)' = CashBack(s)
  BY <1>2 DEF CashBack, row, new
<1>5. PaidTotalTrue(s)'
  BY <1>2, <1>4 DEF SaleInv, PaidTotalTrue, row, new
<1>6. RefundedTrue(s, new) /\ (s \notin clashed' => Orderly(s, new))
  BY <1>2 DEF SaleInv, RefundedTrue, Orderly, row
<1>7. s \notin clashed' /\ OnCredit(s) => BalanceTrue(s)' /\ SettledTrue(s)'
  BY <1>2, <1>3 DEF SaleInv, BalanceTrue, SettledTrue, row, new
<1>8. ~OnCredit(s) => new.agreement = "NONE"
  BY <1>2 DEF SaleInv, row
<1> QED BY <1>3, <1>5, <1>6, <1>7, <1>8 DEF SaleInv, new

\* A request that is still open when goods have come back, or nothing has.
LEMMA RequestKept ==
    ASSUME TypeOK, NEW c \in Clerks, RequestInv(c), request'[c] = request[c],
           clashed \subseteq clashed',
           \A s \in Sales : /\ ledger'[s] \in Row(s)
                            /\ \A l \in Lines : ledger[s].returned[l] <= ledger'[s].returned[l]
    PROVE  RequestInv(c)'
<1> DEFINE r == request[c]
           s == r.sale
           x == ledger[s].returned
           y == ledger'[s].returned
<1>1. r.op \in {"return", "counted"} => ReturnRequestOK(r)
  BY RequestParts
<1>2. RowSound(s, r.seen) \/ ~(r # Idle /\ s \notin clashed' /\ OnCredit(s))
  BY DEF RequestInv
<1>3. ASSUME r.op \in {"return", "counted"}
      PROVE  CountOK(r, ledger'[s])
  <2>1. /\ s \in Sales /\ r.goods \in Goods /\ x \in Goods /\ y \in Goods
        /\ r.seen.returned \in Goods
    BY <1>1, <1>3, RowParts DEF ReturnRequestOK, TypeOK
  <2>2. \A l \in Lines : /\ x[l] \in Nat /\ y[l] \in Nat /\ r.goods[l] \in Nat
                         /\ r.seen.returned[l] \in Nat /\ x[l] <= y[l]
    BY <2>1 DEF Goods
  <2>3. \A l \in Lines :
           /\ r.goods[l] > 0 => r.goods[l] <= Quantity[s][l] - r.seen.returned[l]
           /\ r.seen.returned[l] <= x[l]
    BY <1>3 DEF RequestInv, CountOK
  <2>4. ASSUME r.op = "counted"
        PROVE  /\ r.full => FullyReturned(s, Together(y, r.goods))
               /\ r.seen.returned = y /\ FullyReturned(s, Together(y, r.goods)) => r.full
    <3>1. /\ r.full => FullyReturned(s, Together(x, r.goods))
          /\ r.seen.returned = x /\ FullyReturned(s, Together(x, r.goods)) => r.full
      BY <2>4 DEF RequestInv, CountOK
    <3>2. Together(x, r.goods) \in Goods /\ Together(y, r.goods) \in Goods
      BY <2>1, TogetherTyped
    <3>3. SumFunction(Together(x, r.goods)) <= SumFunction(Together(y, r.goods))
      <4>1. \A l \in Lines : Together(x, r.goods)[l] <= Together(y, r.goods)[l]
        BY <2>2 DEF Together
      <4> QED BY <3>2, <4>1, CountGrows
    <3>4. FullyReturned(s, Together(x, r.goods)) => FullyReturned(s, Together(y, r.goods))
      <4>1. /\ SumFunction(Together(x, r.goods)) \in Nat
            /\ SumFunction(Together(y, r.goods)) \in Nat
            /\ SumFunction(Quantity[s]) \in Nat
        BY <2>1, <3>2, CountTyped, LedgerAssumption
      <4> QED BY <3>3, <4>1 DEF FullyReturned
    <3>5. r.seen.returned = y => x = y
      <4> SUFFICES ASSUME r.seen.returned = y PROVE x = y
        OBVIOUS
      <4>1. \A l \in Lines : x[l] = y[l]
        BY <2>2, <2>3
      <4> HIDE DEF x, y
      <4> QED BY <2>1, <4>1 DEF Goods
    <3> QED BY <3>1, <3>4, <3>5
  <2>5. \A l \in Lines : r.seen.returned[l] <= y[l]
    BY <2>2, <2>3
  <2> QED BY <2>3, <2>4, <2>5 DEF CountOK
<1>4. CountOK(r, ledger'[s])
  BY <1>3 DEF CountOK
<1>5. r.op = "repay" => OnCredit(s)
  BY DEF RequestInv
<1> QED BY <1>2, <1>4, <1>5 DEF RequestInv

\* Nothing came back: every request and every sale but s is as it was.
LEMMA OthersKept ==
    ASSUME LedgerInv, TypeOK', NEW s \in Sales, NEW c \in Clerks, clashed \subseteq clashed',
           \A q \in Sales \ {s} : /\ ledger'[q] = ledger[q] /\ repaid'[q] = repaid[q]
                                  /\ offset'[q] = offset[q] /\ uneven'[q] = uneven[q],
           \A l \in Lines : ledger[s].returned[l] <= ledger'[s].returned[l],
           \A d \in Clerks \ {c} : request'[d] = request[d],
           SaleInv(s)', RequestInv(c)'
    PROVE  LedgerInv'
<1>1. TypeOK
  BY DEF LedgerInv
<1>2. \A q \in Sales : /\ ledger'[q] \in Row(q)
                       /\ \A l \in Lines : ledger[q].returned[l] <= ledger'[q].returned[l]
  <2> TAKE q \in Sales
  <2>1. ledger'[q] \in Row(q) /\ ledger[q] \in Row(q)
    BY <1>1 DEF TypeOK
  <2>2. \A l \in Lines : ledger[q].returned[l] \in Nat
    BY <2>1, RowParts DEF Goods
  <2>3. CASE q = s
    BY <2>1, <2>3
  <2>4. CASE q # s
    <3>1. ledger'[q] = ledger[q]
      BY <2>4
    <3>2. \A l \in Lines : ledger[q].returned[l] <= ledger[q].returned[l]
      BY <2>2
    <3> QED BY <2>1, <3>1, <3>2
  <2> QED BY <2>3, <2>4
<1>3. \A q \in Sales : SaleInv(q)'
  <2> SUFFICES ASSUME NEW q \in Sales, q # s PROVE SaleInv(q)'
    OBVIOUS
  <2>1. SaleInv(q) /\ ledger'[q] \in {ledger[q], MarkOverdue(ledger[q])}
        /\ repaid'[q] = repaid[q] /\ offset'[q] = offset[q] /\ uneven'[q] = uneven[q]
    BY DEF LedgerInv
  <2> QED BY <1>1, <2>1, SaleKept
<1>4. \A d \in Clerks : RequestInv(d)'
  <2> SUFFICES ASSUME NEW d \in Clerks, d # c PROVE RequestInv(d)'
    OBVIOUS
  <2>1. RequestInv(d) /\ request'[d] = request[d]
    BY DEF LedgerInv
  <2> QED BY <1>1, <1>2, <2>1, RequestKept
<1> QED BY <1>3, <1>4 DEF LedgerInv

LEMMA IdleInv ==
    ASSUME NEW c \in Clerks, request'[c] = Idle
    PROVE  RequestInv(c)'
BY DEF RequestInv, CountOK, Idle

\* Goods never unreturned: the order of Lines is that of the numbers.
LEMMA SameReturned ==
    ASSUME TypeOK, NEW s \in Sales, ledger'[s].returned = ledger[s].returned
    PROVE  \A l \in Lines : ledger[s].returned[l] <= ledger'[s].returned[l]
<1>1. \A l \in Lines : ledger[s].returned[l] \in Nat
  BY RowParts DEF TypeOK, Goods
<1> QED BY <1>1

LEMMA BeginRepayInv ==
    ASSUME LedgerInv, NEW c \in Clerks, NEW s \in Sales, NEW amount \in Amounts,
           BeginRepay(c, s, amount)
    PROVE  LedgerInv'
<1>1. TypeOK /\ SaleInv(s) /\ ledger[s] \in Row(s)
  BY DEF LedgerInv, TypeOK
<1>2. /\ TypeOK' /\ ledger'[s] = MarkOverdue(ledger[s])
      /\ \A q \in Sales \ {s} : ledger'[q] = ledger[q]
      /\ request'[c] = [op |-> "repay", sale |-> s, amount |-> amount, now |-> day,
                        seen |-> ledger'[s]]
      /\ \A d \in Clerks \ {c} : request'[d] = request[d]
  BY <1>1, BeginRepayTyped
<1>3. UNCHANGED <<repaid, offset, uneven, clashed>>
  BY DEF BeginRepay
<1>4. SaleInv(s)'
  BY <1>1, <1>2, <1>3, SaleKept
<1>5. RequestInv(c)'
  <2>1. s \notin clashed /\ OnCredit(s) => RowSound(s, MarkOverdue(ledger[s]))
    BY <1>1, MarkedSound DEF SaleInv
  <2>2. OnCredit(s)
    BY <1>1 DEF BeginRepay, SaleInv
  <2> QED BY <1>2, <1>3, <2>1, <2>2 DEF RequestInv, CountOK
<1>6. \A l \in Lines : ledger[s].returned[l] <= ledger'[s].returned[l]
  BY <1>1, <1>2, MarkOverdueParts, SameReturned
<1> QED BY <1>2, <1>3, <1>4, <1>5, <1>6, OthersKept

LEMMA CommitRepayInv ==
    ASSUME LedgerInv, NEW c \in Clerks, CommitRepay(c)
    PROVE  LedgerInv'
<1> PICK r : r = request[c]
  OBVIOUS
<1> PICK s \in Sales : s = r.sale
  BY CommitRepayTyped DEF LedgerInv
<1> DEFINE row == ledger[s]
           new == RepaidRow(s, row, r)
<1>1. TypeOK /\ SaleInv(s) /\ RequestInv(c) /\ row \in Row(s)
  BY DEF LedgerInv, TypeOK
<1>2. /\ TypeOK' /\ RepayRequestOK(r)
      /\ ledger'[s] = new
      /\ \A q \in Sales \ {s} : ledger'[q] = ledger[q]
      /\ request'[c] = Idle
      /\ \A d \in Clerks \ {c} : request'[d] = request[d]
      /\ repaid'[s] = repaid[s] + r.amount
      /\ \A q \in Sales \ {s} : repaid'[q] = repaid[q]
  BY <1>1, CommitRepayTyped
<1>3. r.seen \in Row(s) /\ r.amount \in Nat
  BY <1>2 DEF RepayRequestOK
<1>4. /\ UNCHANGED <<offset, uneven>> /\ clashed \subseteq clashed'
      /\ s \notin clashed' => s \notin clashed /\ Figures(r.seen) = Figures(row)
  BY DEF CommitRepay, Clash, Stale
<1>5. /\ new.status = row.status /\ new.returned = row.returned
      /\ new.paidTotal = row.paidTotal + r.amount
      /\ new.outstanding = Outstanding(r.seen.outstanding, r.amount)
  BY <1>1, <1>3, RepaidParts
<1>6. /\ repaid[s] \in Nat /\ offset[s] \in Int /\ uneven[s] \in Nat /\ Tendered[s] \in Nat
      /\ Balance[s] \in Int /\ row.outstanding \in Nat /\ row.paidTotal \in Int
      /\ Worth(s, row.returned) \in Nat
      /\ Grain[s] \in Nat /\ Grain[s] \in Int
  BY <1>1, RowParts, WorthTyped, GrainTyped, LedgerAssumption DEF TypeOK
<1>7. s \notin clashed' /\ OnCredit(s) =>
         RowSound(s, new) /\ Unsettled(new) \subseteq Unsettled(row)
  BY <1>1, <1>3, <1>4, RepaidSound DEF SaleInv
<1> HIDE DEF new, row
<1> DEFINE ga == Grain[s] * r.amount
<1>10. ga \in Nat
  BY <1>3, <1>6, TimesNat
<1>8. SaleInv(s)'
  <2>1. CashBack(s)' = CashBack(s) /\ CashBack(s) \in Int
    BY <1>2, <1>4, <1>5, <1>6 DEF CashBack, row
  <2>2. PaidTotalTrue(s)'
    <3> DEFINE x == Grain[s] * row.paidTotal
               y == Grain[s] * (Tendered[s] + repaid[s])
               gu == Grain[s] * uneven[s]
    <3>1. 2 * (x - (y - CashBack(s))) \in -gu..gu
      BY <1>1 DEF SaleInv, PaidTotalTrue, Within, row
    <3>2. x \in Int /\ y \in Int /\ gu \in Int
      <4>1. Tendered[s] + repaid[s] \in Int /\ uneven[s] \in Int
        BY <1>6
      <4> QED BY <1>6, <4>1, TimesInt
    <3>3. Grain[s] * ledger'[s].paidTotal = x + ga
      BY <1>2, <1>3, <1>5, <1>6, TimesInt
    <3>4. Grain[s] * (Tendered[s] + repaid'[s]) = y + ga
      <4>1. Tendered[s] + repaid'[s] = (Tendered[s] + repaid[s]) + r.amount
        BY <1>2, <1>3, <1>6
      <4>2. Tendered[s] + repaid[s] \in Int /\ r.amount \in Int
        BY <1>3, <1>6
      <4> DEFINE t == Tendered[s] + repaid[s]
      <4>3. t \in Int /\ Tendered[s] + repaid'[s] = t + r.amount
        BY <4>1, <4>2
      <4> HIDE DEF t
      <4>4. Grain[s] * (t + r.amount) = Grain[s] * t + Grain[s] * r.amount
        BY <1>6, <4>2, <4>3, TimesInt
      <4> QED BY <4>3, <4>4 DEF t
    <3>5. 2 * ((x + ga) - ((y + ga) - CashBack(s))) \in -gu..gu
      <4> HIDE DEF x, y, ga, gu
      <4>1. 2 * ((x + ga) - ((y + ga) - CashBack(s))) = 2 * (x - (y - CashBack(s)))
        BY <1>10, <2>1, <3>2
      <4> QED BY <3>1, <4>1
    <3> HIDE DEF x, y, ga
    <3> QED BY <1>4, <2>1, <3>3, <3>4, <3>5 DEF PaidTotalTrue, Within
  <2>3. RefundedTrue(s, new) /\ (s \notin clashed' => Orderly(s, new))
    BY <1>1, <1>4, <1>5 DEF SaleInv, RefundedTrue, Orderly, row
  <2>4. ASSUME s \notin clashed', OnCredit(s) PROVE BalanceTrue(s)'
    <3> DEFINE x == Grain[s] * row.outstanding
               b == Grain[s] * (Balance[s] - repaid[s])
               y == b - offset[s]
    <3>1. Within(s, uneven[s], x, Larger(0, y))
      BY <1>1, <1>4, <2>4 DEF SaleInv, BalanceTrue, row
    <3>2. r.seen.outstanding = row.outstanding
      BY <1>1, <1>3, <1>4, <2>4, FiguresSame DEF row
    <3>3. new.outstanding = Larger(0, row.outstanding - r.amount)
      BY <1>5, <3>2 DEF Outstanding
    <3>4. x \in Nat /\ b \in Int /\ y \in Int
      <4>1. Balance[s] - repaid[s] \in Int
        BY <1>6
      <4>2. x \in Nat /\ b \in Int
        BY <1>6, <4>1, TimesNat, TimesInt
      <4> HIDE DEF b
      <4> QED BY <1>6, <4>2
    <3>5. Grain[s] * new.outstanding = Larger(0, x - ga)
      <4> DEFINE d == row.outstanding - r.amount
      <4>1. d \in Int /\ Grain[s] * d = x - ga
        <5>1. row.outstanding \in Int /\ r.amount \in Int
          BY <1>3, <1>6
        <5> QED BY <1>6, <5>1, TimesInt
      <4>2. d >= 0 => Grain[s] * d >= Grain[s] * 0
        <5> HIDE DEF d
        <5>1. d >= 0 => d \in Nat
          BY <4>1
        <5>2. d >= 0 => Grain[s] * d \in Nat
          BY <1>6, <5>1, TimesNat
        <5>3. Grain[s] * 0 = 0
          BY <1>6
        <5> DEFINE gd == Grain[s] * d
        <5> HIDE DEF gd
        <5>4. d >= 0 => gd >= 0
          BY <5>2 DEF gd
        <5> QED BY <5>3, <5>4 DEF gd
      <4>3. d < 0 => Grain[s] * d + Grain[s] <= Grain[s] * 0
        <5> HIDE DEF d
        <5>1. Grain[s] \in Nat \ {0} /\ 0 \in Int
          BY GrainTyped
        <5> QED BY <4>1, <5>1, TimesGrows
      <4>4. Grain[s] * 0 = 0
        BY <1>6
      <4>5. new.outstanding = Larger(0, d)
        BY <3>3
      <4> DEFINE gd == Grain[s] * d
                 z == x - ga
      <4>6. gd = z /\ z \in Int
        <5>1. x - ga \in Int
          <6> HIDE DEF x, ga
          <6> QED BY <1>10, <3>4
        <5> QED BY <4>1, <5>1
      <4>7. (d >= 0 => gd >= 0) /\ (d < 0 => gd <= 0)
        <5> HIDE DEF d
        <5>1. d < 0 => gd + Grain[s] <= 0
          BY <4>3, <4>4
        <5>2. d >= 0 => gd >= 0
          BY <4>2, <4>4
        <5> HIDE DEF gd, z
        <5>3. gd \in Int
          BY <4>6
        <5> QED BY <1>6, <5>1, <5>2, <5>3
      <4> HIDE DEF d, z
      <4>8. CASE d >= 0
        <5>1. new.outstanding = d
          BY <4>1, <4>5, <4>8 DEF Larger
        <5>2. Larger(0, z) = z
          <6> HIDE DEF gd
          <6> QED BY <4>6, <4>7, <4>8 DEF Larger
        <5> QED BY <4>6, <5>1, <5>2 DEF z
      <4>9. CASE d < 0
        <5>1. new.outstanding = 0
          BY <4>1, <4>5, <4>9 DEF Larger
        <5>2. Larger(0, z) = 0
          <6> HIDE DEF gd
          <6> QED BY <4>6, <4>7, <4>9 DEF Larger
        <5> QED BY <4>4, <5>1, <5>2 DEF z
      <4> QED BY <4>1, <4>8, <4>9
    <3>6. Grain[s] * (Balance[s] - repaid'[s]) - offset'[s] = y - ga
      <4>1. Balance[s] - repaid'[s] = (Balance[s] - repaid[s]) - r.amount
        BY <1>2, <1>3, <1>6
      <4>2. Balance[s] - repaid[s] \in Int /\ r.amount \in Int
        BY <1>3, <1>6
      <4>3. Grain[s] * (Balance[s] - repaid'[s]) = b - ga
        BY <1>6, <4>1, <4>2, TimesInt
      <4> HIDE DEF b, ga
      <4> QED BY <1>4, <1>6, <1>10, <3>4, <4>3
    <3> HIDE DEF x, y, ga
    <3>7. Within(s, uneven[s], Larger(0, x - ga), Larger(0, y - ga))
      BY <1>6, <1>10, <3>1, <3>4, WithinDrops
    <3> QED BY <1>2, <1>4, <3>5, <3>6, <3>7 DEF BalanceTrue
  <2>6. ASSUME s \notin clashed', OnCredit(s) PROVE SettledTrue(s)'
    BY <1>1, <1>2, <1>4, <1>7, <2>6 DEF SaleInv, SettledTrue, row
  <2>5. OnCredit(s)
    BY <1>1 DEF CommitRepay, RequestInv
  <2> QED BY <1>2, <1>7, <2>2, <2>3, <2>4, <2>5, <2>6 DEF SaleInv
<1>9. \A l \in Lines : ledger[s].returned[l] <= ledger'[s].returned[l]
  BY <1>1, <1>2, <1>5, SameReturned DEF row
<1> QED BY <1>2, <1>4, <1>8, <1>9, IdleInv, OthersKept

LEMMA BeginReturnInv ==
    ASSUME LedgerInv, NEW c \in Clerks, NEW s \in Sales, NEW goods \in Goods,
           BeginReturn(c, s, goods)
    PROVE  LedgerInv'
<1>1. TypeOK /\ SaleInv(s) /\ ledger[s] \in Row(s)
  BY DEF LedgerInv, TypeOK
<1>2. /\ TypeOK'
      /\ request'[c] = [op |-> "return", sale |-> s, goods |-> goods, seen |-> ledger[s]]
      /\ \A d \in Clerks \ {c} : request'[d] = request[d]
  BY <1>1, BeginReturnTyped
<1>3. UNCHANGED <<ledger, repaid, offset, uneven, clashed>>
  BY DEF BeginReturn
<1>4. SaleInv(s)'
  BY <1>1, <1>3, SaleKept
<1>5. RequestInv(c)'
  <2>1. \A l \in Lines : goods[l] > 0 => goods[l] <= Quantity[s][l] - ledger[s].returned[l]
    BY DEF BeginReturn, Remaining
  <2>2. \A l \in Lines : ledger[s].returned[l] <= ledger[s].returned[l]
    BY <1>1, <1>3, SameReturned
  <2> QED BY <1>1, <1>2, <1>3, <2>1, <2>2 DEF RequestInv, CountOK, SaleInv
<1>6. \A l \in Lines : ledger[s].returned[l] <= ledger'[s].returned[l]
  BY <1>1, <1>3, SameReturned
<1> QED BY <1>2, <1>3, <1>4, <1>5, <1>6, OthersKept

LEMMA CountReturnedInv ==
    ASSUME LedgerInv, NEW c \in Clerks, CountReturned(c)
    PROVE  LedgerInv'
<1> PICK r : r = request[c]
  OBVIOUS
<1> PICK s \in Sales : s = r.sale
  BY CountReturnedTyped DEF LedgerInv, ReturnRequestOK
<1> DEFINE full == FullyReturned(s, Together(ledger[s].returned, r.goods))
<1>1. TypeOK /\ SaleInv(s) /\ RequestInv(c)
  BY DEF LedgerInv
<1>2. /\ TypeOK' /\ ReturnRequestOK(r)
      /\ request'[c] = [op |-> "counted", sale |-> s, goods |-> r.goods, seen |-> r.seen,
                        full |-> full]
      /\ \A d \in Clerks \ {c} : request'[d] = request[d]
  BY <1>1, CountReturnedTyped
<1>3. UNCHANGED <<ledger, repaid, offset, uneven, clashed>> /\ r.op = "return"
  BY DEF CountReturned
<1>4. SaleInv(s)'
  BY <1>1, <1>3, SaleKept
<1>5. RequestInv(c)'
  <2>1. \A l \in Lines :
           /\ r.goods[l] > 0 => r.goods[l] <= Quantity[s][l] - r.seen.returned[l]
           /\ r.seen.returned[l] <= ledger[s].returned[l]
    BY <1>1, <1>3 DEF RequestInv, CountOK
  <2>2. s \notin clashed /\ OnCredit(s) => RowSound(s, r.seen)
    BY <1>1, <1>3 DEF RequestInv, Idle
  <2> HIDE DEF full
  <2>3. CountOK(request'[c], ledger[s])
    BY <1>2, <2>1 DEF CountOK, full
  <2> QED BY <1>2, <1>3, <2>2, <2>3 DEF RequestInv
<1>6. \A l \in Lines : ledger[s].returned[l] <= ledger'[s].returned[l]
  BY <1>1, <1>3, SameReturned
<1> QED BY <1>2, <1>3, <1>4, <1>5, <1>6, OthersKept

LEMMA CommitReturnInv ==
    ASSUME LedgerInv, NEW c \in Clerks, CommitReturn(c)
    PROVE  LedgerInv'
<1> PICK r : r = request[c]
  OBVIOUS
<1> PICK s \in Sales : s = r.sale
  BY CommitReturnTyped DEF LedgerInv
<1> DEFINE row == ledger[s]
           new == ReturnedRow(s, row, r)
           x == row.returned
           y == Together(row.returned, r.goods)
<1>1. TypeOK /\ SaleInv(s) /\ RequestInv(c) /\ row \in Row(s)
  BY DEF LedgerInv, TypeOK
<1>2. /\ TypeOK' /\ ReturnRequestOK(r)
      /\ ledger'[s] = new
      /\ \A q \in Sales \ {s} : ledger'[q] = ledger[q]
      /\ request'[c] = Idle
      /\ \A d \in Clerks \ {c} : request'[d] = request[d]
      /\ offset'[s] = offset[s] + Offset(r)
      /\ uneven'[s] = IF WholeCents(s, Worth(s, r.goods)) THEN uneven[s] ELSE uneven[s] + 1
      /\ \A q \in Sales \ {s} : offset'[q] = offset[q] /\ uneven'[q] = uneven[q]
  BY <1>1, CommitReturnTyped
<1>3. r.seen \in Row(s) /\ r.goods \in Goods
  BY <1>2 DEF ReturnRequestOK
<1>4. /\ repaid' = repaid /\ clashed \subseteq clashed' /\ r.op = "counted"
      /\ s \notin clashed' => s \notin clashed /\ Figures(r.seen) = Figures(row)
  BY DEF CommitReturn, Clash, Stale
<1>5. /\ new.status = IF r.full THEN "REFUNDED" ELSE "PARTIALLY_REFUNDED"
      /\ new.paidTotal = Stored(s, Grain[s] * row.paidTotal - CashRefund(r))
      /\ new.returned = y
      /\ ~OnCredit(s) => new.agreement = "NONE"
  BY <1>1, <1>3, ReturnedParts DEF ReturnedAgreement, SetsOff, SaleInv
<1>6. /\ x \in Goods /\ y \in Goods
      /\ \A l \in Lines : /\ y[l] = x[l] + r.goods[l] /\ x[l] \in Nat /\ r.goods[l] \in Nat
                          /\ Quantity[s][l] \in Nat
  <2>1. x \in Goods
    BY <1>1, RowParts
  <2>2. /\ y \in Goods
        /\ \A l \in Lines : y[l] = x[l] + r.goods[l] /\ x[l] \in Nat /\ r.goods[l] \in Nat
    BY <1>3, <2>1, TogetherTyped
  <2>3. \A l \in Lines : Quantity[s][l] \in Nat
    BY LedgerAssumption DEF Goods
  <2> QED BY <2>1, <2>2, <2>3
<1>7. /\ repaid[s] \in Nat /\ offset[s] \in Int /\ Tendered[s] \in Nat
      /\ Worth(s, x) \in Nat /\ Worth(s, r.goods) \in Nat /\ Offset(r) \in Int
      /\ Worth(s, y) = Worth(s, x) + Worth(s, r.goods)
      /\ CashRefund(r) = Worth(s, r.goods) - Offset(r) /\ CashRefund(r) \in Int
      /\ WholeCents(s, Worth(s, r.goods)) =>
            /\ \E n \in Int : Offset(r) = Grain[s] * n
            /\ \E n \in Int : CashRefund(r) = Grain[s] * n
      /\ Balance[s] \in Int /\ uneven[s] \in Nat /\ row.paidTotal \in Int
      /\ Grain[s] \in Nat /\ Grain[s] \in Int
  <2>1. repaid[s] \in Nat /\ offset[s] \in Int /\ uneven[s] \in Nat
    BY <1>1 DEF TypeOK
  <2>2. Tendered[s] \in Nat /\ Balance[s] \in Int /\ row.paidTotal \in Int
        /\ Grain[s] \in Nat /\ Grain[s] \in Int
    BY <1>1, RowParts, GrainTyped, LedgerAssumption
  <2>3. /\ Offset(r) \in Int
        /\ CashRefund(r) = Worth(s, r.goods) - Offset(r) /\ CashRefund(r) \in Int
        /\ WholeCents(s, Worth(s, r.goods)) =>
              /\ \E n \in Int : Offset(r) = Grain[s] * n
              /\ \E n \in Int : CashRefund(r) = Grain[s] * n
    BY <1>3, OffsetTyped
  <2> HIDE DEF x, y
  <2>4. Worth(s, x) \in Nat /\ Worth(s, r.goods) \in Nat
    BY <1>3, <1>6, WorthTyped
  <2>5. Worth(s, y) = Worth(s, x) + Worth(s, r.goods)
    BY <1>3, <1>6, WorthTogether DEF x, y
  <2> QED BY <2>1, <2>2, <2>3, <2>4, <2>5
<1>8. ASSUME s \notin clashed', OnCredit(s)
      PROVE  /\ RowSound(s, new) /\ Offset(r) \in Nat
             /\ Offset(r) <= Grain[s] * row.outstanding /\ Grain[s] * row.outstanding \in Nat
             /\ row.outstanding \in Nat
             /\ new.outstanding = Stored(s, Grain[s] * row.outstanding - Offset(r))
             /\ WholeCents(s, Worth(s, r.goods)) => Unsettled(new) \subseteq Unsettled(row)
  <2>1. RowSound(s, row) /\ RowSound(s, r.seen)
    BY <1>1, <1>4, <1>8 DEF SaleInv, RequestInv, Idle
  <2>2. /\ RowSound(s, new)
        /\ WholeCents(s, Worth(s, r.goods)) => Unsettled(new) \subseteq Unsettled(row)
    BY <1>1, <1>3, <1>4, <1>8, <2>1, ReturnedSound
  <2>3. row.outstanding \in Nat /\ row.balanceDue = row.outstanding
    BY <1>1, <2>1, RowParts DEF RowSound
  <2> DEFINE left == Stored(s, Grain[s] * row.outstanding - Offset(r))
  <2>4. /\ Offset(r) \in Nat /\ Offset(r) <= Grain[s] * row.outstanding
        /\ Grain[s] * row.outstanding \in Nat
        /\ new.outstanding = row.outstanding - CentsOff(s, row, r)
        /\ CentsOff(s, row, r) \in Nat
    BY <1>1, <1>3, <1>4, <1>8, <2>3, ReturnedCents
  <2>5. new.outstanding = left
    <3>1. CentsOff(s, row, r) = row.outstanding - left
      BY DEF CentsOff
    <3>2. left \in Int
      <4>1. Grain[s] * row.outstanding - Offset(r) \in Int
        <5> DEFINE grains == Grain[s] * row.outstanding
        <5>1. grains \in Nat /\ Offset(r) \in Nat
          BY <2>4
        <5> HIDE DEF grains
        <5>2. grains - Offset(r) \in Int
          BY <5>1
        <5> QED BY <5>2 DEF grains
      <4> QED BY <4>1, StoredNearest
    <3> DEFINE o == row.outstanding
               k == new.outstanding
    <3>3. k = o - CentsOff(s, row, r) /\ CentsOff(s, row, r) = o - left /\ o \in Nat
      BY <2>3, <2>4, <3>1
    <3> HIDE DEF left, o, k
    <3>4. k = left
      BY <3>2, <3>3
    <3> QED BY <3>4 DEF k
  <2> HIDE DEF new
  <2> QED BY <2>2, <2>3, <2>4, <2>5
<1>9. /\ r.full => FullyReturned(s, y)
      /\ r.seen.returned = x /\ FullyReturned(s, y) => r.full
      /\ \A l \in Lines :
            r.goods[l] > 0 => r.goods[l] <= Quantity[s][l] - r.seen.returned[l]
  BY <1>1, <1>4 DEF RequestInv, CountOK
<1> HIDE DEF new, row, x, y
<1>10. PaidTotalTrue(s)'
  <2> DEFINE p == Grain[s] * row.paidTotal
             q == Grain[s] * (Tendered[s] + repaid[s])
             z == q - CashBack(s)
             cr == CashRefund(r)
  <2>1. Within(s, uneven[s], p, z)
    BY <1>1 DEF SaleInv, PaidTotalTrue, row
  <2>2. p \in Int /\ q \in Int
    <3>1. Tendered[s] + repaid[s] \in Int
      BY <1>7
    <3> QED BY <1>7, <3>1, TimesInt
  <2>3. CashBack(s) \in Int /\ z \in Int /\ cr \in Int
        /\ CashBack(s)' = CashBack(s) + cr
    <3>1. CashBack(s) = Worth(s, x) - offset[s] /\ CashBack(s)' = Worth(s, y) - offset'[s]
      BY <1>2, <1>5 DEF CashBack, row, x
    <3>2. CashBack(s) \in Int /\ CashBack(s)' = CashBack(s) + CashRefund(r)
      BY <1>2, <1>7, <3>1
    <3> HIDE DEF q
    <3> QED BY <1>7, <2>2, <3>2
  <2>4. Grain[s] * (Tendered[s] + repaid'[s]) - CashBack(s)' = z - cr
    <3>1. Grain[s] * (Tendered[s] + repaid'[s]) = q
      BY <1>4
    <3> HIDE DEF q, cr
    <3>2. q - CashBack(s)' = (q - CashBack(s)) - cr
      BY <2>2, <2>3
    <3> QED BY <3>1, <3>2
  <2>5. ledger'[s].paidTotal = Stored(s, p - cr)
    BY <1>2, <1>5
  <2> HIDE DEF z, cr
  <2>6. /\ Within(s, uneven[s] + 1, Grain[s] * Stored(s, p - cr), z - cr)
        /\ (\E n \in Int : p = Grain[s] * n) /\ (\E n \in Int : cr = Grain[s] * n) =>
              Within(s, uneven[s], Grain[s] * Stored(s, p - cr), z - cr)
    <3> HIDE DEF p
    <3> QED BY <1>7, <2>1, <2>2, <2>3, RoundedOnce
  <2>7. \E n \in Int : p = Grain[s] * n
    BY <1>7
  <2>8. WholeCents(s, Worth(s, r.goods)) => \E n \in Int : cr = Grain[s] * n
    BY <1>7 DEF cr
  <2> HIDE DEF p
  <2>9. Within(s, uneven'[s], Grain[s] * Stored(s, p - cr), z - cr)
    BY <1>2, <2>6, <2>7, <2>8
  <2> QED BY <2>4, <2>5, <2>9 DEF PaidTotalTrue
<1>11. RefundedTrue(s, new)
  BY <1>5, <1>9 DEF RefundedTrue, FullyReturned
<1>12. ASSUME s \notin clashed' PROVE Orderly(s, new)
  <2>1. r.seen.returned = x /\ \A l \in Lines : x[l] <= Quantity[s][l]
    BY <1>1, <1>3, <1>4, <1>12, FiguresSame DEF SaleInv, Orderly, row, x
  <2>2. \A l \in Lines : y[l] <= Quantity[s][l]
    <3> TAKE l \in Lines
    <3>1. CASE r.goods[l] > 0
      <4>1. r.goods[l] <= Quantity[s][l] - x[l]
        BY <1>9, <2>1, <3>1
      <4> QED BY <1>6, <4>1
    <3>2. CASE r.goods[l] = 0
      BY <1>6, <2>1, <3>2
    <3> QED BY <1>6, <3>1, <3>2
  <2>3. ASSUME \A l \in Lines : y[l] >= Quantity[s][l]
        PROVE  new.status = "REFUNDED"
    <3>1. Quantity[s] \in Goods /\ \A l \in Lines : Quantity[s][l] <= y[l]
      BY <1>6, <2>3, LedgerAssumption DEF Goods
    <3>2. SumFunction(Quantity[s]) <= SumFunction(y)
      BY <1>6, <3>1, CountGrows
    <3>3. SumFunction(Quantity[s]) \in Nat /\ SumFunction(y) \in Nat
      BY <1>6, <3>1, CountTyped
    <3>4. FullyReturned(s, y)
      BY <3>2, <3>3 DEF FullyReturned
    <3> QED BY <1>5, <1>9, <2>1, <3>4
  <2> QED BY <1>5, <2>2, <2>3 DEF Orderly
<1>13. ASSUME s \notin clashed', OnCredit(s) PROVE BalanceTrue(s)'
  <2> DEFINE p == Grain[s] * row.outstanding
             q == Grain[s] * (Balance[s] - repaid[s])
             z == q - offset[s]
             a == Offset(r)
  <2>1. Within(s, uneven[s], p, Larger(0, z))
    BY <1>1, <1>4, <1>13 DEF SaleInv, BalanceTrue, row
  <2>2. p \in Nat /\ a \in Nat /\ a <= p /\ q \in Int /\ z \in Int
    <3>1. Balance[s] - repaid[s] \in Int
      BY <1>7
    <3>2. q \in Int
      BY <1>7, <3>1, TimesInt
    <3> HIDE DEF q
    <3>3. z \in Int
      BY <1>7, <3>2
    <3> QED BY <1>8, <1>13, <3>2, <3>3
  <2>3. Grain[s] * (Balance[s] - repaid'[s]) - offset'[s] = z - a
    <3>1. Grain[s] * (Balance[s] - repaid'[s]) = q
      BY <1>4
    <3> HIDE DEF q, a
    <3>2. offset'[s] = offset[s] + a
      BY <1>2 DEF a
    <3>3. q - (offset[s] + a) = (q - offset[s]) - a
      BY <1>7, <2>2
    <3> QED BY <3>1, <3>2, <3>3
  <2>4. ledger'[s].outstanding = Stored(s, p - a)
    BY <1>2, <1>8, <1>13
  <2>5. \E n \in Int : p = Grain[s] * n
    BY <1>8, <1>13
  <2>6. WholeCents(s, Worth(s, r.goods)) => \E n \in Int : a = Grain[s] * n
    BY <1>7
  <2> HIDE DEF p, z, a
  <2> DEFINE v == Larger(0, z - a)
             u == p - a
  <2>7. Within(s, uneven[s], u, v)
    <3>1. Larger(0, p - a) = u
      BY <2>2 DEF Larger
    <3> QED BY <1>7, <2>1, <2>2, <3>1, WithinDrops
  <2>8. u \in Int /\ v \in Int
    BY <2>2 DEF Larger
  <2>9. Within(s, uneven[s] + 1, Grain[s] * Stored(s, u - 0), v - 0)
    <3> HIDE DEF u, v
    <3> QED BY <1>7, <2>7, <2>8, RoundedOnce
  <2>10. (\E n \in Int : u = Grain[s] * n) =>
            Within(s, uneven[s], Grain[s] * Stored(s, u - 0), v - 0)
    <3> HIDE DEF u, v
    <3>1. 0 \in Int /\ \E n \in Int : 0 = Grain[s] * n
      <4>1. 0 = Grain[s] * 0
        BY <1>7
      <4> QED BY <4>1
    <3> QED BY <1>7, <2>7, <2>8, <3>1, RoundedOnce
  <2>11. u - 0 = u /\ v - 0 = v
    <3> HIDE DEF u, v
    <3> QED BY <2>8
  <2>12. WholeCents(s, Worth(s, r.goods)) => \E n \in Int : u = Grain[s] * n
    <3> SUFFICES ASSUME NEW i \in Int, p = Grain[s] * i, NEW j \in Int, a = Grain[s] * j
                 PROVE  \E n \in Int : u = Grain[s] * n
      BY <2>5, <2>6
    <3>1. Grain[s] * (i - j) = Grain[s] * i - Grain[s] * j /\ i - j \in Int
      BY <1>7, TimesInt
    <3>2. u = Grain[s] * (i - j)
      BY <3>1
    <3> HIDE DEF u
    <3> QED BY <3>1, <3>2
  <2> HIDE DEF u, v
  <2>13. Within(s, uneven'[s], Grain[s] * Stored(s, u), v)
    BY <1>2, <2>9, <2>10, <2>11, <2>12
  <2> QED BY <2>3, <2>4, <2>13 DEF BalanceTrue, u, v
<1>16. ASSUME s \notin clashed', OnCredit(s) PROVE SettledTrue(s)'
  <2>1. CASE WholeCents(s, Worth(s, r.goods))
    <3>1. Unsettled(new) \subseteq Unsettled(row) /\ uneven'[s] = uneven[s]
      BY <1>2, <1>8, <1>16, <2>1
    <3> QED BY <1>1, <1>2, <1>4, <1>16, <3>1 DEF SaleInv, SettledTrue, row
  <2>2. CASE ~WholeCents(s, Worth(s, r.goods))
    <3>1. uneven'[s] > 0
      BY <1>2, <1>7, <2>2
    <3> QED BY <3>1 DEF SettledTrue
  <2> QED BY <2>1, <2>2
<1>14. SaleInv(s)'
  BY <1>2, <1>5, <1>8, <1>10, <1>11, <1>12, <1>13, <1>16 DEF SaleInv
<1>15. \A l \in Lines : ledger[s].returned[l] <= ledger'[s].returned[l]
  BY <1>2, <1>5, <1>6 DEF row, x
<1> QED BY <1>2, <1>4, <1>14, <1>15, IdleInv, OthersKept

LEMMA LedgerStep ==
    ASSUME LedgerInv, [Next]_vars
    PROVE  LedgerInv'
<1>1. TypeOK /\ TypeOK'
  BY TypedStep DEF LedgerInv
<1>2. ASSUME UNCHANGED <<repaid, offset, uneven, clashed>>,
             \A s \in Sales : ledger'[s] \in {ledger[s], MarkOverdue(ledger[s])},
             \A c \in Clerks : request'[c] = request[c] \/ request'[c] = Idle
      PROVE  LedgerInv'
  <2>1. \A s \in Sales : SaleInv(s)'
    <3> TAKE s \in Sales
    <3>1. SaleInv(s) /\ clashed \subseteq clashed' /\ repaid'[s] = repaid[s]
          /\ offset'[s] = offset[s] /\ uneven'[s] = uneven[s]
      BY <1>2 DEF LedgerInv
    <3> QED BY <1>1, <1>2, <3>1, SaleKept
  <2>2. \A s \in Sales :
           /\ ledger'[s] \in Row(s)
           /\ \A l \in Lines : ledger[s].returned[l] <= ledger'[s].returned[l]
    <3> TAKE s \in Sales
    <3>1. ledger'[s] \in Row(s) /\ ledger[s] \in Row(s)
      BY <1>1 DEF TypeOK
    <3>2. ledger'[s].returned = ledger[s].returned
      BY <1>2, <3>1, MarkOverdueParts
    <3> QED BY <1>1, <3>1, <3>2, SameReturned
  <2>3. \A c \in Clerks : RequestInv(c)'
    <3> TAKE c \in Clerks
    <3>1. RequestInv(c) /\ clashed \subseteq clashed'
      BY <1>2 DEF LedgerInv
    <3>2. CASE request'[c] = request[c]
      BY <1>1, <2>2, <3>1, <3>2, RequestKept
    <3>3. CASE request'[c] = Idle
      BY <3>3, IdleInv
    <3> QED BY <1>2, <3>2, <3>3
  <2> QED BY <1>1, <2>1, <2>3 DEF LedgerInv
<1>3. CASE ViewAgreements
  <2>1. \A s \in Sales : ledger'[s] = MarkOverdue(ledger[s])
    BY <1>1, <1>3, ViewTyped
  <2> QED BY <1>2, <1>3, <2>1 DEF ViewAgreements
<1>4. ASSUME NEW c \in Clerks, Abandon(c)
      PROVE  LedgerInv'
  <2>1. request'[c] = Idle /\ \A d \in Clerks \ {c} : request'[d] = request[d]
    BY <1>1, <1>4, AbandonTyped
  <2>2. \A d \in Clerks : request'[d] = request[d] \/ request'[d] = Idle
    BY <2>1
  <2> QED BY <1>2, <1>4, <2>2 DEF Abandon
<1>5. CASE NextDay
  BY <1>2, <1>5 DEF NextDay
<1>6. CASE UNCHANGED vars
  BY <1>2, <1>6 DEF vars
<1> QED
  BY <1>3, <1>4, <1>5, <1>6, BeginRepayInv, CommitRepayInv, BeginReturnInv,
     CountReturnedInv, CommitReturnInv, Bring DEF Next

LEMMA LedgerInvHolds == Spec => []LedgerInv
<1>1. LedgerInv /\ [Next]_vars => LedgerInv'
  BY LedgerStep
<1> QED BY InitInv, <1>1, PTL DEF Spec

\* However repayments and returns overlap, the money a sale took is what was paid
\* less what was paid back; and as long as no request wrote figures that had changed,
\* its balance is what was financed less what was repaid and set off; both up to half
\* a cent for each refund that is not whole cents.  The installments owe the balance to
\* the cent all the same: the agreement and the installments round alike.
THEOREM MoneyAlwaysAddsUp == Spec => []MoneyAddsUp
<1>1. LedgerInv => MoneyAddsUp
  <2> SUFFICES ASSUME LedgerInv PROVE MoneyAddsUp
    OBVIOUS
  <2>1. MoneyConserved
    BY DEF LedgerInv, SaleInv, RowSound, BalanceTrue, MoneyConserved
  <2>2. InstallmentsAddUp
    <3> SUFFICES ASSUME NEW s \in Sales \ clashed, OnCredit(s)
                 PROVE  LET rows == ledger[s].installments IN
                        /\ SumFunction([i \in DOMAIN rows |-> rows[i].due - rows[i].paid])
                              - ledger[s].outstanding \in -Cent..Cent
                        /\ \A i \in DOMAIN rows : rows[i].paid <= rows[i].due
      BY DEF InstallmentsAddUp
    <3>1. RowSound(s, ledger[s]) /\ ledger[s] \in Row(s)
      BY DEF LedgerInv, SaleInv, TypeOK
    <3>2. DOMAIN ledger[s].installments = DOMAIN Plan[s]
      BY <3>1, RowParts
    <3> QED BY <3>1, <3>2 DEF RowSound, DueIn
  <2>3. PaidTotalAddsUp
    BY DEF LedgerInv, SaleInv, PaidTotalTrue, PaidTotalAddsUp
  <2> QED BY <2>1, <2>2, <2>3 DEF MoneyAddsUp
<1> QED BY LedgerInvHolds, <1>1, PTL

\* An agreement is called paid when nothing is owed and only when at most a cent is, an
\* installment only when it is paid in full, a sale refunded only when all of it came
\* back; one installment may be called unpaid that owes nothing, after a refund that was
\* not whole cents.  No line comes back twice unless a return wrote figures that had
\* changed.
THEOREM StatusesAreRight == Spec => []StatusesSayWhatHappened
<1>1. LedgerInv => StatusesSayWhatHappened
  <2> SUFFICES ASSUME LedgerInv PROVE StatusesSayWhatHappened
    OBVIOUS
  <2>1. StatusesMatchMoney
    <3> SUFFICES ASSUME NEW s \in Sales \ clashed, OnCredit(s)
                 PROVE  LET rows == ledger[s].installments IN
                        /\ ledger[s].outstanding = 0 /\ Balance[s] > 0 =>
                              ledger[s].agreement = "PAID"
                        /\ ledger[s].agreement = "PAID" => ledger[s].outstanding <= Cent
                        /\ \A i \in DOMAIN rows :
                              rows[i].status = "PAID" => rows[i].paid >= rows[i].due
                        /\ \A i \in Unsettled(ledger[s]) :
                              /\ uneven[s] > 0 \/ Balance[s] = 0
                              /\ \A j \in DOMAIN rows :
                                    j > i => rows[j].paid >= rows[j].due /\ rows[j].status = "PAID"
      BY DEF StatusesMatchMoney
    <3>1. RowSound(s, ledger[s]) /\ SettledTrue(s) /\ ledger[s] \in Row(s)
      BY DEF LedgerInv, SaleInv, TypeOK
    <3>2. DOMAIN ledger[s].installments = DOMAIN Plan[s]
      BY <3>1, RowParts
    <3>3. \A i \in Unsettled(ledger[s]) : uneven[s] > 0 \/ Balance[s] = 0
      BY <3>1 DEF SettledTrue
    <3> QED BY <3>1, <3>2, <3>3 DEF RowSound
  <2>2. RefundedMeansReturned
    BY DEF LedgerInv, SaleInv, RefundedTrue, Orderly, Returned, RefundedMeansReturned
  <2>3. OrderlyReturns
    BY DEF LedgerInv, SaleInv, Orderly, OrderlyReturns
  <2> QED BY <2>1, <2>2, <2>3 DEF StatusesSayWhatHappened
<1> QED BY LedgerInvHolds, <1>1, PTL

\* Nothing reopens a paid agreement of a sale: a repayment leaves at most a cent, a
\* return sets off what is owed, and an agreement that is paid is never overdue; unless
\* the request that writes it had read other figures.
THEOREM PaidIsPaid == Spec => PaidStaysPaid
<1>1. ASSUME LedgerInv, LedgerInv', [Next]_vars, NEW s \in Sales \ clashed',
             ledger[s].agreement = "PAID"
      PROVE  ledger'[s].agreement = "PAID"
  <2>1. TypeOK /\ ledger[s] \in Row(s)
    BY <1>1 DEF LedgerInv, TypeOK
  <2>2. ASSUME ledger'[s] \in {ledger[s], MarkOverdue(ledger[s])}
        PROVE  ledger'[s].agreement = "PAID"
    BY <1>1, <2>1, <2>2, MarkOverdueParts
  <2>3. ASSUME NEW c \in Clerks, CommitRepay(c)
        PROVE  ledger'[s].agreement = "PAID"
    <3> PICK r : r = request[c]
      OBVIOUS
    <3>1. /\ r.sale \in Sales /\ RepayRequestOK(r)
          /\ ledger'[r.sale] = RepaidRow(r.sale, ledger[r.sale], r)
          /\ \A q \in Sales \ {r.sale} : ledger'[q] = ledger[q]
      BY <2>1, <2>3, CommitRepayTyped
    <3>2. CASE s # r.sale
      BY <1>1, <3>1, <3>2
    <3>3. CASE s = r.sale
      <4>1. s \notin clashed /\ Figures(r.seen) = Figures(ledger[s])
        BY <1>1, <2>3, <3>3 DEF CommitRepay, Clash, Stale
      <4>2. r.seen \in Row(s) /\ r.amount \in Nat
        BY <3>1, <3>3 DEF RepayRequestOK
      <4>3. r.seen.outstanding = ledger[s].outstanding /\ ledger[s].outstanding \in Nat
        BY <2>1, <4>1, <4>2, FiguresSame, RowParts
      <4>4. CASE OnCredit(s)
        <5>1. ledger[s].outstanding <= 1
          BY <1>1, <4>1, <4>4 DEF LedgerInv, SaleInv, RowSound, Cent
        <5>2. r.seen.outstanding - r.amount <= 1
          BY <4>2, <4>3, <5>1
        <5>3. ledger'[s].agreement = RepaidAgreement(s, r)
          BY <2>1, <3>1, <3>3, <4>2, RepaidParts
        <5> QED BY <5>2, <5>3 DEF RepaidAgreement, Cent
      <4>5. CASE ~OnCredit(s)
        BY <1>1, <4>5 DEF LedgerInv, SaleInv
      <4> QED BY <4>4, <4>5
    <3> QED BY <3>2, <3>3
  <2>4. ASSUME NEW c \in Clerks, CommitReturn(c)
        PROVE  ledger'[s].agreement = "PAID"
    <3> PICK r : r = request[c]
      OBVIOUS
    <3>1. /\ r.sale \in Sales /\ ReturnRequestOK(r)
          /\ ledger'[r.sale] = ReturnedRow(r.sale, ledger[r.sale], r)
          /\ \A q \in Sales \ {r.sale} : ledger'[q] = ledger[q]
      BY <2>1, <2>4, CommitReturnTyped
    <3>2. CASE s # r.sale
      BY <1>1, <3>1, <3>2
    <3>3. CASE s = r.sale
      <4>1. s \notin clashed /\ Figures(r.seen) = Figures(ledger[s])
        BY <1>1, <2>4, <3>3 DEF CommitReturn, Clash, Stale
      <4>2. r.seen \in Row(s) /\ r.goods \in Goods
        BY <3>1, <3>3 DEF ReturnRequestOK
      <4>3. r.seen.outstanding = ledger[s].outstanding /\ ledger[s].outstanding \in Nat
        BY <2>1, <4>1, <4>2, FiguresSame, RowParts
      <4>4. ledger'[s].agreement = ReturnedAgreement(s, ledger[s], r)
        BY <2>1, <3>1, <3>3, <4>2, ReturnedParts
      <4>5. CASE SetsOff(s, r)
        <5>1. ledger[s].outstanding <= 1
          BY <1>1, <4>1, <4>5 DEF SetsOff, LedgerInv, SaleInv, RowSound, Cent
        <5>2. Offset(r) \in Int /\ Offset(r) > 0
          BY <3>3, <4>2, <4>5, OffsetTyped DEF SetsOff
        <5>3. LeftOf(s, r) <= Grain[s] * Cent
          <6> DEFINE x == Grain[s] * ledger[s].outstanding
                     g == Grain[s]
          <6>1. x \in Nat /\ x <= g * Cent /\ g \in Nat /\ g * Cent = g
            BY <4>3, <5>1, GrainTyped, TimesNat, TimesGrows DEF Cent
          <6>2. LeftOf(s, r) = Larger(0, x - Offset(r))
            BY <4>3 DEF LeftOf
          <6> HIDE DEF x, g
          <6>3. LeftOf(s, r) <= g
            BY <5>2, <6>1, <6>2 DEF Larger
          <6> QED BY <6>1, <6>3 DEF g
        <5> QED BY <4>4, <4>5, <5>3 DEF ReturnedAgreement
      <4>6. CASE ~SetsOff(s, r)
        BY <1>1, <4>4, <4>6 DEF ReturnedAgreement
      <4> QED BY <4>5, <4>6
    <3> QED BY <3>2, <3>3
  <2>5. ASSUME NEW c \in Clerks, NEW q \in Sales, NEW amount \in Amounts,
               BeginRepay(c, q, amount)
        PROVE  ledger'[s].agreement = "PAID"
    <3>1. /\ ledger'[q] = MarkOverdue(ledger[q])
          /\ \A p \in Sales \ {q} : ledger'[p] = ledger[p]
      BY <2>1, <2>5, BeginRepayTyped
    <3> QED BY <2>2, <3>1
  <2>6. CASE ViewAgreements
    BY <2>1, <2>2, <2>6, ViewTyped
  <2>7. CASE ledger' = ledger
    BY <2>2, <2>7
  <2> QED
    BY <1>1, <2>3, <2>4, <2>5, <2>6, <2>7
    DEF Next, vars, BeginReturn, CountReturned, Abandon, NextDay
<1>2. LedgerInv /\ LedgerInv' /\ [Next]_vars =>
         [\A s \in Sales \ clashed' :
             ledger[s].agreement = "PAID" => ledger'[s].agreement = "PAID"]_vars
  BY <1>1
<1> QED BY LedgerInvHolds, <1>2, PTL DEF Spec, PaidStaysPaid
=============================================================================
