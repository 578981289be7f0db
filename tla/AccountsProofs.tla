--------------------------- MODULE AccountsProofs ---------------------------
(***************************************************************************)
(* Proofs about what customers spend, for any customers, sales, baskets,   *)
(* loyalty rule and number of requests at one time.  The balances a sale   *)
(* decides on are sums over the customer's sales; what they do when one    *)
(* sale changes comes from module Sums.                                    *)
(***************************************************************************)
EXTENDS Accounts, Sums

SaleRequest == [op : {"sale"}, sale : Sales, credit : Int, owed : Nat, limit : Limits]
RepayRequest == [op : {"repay"}, sale : Sales, amount : Amounts, due : Nat]
ReturnRequest == [op : {"return"}, sale : Sales, amount : Amounts, resolution : Resolutions,
                  points : Int, due : Nat]
AdjustRequest == [op : {"adjust"}, customer : Customers, delta : Adjustments, points : Int]

\* A request of each kind has the fields of its kind.
LEMMA RequestKinds ==
    ASSUME TypeOK, NEW k \in Clerks
    PROVE  /\ request[k].op = "sale" => request[k] \in SaleRequest
           /\ request[k].op = "repay" => request[k] \in RepayRequest
           /\ request[k].op = "return" => request[k] \in ReturnRequest
           /\ request[k].op = "adjust" => request[k] \in AdjustRequest
<1>1. request[k] \in Requests
  BY DEF TypeOK
<1> QED
  BY <1>1 DEF Requests, Idle, SaleRequest, RepayRequest, ReturnRequest, AdjustRequest

-----------------------------------------------------------------------------
(* What the model's operators return.                                      *)

LEMMA BasketTyped ==
    ASSUME NEW s \in Sales
    PROVE  /\ CustomerOf[s] \in Customers
           /\ Basket[s].total \in Nat /\ Basket[s].redeem \in Nat
           /\ Basket[s].credit \in Nat /\ Basket[s].financed \in Nat
           /\ Payable(s) \in Nat
<1>1. Basket[s] \in Payment /\ CustomerOf[s] \in Customers
  BY AccountsAssumption
<1>2. /\ Basket[s].total \in Nat /\ Basket[s].redeem \in Nat
      /\ Basket[s].credit \in Nat /\ Basket[s].financed \in Nat
  BY <1>1 DEF Payment
<1>3. Basket[s].credit + Basket[s].financed <= Payable(s)
  BY BasketAssumption
<1>4. Basket[s].redeem * PointValue \in Int
  BY <1>2, AccountsAssumption
<1>5. Payable(s) \in Int
  BY <1>2, <1>4 DEF Payable
<1>6. Payable(s) \in Nat
  BY <1>2, <1>3, <1>5
<1> QED BY <1>1, <1>2, <1>6

LEMMA Quotient ==
    ASSUME NEW n \in Nat, NEW d \in Nat \ {0}
    PROVE  n \div d \in Nat
OBVIOUS

LEMMA EarnedTyped ==
    ASSUME NEW s \in Sales
    PROVE  Earned(s) \in Nat
<1>1. Payable(s) \div SpendAmount \in Nat
  BY BasketTyped, Quotient, AccountsAssumption
<1>2. \A x, y \in Nat : x * y \in Nat
  OBVIOUS
<1> QED BY <1>1, <1>2, AccountsAssumption DEF Earned

\* What a return sets off, takes back, pays out and awards.
LEMMA ReturnParts ==
    ASSUME NEW r \in ReturnRequest
    PROVE  /\ SetOff(r) \in Nat /\ SetOff(r) <= r.due /\ SetOff(r) <= r.amount
           /\ r.amount - SetOff(r) \in Nat
           /\ (r.amount - SetOff(r)) \div RefundUnit \in Nat
           /\ Reversal(r) \in Nat /\ (Reversal(r) > 0 => Reversal(r) <= r.points)
<1>1. r.amount \in Nat /\ r.due \in Nat /\ r.points \in Int
  BY AccountsAssumption DEF ReturnRequest
<1>2. SetOff(r) \in Nat /\ SetOff(r) <= r.due /\ SetOff(r) <= r.amount
  BY <1>1 DEF SetOff, Smaller
<1>3. r.amount - SetOff(r) \in Nat
  BY <1>1, <1>2
<1>4. (r.amount - SetOff(r)) \div RefundUnit \in Nat
  BY <1>3, Quotient, AccountsAssumption
<1>5. r.amount \div RefundUnit \in Nat
  BY <1>1, Quotient, AccountsAssumption
<1>6. Reversal(r) \in Nat /\ (Reversal(r) > 0 => Reversal(r) <= r.points)
  BY <1>1, <1>5 DEF Reversal, Larger, Smaller
<1> QED BY <1>2, <1>3, <1>4, <1>6

LEMMA AddTyped ==
    ASSUME NEW f \in [Customers -> Int], NEW c \in Customers, NEW a \in Int
    PROVE  /\ Add(f, c, a) \in [Customers -> Int]
           /\ \A d \in Customers : Add(f, c, a)[d] = IF d = c THEN f[d] + a ELSE f[d]
BY DEF Add

LEMMA AddMore ==
    ASSUME NEW f \in [Customers -> Nat], NEW c \in Customers, NEW a \in Nat
    PROVE  /\ Add(f, c, a) \in [Customers -> Nat]
           /\ \A d \in Customers : Add(f, c, a)[d] = IF d = c THEN f[d] + a ELSE f[d]
BY DEF Add

LEMMA OwedTyped ==
    ASSUME TypeOK, NEW c \in Customers
    PROVE  Owed(c) \in Nat
<1>1. IsFiniteSet(SalesOf(c)) /\ SalesOf(c) \subseteq Sales
  BY FS_Subset, AccountsAssumption DEF SalesOf
<1>2. \A s \in SalesOf(c) : [q \in Sales |-> sale[q].due][s] \in Nat
  BY <1>1 DEF TypeOK, SaleRow
<1> QED BY <1>1, <1>2, SumNat DEF Owed

LEMMA MarkTyped ==
    ASSUME NEW c \in Customers, NEW a \in {"points", "credit", "owed"}, NEW b \in BOOLEAN
    PROVE  Mark(c, a, b) \subseteq Customers \X {"points", "credit", "owed"}
BY DEF Mark

-----------------------------------------------------------------------------
(* Type correctness.                                                       *)

LEMMA InitTyped == Init => TypeOK
BY AccountsAssumption DEF Init, TypeOK, SaleRow, Requests

\* A request is taken in.
LEMMA StartTyped ==
    ASSUME TypeOK, NEW k \in Clerks, NEW r \in Requests, Start(k, r)
    PROVE  TypeOK'
BY DEF TypeOK, Start

LEMMA IdleTyped ==
    ASSUME TypeOK, NEW k \in Clerks, Finish(k)
    PROVE  request' \in [Clerks -> Requests]
BY DEF TypeOK, Finish, Requests

LEMMA BeginTyped ==
    ASSUME TypeOK, NEW k \in Clerks,
           \/ \E s \in Sales :
                 \/ BeginSale(k, s)
                 \/ \E amount \in Amounts :
                       \/ BeginRepay(k, s, amount)
                       \/ \E resolution \in Resolutions : BeginReturn(k, s, amount, resolution)
           \/ \E c \in Customers, delta \in Adjustments : BeginAdjust(k, c, delta)
    PROVE  TypeOK'
<1>1. ASSUME NEW s \in Sales, BeginSale(k, s)
      PROVE  TypeOK'
  <2> DEFINE c == CustomerOf[s]
             r == [op |-> "sale", sale |-> s, credit |-> credit[c], owed |-> Owed(c),
                   limit |-> limit[c]]
  <2>1. c \in Customers
    BY BasketTyped
  <2>2. r \in Requests
    BY <2>1, OwedTyped DEF TypeOK, Requests
  <2> QED BY <1>1, <2>2, StartTyped DEF BeginSale
<1>2. ASSUME NEW s \in Sales, NEW amount \in Amounts, BeginRepay(k, s, amount)
      PROVE  TypeOK'
  <2> DEFINE r == [op |-> "repay", sale |-> s, amount |-> amount, due |-> sale[s].due]
  <2>1. r \in Requests
    BY DEF TypeOK, SaleRow, Requests
  <2> QED BY <1>2, <2>1, StartTyped DEF BeginRepay
<1>3. ASSUME NEW s \in Sales, NEW amount \in Amounts, NEW resolution \in Resolutions,
             BeginReturn(k, s, amount, resolution)
      PROVE  TypeOK'
  <2> DEFINE r == [op |-> "return", sale |-> s, amount |-> amount, resolution |-> resolution,
                   points |-> points[CustomerOf[s]], due |-> sale[s].due]
  <2>1. points[CustomerOf[s]] \in Int /\ sale[s].due \in Nat
    BY BasketTyped DEF TypeOK, SaleRow
  <2>2. r \in Requests
    BY <2>1 DEF Requests
  <2> QED BY <1>3, <2>2, StartTyped DEF BeginReturn
<1>4. ASSUME NEW c \in Customers, NEW delta \in Adjustments, BeginAdjust(k, c, delta)
      PROVE  TypeOK'
  <2> DEFINE r == [op |-> "adjust", customer |-> c, delta |-> delta, points |-> points[c]]
  <2>1. r \in Requests
    BY DEF TypeOK, Requests
  <2> QED BY <1>4, <2>1, StartTyped DEF BeginAdjust
<1> QED BY <1>1, <1>2, <1>3, <1>4

LEMMA SaleTyped ==
    ASSUME TypeOK, NEW k \in Clerks, CommitSale(k)
    PROVE  TypeOK'
<1> DEFINE r == request[k]
           s == r.sale
           c == CustomerOf[s]
<1>1. r \in SaleRequest /\ s \in Sales /\ c \in Customers
  BY RequestKinds, BasketTyped DEF CommitSale, SaleRequest
<1>2. /\ Basket[s].redeem \in Nat /\ Basket[s].credit \in Nat
      /\ Basket[s].financed \in Nat /\ Basket[s].total \in Nat /\ Earned(s) \in Nat
  BY <1>1, BasketTyped, EarnedTyped
<1>3. points' \in [Customers -> Int]
  <2>1. Earned(s) - Basket[s].redeem \in Int
    BY <1>2
  <2> QED BY <1>1, <2>1, AddTyped DEF CommitSale, TypeOK
<1>4. credit' \in [Customers -> Int]
  <2>1. -Basket[s].credit \in Int
    BY <1>2
  <2> QED BY <1>1, <2>1, AddTyped DEF CommitSale, TypeOK
<1>5. granted' \in [Customers -> Nat]
  BY <1>1, <1>2, AddMore DEF CommitSale, TypeOK
<1>6. sale' \in [Sales -> SaleRow]
  BY <1>1, <1>2 DEF CommitSale, TypeOK, SaleRow
<1>7. stale' \subseteq Customers \X {"points", "credit", "owed"}
  BY <1>1, MarkTyped DEF CommitSale, TypeOK
<1>8. request' \in [Clerks -> Requests]
  BY IdleTyped DEF CommitSale
<1> QED BY <1>3, <1>4, <1>5, <1>6, <1>7, <1>8 DEF CommitSale, TypeOK

LEMMA RepayTyped ==
    ASSUME TypeOK, NEW k \in Clerks, CommitRepay(k)
    PROVE  TypeOK'
<1> DEFINE r == request[k]
<1>1. /\ r \in RepayRequest /\ r.sale \in Sales /\ CustomerOf[r.sale] \in Customers
      /\ r.due \in Nat /\ r.amount \in Nat
  BY RequestKinds, BasketTyped, AccountsAssumption DEF CommitRepay, RepayRequest
<1>2. Larger(0, r.due - r.amount) \in Nat
  BY <1>1 DEF Larger
<1>3. sale' \in [Sales -> SaleRow]
  BY <1>1, <1>2 DEF CommitRepay, TypeOK, SaleRow
<1>4. stale' \subseteq Customers \X {"points", "credit", "owed"}
  BY <1>1, MarkTyped DEF CommitRepay, TypeOK
<1>5. request' \in [Clerks -> Requests]
  BY IdleTyped DEF CommitRepay
<1> QED BY <1>3, <1>4, <1>5 DEF CommitRepay, TypeOK

LEMMA ReturnTyped ==
    ASSUME TypeOK, NEW k \in Clerks, CommitReturn(k)
    PROVE  TypeOK'
<1> DEFINE r == request[k]
           s == r.sale
           c == CustomerOf[s]
           refund == r.amount - SetOff(r)
           award == IF r.resolution = "LOYALTY_POINTS" THEN refund \div RefundUnit ELSE 0
           back == IF r.resolution = "STORE_CREDIT" THEN refund ELSE 0
<1>1. /\ r \in ReturnRequest /\ s \in Sales /\ c \in Customers
      /\ r.due \in Nat /\ r.amount \in Nat
  BY RequestKinds, BasketTyped, AccountsAssumption DEF CommitReturn, ReturnRequest
<1>2. /\ SetOff(r) \in Nat /\ SetOff(r) <= r.due
      /\ award \in Nat /\ back \in Nat /\ Reversal(r) \in Nat
  BY <1>1, ReturnParts
<1>3. /\ points' = Add(points, c, award - Reversal(r)) /\ credit' = Add(credit, c, back)
      /\ granted' = Add(granted, c, award) /\ issued' = Add(issued, c, back)
      /\ sale' = [sale EXCEPT ![s].kept = @ - r.amount,
                              ![s].due = IF SetOff(r) > 0 THEN r.due - SetOff(r) ELSE @]
      /\ stale' = stale
            \cup Mark(c, "points", Reversal(r) > 0 /\ r.points # points[c])
            \cup Mark(c, "owed", SetOff(r) > 0 /\ r.due # sale[s].due)
      /\ Finish(k) /\ UNCHANGED limit
  BY DEF CommitReturn
<1> HIDE DEF award, back
<1>4. points' \in [Customers -> Int] /\ credit' \in [Customers -> Int]
  <2>1. award - Reversal(r) \in Int /\ back \in Int
    BY <1>2
  <2> QED BY <1>1, <1>3, <2>1, AddTyped DEF TypeOK
<1>5. granted' \in [Customers -> Nat] /\ issued' \in [Customers -> Nat]
  BY <1>1, <1>2, <1>3, AddMore DEF TypeOK
<1>6. sale' \in [Sales -> SaleRow]
  <2>1. sale[s] \in SaleRow
    BY <1>1 DEF TypeOK
  <2>2. sale[s].kept - r.amount \in Int
    BY <1>1, <2>1 DEF SaleRow
  <2>3. (IF SetOff(r) > 0 THEN r.due - SetOff(r) ELSE sale[s].due) \in Nat
    BY <1>1, <1>2, <2>1 DEF SaleRow
  <2>4. \A row \in SaleRow, kept \in Int, due \in Nat :
           [row EXCEPT !.kept = kept, !.due = due] \in SaleRow
    BY DEF SaleRow
  <2> DEFINE d == IF SetOff(r) > 0 THEN r.due - SetOff(r) ELSE sale[s].due
             q == sale[s].kept - r.amount
  <2>5. sale' = [sale EXCEPT ![s] = [sale[s] EXCEPT !.kept = q, !.due = d]]
    BY <1>1, <1>3 DEF TypeOK
  <2>6. [sale[s] EXCEPT !.kept = q, !.due = d] \in SaleRow
    <3> HIDE DEF q, d
    <3> QED BY <2>1, <2>2, <2>3, <2>4 DEF q, d
  <2> QED BY <2>5, <2>6 DEF TypeOK
<1>7. stale' \subseteq Customers \X {"points", "credit", "owed"}
  BY <1>1, <1>3, MarkTyped DEF TypeOK
<1>8. request' \in [Clerks -> Requests]
  BY <1>3, IdleTyped
<1> QED BY <1>3, <1>4, <1>5, <1>6, <1>7, <1>8 DEF TypeOK

LEMMA AdjustTyped ==
    ASSUME TypeOK, NEW k \in Clerks, CommitAdjust(k)
    PROVE  TypeOK'
<1> DEFINE r == request[k]
           c == r.customer
<1>1. r \in AdjustRequest /\ c \in Customers /\ r.delta \in Int
  BY RequestKinds, AccountsAssumption DEF CommitAdjust, AdjustRequest
<1>2. Larger(0, r.delta) \in Nat
  BY <1>1 DEF Larger
<1>3. points' \in [Customers -> Int]
  BY <1>1, AddTyped DEF CommitAdjust, TypeOK
<1>4. granted' \in [Customers -> Nat]
  BY <1>1, <1>2, AddMore DEF CommitAdjust, TypeOK
<1>5. stale' \subseteq Customers \X {"points", "credit", "owed"}
  BY <1>1, MarkTyped DEF CommitAdjust, TypeOK
<1>6. request' \in [Clerks -> Requests]
  BY IdleTyped DEF CommitAdjust
<1> QED BY <1>3, <1>4, <1>5, <1>6 DEF CommitAdjust, TypeOK

LEMMA TypedStep ==
    ASSUME TypeOK, [Next]_vars
    PROVE  TypeOK'
<1>1. ASSUME NEW k \in Clerks, Abandon(k)
      PROVE  TypeOK'
  BY <1>1, IdleTyped DEF Abandon, TypeOK
<1>2. ASSUME NEW c \in Customers, NEW l \in Limits, SetLimit(c, l)
      PROVE  TypeOK'
  BY <1>2 DEF SetLimit, TypeOK
<1>3. CASE UNCHANGED vars
  BY <1>3 DEF vars, TypeOK
<1> QED
  BY <1>1, <1>2, <1>3, BeginTyped, SaleTyped, RepayTyped, ReturnTyped, AdjustTyped DEF Next

\* The rows of the accounts, sales and requests keep their types through every
\* handler: no debt becomes negative and no history shrinks below zero.
THEOREM AccountsTyped == Spec => []TypeOK
<1>1. TypeOK /\ [Next]_vars => TypeOK'
  BY TypedStep
<1> QED BY InitTyped, <1>1, PTL DEF Spec

-----------------------------------------------------------------------------
(* The sums over the customer's completed sales.                           *)

RedeemedIn == [s \in Sales |-> Basket[s].redeem]
CreditIn == [s \in Sales |-> Basket[s].credit]

LEMMA SpentTyped ==
    ASSUME NEW c \in Customers
    PROVE  /\ IsFiniteSet(Completed(c)) /\ Completed(c) \subseteq Sales
           /\ Redeemed(c) = SumFunctionOnSet(RedeemedIn, Completed(c)) /\ Redeemed(c) \in Nat
           /\ PaidByCredit(c) = SumFunctionOnSet(CreditIn, Completed(c))
           /\ PaidByCredit(c) \in Nat
<1>1. IsFiniteSet(Completed(c)) /\ Completed(c) \subseteq Sales
  BY FS_Subset, AccountsAssumption DEF Completed, SalesOf
<1>2. \A s \in Completed(c) : RedeemedIn[s] \in Nat /\ CreditIn[s] \in Nat
  BY <1>1, BasketTyped DEF RedeemedIn, CreditIn
<1>3. /\ Redeemed(c) = SumFunctionOnSet(RedeemedIn, Completed(c))
      /\ PaidByCredit(c) = SumFunctionOnSet(CreditIn, Completed(c))
  BY DEF Redeemed, PaidByCredit, RedeemedIn, CreditIn
<1> QED BY <1>1, <1>2, <1>3, SumNat

\* A sum over one more element.
LEMMA SumWith ==
    ASSUME NEW f, NEW S, IsFiniteSet(S), NEW x, x \notin S, \A y \in S \cup {x} : f[y] \in Int
    PROVE  SumFunctionOnSet(f, S \cup {x}) = f[x] + SumFunctionOnSet(f, S)
<1>1. IsFiniteSet(S \cup {x}) /\ (S \cup {x}) \ {x} = S
  BY FS_AddElement
<1> QED BY <1>1, SumWithout

\* What the customers spent changes when a sale completes, by what it takes.
LEMMA SpentStep ==
    ASSUME TypeOK, TypeOK', NEW s \in Sales, ~sale[s].completed, sale'[s].completed,
           \A q \in Sales \ {s} : sale'[q].completed = sale[q].completed,
           NEW c \in Customers
    PROVE  /\ c = CustomerOf[s] =>
                 /\ Redeemed(c)' = Redeemed(c) + Basket[s].redeem
                 /\ PaidByCredit(c)' = PaidByCredit(c) + Basket[s].credit
           /\ c # CustomerOf[s] =>
                 Redeemed(c)' = Redeemed(c) /\ PaidByCredit(c)' = PaidByCredit(c)
<1>1. /\ IsFiniteSet(Completed(c)) /\ Completed(c) \subseteq Sales
      /\ Redeemed(c) = SumFunctionOnSet(RedeemedIn, Completed(c))
      /\ PaidByCredit(c) = SumFunctionOnSet(CreditIn, Completed(c))
      /\ Redeemed(c) \in Nat /\ PaidByCredit(c) \in Nat
  BY SpentTyped
<1>2. /\ Redeemed(c)' = SumFunctionOnSet(RedeemedIn, Completed(c)')
      /\ PaidByCredit(c)' = SumFunctionOnSet(CreditIn, Completed(c)')
  BY DEF Redeemed, PaidByCredit, RedeemedIn, CreditIn
<1>3. CASE c = CustomerOf[s]
  <2>1. Completed(c)' = Completed(c) \cup {s} /\ s \notin Completed(c)
    BY <1>3 DEF Completed, SalesOf
  <2>2. \A q \in Completed(c) \cup {s} : RedeemedIn[q] \in Int /\ CreditIn[q] \in Int
    BY <1>1, BasketTyped DEF RedeemedIn, CreditIn
  <2>3. RedeemedIn[s] = Basket[s].redeem /\ CreditIn[s] = Basket[s].credit
    BY DEF RedeemedIn, CreditIn
  <2>4. /\ SumFunctionOnSet(RedeemedIn, Completed(c) \cup {s}) = Basket[s].redeem + Redeemed(c)
        /\ SumFunctionOnSet(CreditIn, Completed(c) \cup {s}) = Basket[s].credit + PaidByCredit(c)
    BY <1>1, <2>1, <2>2, <2>3, SumWith
  <2>5. Basket[s].redeem \in Nat /\ Basket[s].credit \in Nat
    BY BasketTyped
  <2> QED BY <1>1, <1>2, <1>3, <2>1, <2>4, <2>5
<1>4. CASE c # CustomerOf[s]
  <2>1. Completed(c)' = Completed(c)
    BY <1>4 DEF Completed, SalesOf
  <2> QED BY <1>1, <1>2, <1>4, <2>1
<1> QED BY <1>3, <1>4

LEMMA SpentSame ==
    ASSUME \A q \in Sales : sale'[q].completed = sale[q].completed
    PROVE  \A c \in Customers :
              Redeemed(c)' = Redeemed(c) /\ PaidByCredit(c)' = PaidByCredit(c)
<1>1. \A c \in Customers : Completed(c)' = Completed(c)
  BY DEF Completed, SalesOf
<1> QED BY <1>1 DEF Redeemed, PaidByCredit

-----------------------------------------------------------------------------
(* What a customer spends the customer had.                                *)

\* What the requests in progress were let through with.
RequestInv ==
    /\ \A k \in Clerks : request[k].op = "sale" =>
          LET s == request[k].sale IN
          /\ ~sale[s].completed
          /\ \A j \in Clerks : request[j].op = "sale" /\ request[j].sale = s => j = k
          /\ Basket[s].credit > 0 => request[k].credit >= Basket[s].credit
          /\ Basket[s].financed > 0 =>
                request[k].owed + Basket[s].financed <= request[k].limit
    /\ \A k \in Clerks :
          request[k].op \in {"repay", "return"} => sale[request[k].sale].completed
    /\ \A k \in Clerks : request[k].op = "adjust" => request[k].points + request[k].delta >= 0
    /\ \A s \in Sales : ~sale[s].completed => sale[s].due = 0

\* The points a customer has and has spent were all given.
PointsInv == \A c \in Customers : points[c] + Redeemed(c) <= granted[c]

AccountsInv == TypeOK /\ RequestInv /\ PointsInv /\ BalancesCovered

LEMMA InitAccountsInv == Init => AccountsInv
<1> SUFFICES ASSUME Init PROVE AccountsInv
  OBVIOUS
<1>1. TypeOK
  BY InitTyped
<1>2. RequestInv
  BY AccountsAssumption DEF Init, RequestInv, Idle
<1>3. \A c \in Customers : Redeemed(c) = 0 /\ PaidByCredit(c) = 0
  <2> TAKE c \in Customers
  <2>1. Completed(c) = {}
    BY DEF Init, Completed, SalesOf
  <2> QED BY <2>1, SpentTyped, SumOfNone
<1>4. /\ \A c \in Customers : OpeningPoints[c] \in Nat /\ OpeningCredit[c] \in Nat
      /\ points = OpeningPoints /\ granted = OpeningPoints /\ credit = OpeningCredit
      /\ \A c \in Customers : issued[c] = 0
  BY AccountsAssumption DEF Init
<1>5. PointsInv /\ PointsSpentOnce /\ PointsCovered
  BY <1>3, <1>4 DEF PointsInv, PointsSpentOnce, PointsCovered
<1>6. StoreCreditCovered
  BY <1>3, <1>4 DEF StoreCreditCovered
<1> QED BY <1>1, <1>2, <1>5, <1>6 DEF AccountsInv, BalancesCovered

\* A request that ends, or does not begin, leaves what the others were let
\* through with, as long as no sale it is about is completed meanwhile.
LEMMA RequestOver ==
    ASSUME AccountsInv, TypeOK', NEW k \in Clerks, Finish(k),
           \A s \in Sales : sale[s].completed => sale'[s].completed,
           \A s \in Sales : sale'[s].completed /\ ~sale[s].completed =>
               request[k].op = "sale" /\ request[k].sale = s,
           \A s \in Sales : ~sale'[s].completed => sale'[s].due = 0
    PROVE  RequestInv'
<1>1. /\ request'[k] = Idle /\ Idle.op = "idle"
      /\ \A j \in Clerks \ {k} : request'[j] = request[j]
  BY DEF Finish, AccountsInv, TypeOK, Idle
<1>2. \A j \in Clerks :
         /\ request[j].op = "sale" => request[j].sale \in Sales
         /\ request[j].op \in {"repay", "return"} => request[j].sale \in Sales
  BY RequestKinds DEF AccountsInv, SaleRequest, RepayRequest, ReturnRequest
<1>3. ASSUME NEW j \in Clerks, request'[j].op = "sale"
      PROVE  LET s == request'[j].sale IN
             /\ ~sale'[s].completed
             /\ \A i \in Clerks : request'[i].op = "sale" /\ request'[i].sale = s => i = j
             /\ Basket[s].credit > 0 => request'[j].credit >= Basket[s].credit
             /\ Basket[s].financed > 0 =>
                   request'[j].owed + Basket[s].financed <= request'[j].limit
  <2>1. j # k /\ request'[j] = request[j] /\ request[j].op = "sale"
    BY <1>1, <1>3
  <2>2. /\ ~sale[request[j].sale].completed
        /\ \A i \in Clerks :
              request[i].op = "sale" /\ request[i].sale = request[j].sale => i = j
        /\ Basket[request[j].sale].credit > 0 =>
              request[j].credit >= Basket[request[j].sale].credit
        /\ Basket[request[j].sale].financed > 0 =>
              request[j].owed + Basket[request[j].sale].financed <= request[j].limit
    BY <2>1 DEF AccountsInv, RequestInv
  <2>3. ~sale'[request[j].sale].completed
    BY <1>2, <2>1, <2>2
  <2>4. \A i \in Clerks : request'[i].op = "sale" /\ request'[i].sale = request[j].sale => i = j
    BY <1>1, <2>2
  <2> QED BY <2>1, <2>2, <2>3, <2>4
<1>4. ASSUME NEW j \in Clerks, request'[j].op \in {"repay", "return"}
      PROVE  sale'[request'[j].sale].completed
  <2>1. request'[j] = request[j]
    BY <1>1, <1>4
  <2> QED BY <1>2, <1>4, <2>1 DEF AccountsInv, RequestInv
<1>5. ASSUME NEW j \in Clerks, request'[j].op = "adjust"
      PROVE  request'[j].points + request'[j].delta >= 0
  <2>1. request'[j] = request[j]
    BY <1>1, <1>5
  <2> QED BY <1>5, <2>1 DEF AccountsInv, RequestInv
<1> QED BY <1>3, <1>4, <1>5 DEF RequestInv

\* A request begins: what it was let through with is what it read.
LEMMA BeginInv ==
    ASSUME AccountsInv, NEW k \in Clerks,
           \/ \E s \in Sales :
                 \/ BeginSale(k, s)
                 \/ \E amount \in Amounts :
                       \/ BeginRepay(k, s, amount)
                       \/ \E resolution \in Resolutions : BeginReturn(k, s, amount, resolution)
           \/ \E c \in Customers, delta \in Adjustments : BeginAdjust(k, c, delta)
    PROVE  AccountsInv'
<1>1. TypeOK'
  BY BeginTyped DEF AccountsInv
<1>2. PICK r : Start(k, r)
  BY DEF BeginSale, BeginRepay, BeginReturn, BeginAdjust
<1>3. UNCHANGED <<points, credit, limit, sale, granted, issued, stale>>
  BY <1>2 DEF Start
<1>4. PointsInv' /\ BalancesCovered'
  <2>1. \A c \in Customers : Redeemed(c)' = Redeemed(c) /\ PaidByCredit(c)' = PaidByCredit(c)
    BY <1>3, SpentSame
  <2> QED
    BY <1>3, <2>1
    DEF AccountsInv, PointsInv, BalancesCovered, PointsSpentOnce, PointsCovered,
        StoreCreditCovered
<1>5. RequestInv'
  <2>1. request[k] = Idle /\ \A j \in Clerks \ {k} : request'[j] = request[j]
    BY <1>2 DEF Start, AccountsInv, TypeOK
  <2>2. \A s \in Sales : ~sale'[s].completed => sale'[s].due = 0
    BY <1>3 DEF AccountsInv, RequestInv
  <2>3. ASSUME NEW s \in Sales, BeginSale(k, s)
        PROVE  RequestInv'
    <3>1. request'[k] = [op |-> "sale", sale |-> s, credit |-> credit[CustomerOf[s]],
                         owed |-> Owed(CustomerOf[s]), limit |-> limit[CustomerOf[s]]]
      BY <2>3 DEF BeginSale, Start, AccountsInv, TypeOK
    <3>2. /\ ~sale[s].completed
          /\ \A j \in Clerks : request[j].op = "sale" => request[j].sale # s
          /\ Basket[s].credit > 0 => credit[CustomerOf[s]] >= Basket[s].credit
          /\ Basket[s].financed > 0 =>
                Owed(CustomerOf[s]) + Basket[s].financed <= limit[CustomerOf[s]]
      BY <2>3 DEF BeginSale, Covered, WithinLimit
    <3> QED BY <1>3, <2>1, <2>2, <3>1, <3>2 DEF AccountsInv, RequestInv
  <2>4. ASSUME NEW s \in Sales, NEW amount \in Amounts, BeginRepay(k, s, amount)
        PROVE  RequestInv'
    <3>1. request'[k] = [op |-> "repay", sale |-> s, amount |-> amount, due |-> sale[s].due]
      BY <2>4 DEF BeginRepay, Start, AccountsInv, TypeOK
    <3>2. sale[s].completed
      <4>1. amount \in Nat \ {0} /\ amount <= sale[s].due
        BY <2>4, AccountsAssumption DEF BeginRepay
      <4>2. sale[s].due # 0
        BY <4>1
      <4> QED BY <4>2 DEF AccountsInv, RequestInv
    <3> QED BY <1>3, <2>1, <2>2, <3>1, <3>2 DEF AccountsInv, RequestInv
  <2>5. ASSUME NEW s \in Sales, NEW amount \in Amounts, NEW resolution \in Resolutions,
               BeginReturn(k, s, amount, resolution)
        PROVE  RequestInv'
    <3>1. request'[k] = [op |-> "return", sale |-> s, amount |-> amount,
                         resolution |-> resolution, points |-> points[CustomerOf[s]],
                         due |-> sale[s].due]
      BY <2>5 DEF BeginReturn, Start, AccountsInv, TypeOK
    <3>2. sale[s].completed
      BY <2>5 DEF BeginReturn
    <3> QED BY <1>3, <2>1, <2>2, <3>1, <3>2 DEF AccountsInv, RequestInv
  <2>6. ASSUME NEW c \in Customers, NEW delta \in Adjustments, BeginAdjust(k, c, delta)
        PROVE  RequestInv'
    <3>1. request'[k] = [op |-> "adjust", customer |-> c, delta |-> delta,
                         points |-> points[c]]
      BY <2>6 DEF BeginAdjust, Start, AccountsInv, TypeOK
    <3>2. points[c] + delta >= 0
      BY <2>6 DEF BeginAdjust
    <3> QED BY <1>3, <2>1, <2>2, <3>1, <3>2 DEF AccountsInv, RequestInv
  <2> QED BY <2>3, <2>4, <2>5, <2>6
<1> QED BY <1>1, <1>4, <1>5 DEF AccountsInv

\* A sale takes the points it found in its transaction, and the credit it was
\* let through with, which is there unless it changed meanwhile.
LEMMA SaleInv ==
    ASSUME AccountsInv, NEW k \in Clerks, CommitSale(k)
    PROVE  AccountsInv'
<1> PICK s \in Sales : s = request[k].sale
  BY RequestKinds DEF AccountsInv, CommitSale, SaleRequest
<1> PICK c \in Customers : c = CustomerOf[s]
  BY BasketTyped
<1>1. TypeOK /\ TypeOK'
  BY SaleTyped DEF AccountsInv
<1>2. /\ Basket[s].redeem \in Nat /\ Basket[s].credit \in Nat
      /\ Basket[s].financed \in Nat /\ Earned(s) \in Nat
  BY BasketTyped, EarnedTyped
<1>3. /\ request[k].op = "sale" /\ Finish(k) /\ UNCHANGED issued
      /\ Basket[s].redeem > 0 => points[c] >= Basket[s].redeem
  BY DEF CommitSale, EnoughPoints
<1>4. /\ sale'[s].completed /\ \A q \in Sales \ {s} : sale'[q] = sale[q]
      /\ sale'[s].due = Basket[s].financed
  BY <1>1 DEF CommitSale, TypeOK
<1>5. ~sale[s].completed
  BY <1>3 DEF AccountsInv, RequestInv
<1>6. RequestInv'
  <2>1. \A q \in Sales : ~sale'[q].completed => sale'[q].due = 0
    BY <1>4 DEF AccountsInv, RequestInv
  <2>2. \A q \in Sales : sale[q].completed => sale'[q].completed
    BY <1>4
  <2>3. \A q \in Sales : sale'[q].completed /\ ~sale[q].completed => q = s
    BY <1>4
  <2> QED BY <1>1, <1>3, <2>1, <2>2, <2>3, RequestOver
<1>7. \A d \in Customers :
         /\ d = c => /\ points'[d] = points[d] + Earned(s) - Basket[s].redeem
                     /\ credit'[d] = credit[d] - Basket[s].credit
                     /\ granted'[d] = granted[d] + Earned(s)
                     /\ Redeemed(d)' = Redeemed(d) + Basket[s].redeem
                     /\ PaidByCredit(d)' = PaidByCredit(d) + Basket[s].credit
         /\ d # c => /\ points'[d] = points[d] /\ credit'[d] = credit[d]
                     /\ granted'[d] = granted[d]
                     /\ Redeemed(d)' = Redeemed(d) /\ PaidByCredit(d)' = PaidByCredit(d)
  <2>1. Earned(s) - Basket[s].redeem \in Int /\ -Basket[s].credit \in Int
    BY <1>2
  <2>2. /\ points' = Add(points, c, Earned(s) - Basket[s].redeem)
        /\ credit' = Add(credit, c, -Basket[s].credit)
        /\ granted' = Add(granted, c, Earned(s))
    BY DEF CommitSale
  <2>3. /\ points \in [Customers -> Int] /\ credit \in [Customers -> Int]
        /\ granted \in [Customers -> Nat]
    BY <1>1 DEF TypeOK
  <2>4. \A d \in Customers :
           /\ Add(points, c, Earned(s) - Basket[s].redeem)[d] =
                 IF d = c THEN points[d] + (Earned(s) - Basket[s].redeem) ELSE points[d]
           /\ Add(credit, c, -Basket[s].credit)[d] =
                 IF d = c THEN credit[d] + (-Basket[s].credit) ELSE credit[d]
           /\ Add(granted, c, Earned(s))[d] =
                 IF d = c THEN granted[d] + Earned(s) ELSE granted[d]
    <3> DEFINE gain == Earned(s) - Basket[s].redeem
               spent == -Basket[s].credit
               earned == Earned(s)
    <3>1. gain \in Int /\ spent \in Int /\ earned \in Nat
      BY <1>2, <2>1
    <3> HIDE DEF gain, spent, earned
    <3>2. \A d \in Customers :
             Add(points, c, gain)[d] = IF d = c THEN points[d] + gain ELSE points[d]
      BY <2>3, <3>1 DEF Add
    <3>3. \A d \in Customers :
             Add(credit, c, spent)[d] = IF d = c THEN credit[d] + spent ELSE credit[d]
      BY <2>3, <3>1, AddTyped
    <3>4. \A d \in Customers :
             Add(granted, c, earned)[d] = IF d = c THEN granted[d] + earned ELSE granted[d]
      BY <2>3, <3>1, AddMore
    <3> QED BY <3>2, <3>3, <3>4 DEF gain, spent, earned
  <2>5. \A d \in Customers : points[d] \in Int /\ credit[d] \in Int
    BY <1>1 DEF TypeOK
  <2>6. \A d \in Customers :
           /\ d = c => /\ Redeemed(d)' = Redeemed(d) + Basket[s].redeem
                       /\ PaidByCredit(d)' = PaidByCredit(d) + Basket[s].credit
           /\ d # c => Redeemed(d)' = Redeemed(d) /\ PaidByCredit(d)' = PaidByCredit(d)
    BY <1>1, <1>4, <1>5, SpentStep
  <2> QED BY <1>2, <2>2, <2>3, <2>4, <2>5, <2>6
<1>8. \A d \in Customers : /\ points[d] \in Int /\ credit[d] \in Int /\ granted[d] \in Nat
                           /\ issued[d] \in Nat /\ OpeningCredit[d] \in Nat
                           /\ Redeemed(d) \in Nat /\ PaidByCredit(d) \in Nat
  BY <1>1, SpentTyped, AccountsAssumption DEF TypeOK
<1>9. PointsInv'
  BY <1>2, <1>7, <1>8 DEF AccountsInv, PointsInv
<1>10. PointsSpentOnce'
  <2> SUFFICES ASSUME NEW d \in Customers PROVE Redeemed(d)' <= granted'[d]
    BY DEF PointsSpentOnce
  <2>1. Redeemed(d) <= granted[d] /\ points[d] + Redeemed(d) <= granted[d]
    BY DEF AccountsInv, PointsInv, BalancesCovered, PointsSpentOnce
  <2> QED BY <1>2, <1>3, <1>7, <1>8, <2>1
<1>11. stale \subseteq stale'
  BY DEF CommitSale
<1>12. PointsCovered'
  <2> SUFFICES ASSUME NEW d \in Customers, <<d, "points">> \notin stale'
               PROVE  points'[d] >= 0
    BY DEF PointsCovered
  <2>1. points[d] >= 0
    BY <1>11 DEF AccountsInv, BalancesCovered, PointsCovered
  <2> QED BY <1>2, <1>3, <1>7, <1>8, <2>1
<1>13. StoreCreditCovered'
  <2> SUFFICES ASSUME NEW d \in Customers
               PROVE  /\ credit'[d] = OpeningCredit[d] + issued'[d] - PaidByCredit(d)'
                      /\ <<d, "credit">> \notin stale' => credit'[d] >= 0
    BY DEF StoreCreditCovered
  <2>1. /\ credit[d] = OpeningCredit[d] + issued[d] - PaidByCredit(d)
        /\ <<d, "credit">> \notin stale => credit[d] >= 0
    BY DEF AccountsInv, BalancesCovered, StoreCreditCovered
  <2>2. credit'[d] = OpeningCredit[d] + issued'[d] - PaidByCredit(d)'
    BY <1>2, <1>3, <1>7, <1>8, <2>1
  <2>3. ASSUME <<d, "credit">> \notin stale' PROVE credit'[d] >= 0
    <3>1. CASE d # c
      BY <1>7, <1>11, <2>1, <2>3, <3>1
    <3>2. CASE d = c /\ Basket[s].credit = 0
      BY <1>7, <1>8, <1>11, <2>1, <2>3, <3>2
    <3>3. CASE d = c /\ Basket[s].credit > 0
      <4>1. request[k].credit = credit[c]
        BY <2>3, <3>3 DEF CommitSale, Mark
      <4>2. request[k].credit >= Basket[s].credit
        BY <1>3, <3>3 DEF AccountsInv, RequestInv
      <4> QED BY <1>2, <1>7, <1>8, <3>3, <4>1, <4>2
    <3> QED BY <1>2, <3>1, <3>2, <3>3
  <2> QED BY <2>2, <2>3
<1> QED BY <1>1, <1>6, <1>9, <1>10, <1>12, <1>13 DEF AccountsInv, BalancesCovered

\* What is credited to a customer, other than by a sale, keeps the balances.
LEMMA BalancesStep ==
    ASSUME AccountsInv, \A q \in Sales : sale'[q].completed = sale[q].completed,
           NEW c \in Customers, NEW p \in Int, NEW g \in Nat, NEW b \in Nat, p <= g,
           \A d \in Customers :
               /\ d = c => /\ points'[d] = points[d] + p /\ granted'[d] = granted[d] + g
                           /\ credit'[d] = credit[d] + b /\ issued'[d] = issued[d] + b
               /\ d # c => /\ points'[d] = points[d] /\ granted'[d] = granted[d]
                           /\ credit'[d] = credit[d] /\ issued'[d] = issued[d],
           stale \subseteq stale',
           <<c, "points">> \notin stale' => points[c] + p >= 0
    PROVE  PointsInv' /\ BalancesCovered'
<1>1. \A d \in Customers : Redeemed(d)' = Redeemed(d) /\ PaidByCredit(d)' = PaidByCredit(d)
  BY SpentSame
<1>2. \A d \in Customers : /\ points[d] \in Int /\ credit[d] \in Int /\ granted[d] \in Nat
                           /\ issued[d] \in Nat /\ OpeningCredit[d] \in Nat
                           /\ Redeemed(d) \in Nat /\ PaidByCredit(d) \in Nat
  BY SpentTyped, AccountsAssumption DEF AccountsInv, TypeOK
<1>3. ASSUME NEW d \in Customers
      PROVE  /\ points'[d] + Redeemed(d)' <= granted'[d]
             /\ Redeemed(d)' <= granted'[d]
             /\ <<d, "points">> \notin stale' => points'[d] >= 0
             /\ credit'[d] = OpeningCredit[d] + issued'[d] - PaidByCredit(d)'
             /\ <<d, "credit">> \notin stale' => credit'[d] >= 0
  <2>1. /\ points[d] + Redeemed(d) <= granted[d]
        /\ Redeemed(d) <= granted[d]
        /\ <<d, "points">> \notin stale => points[d] >= 0
        /\ credit[d] = OpeningCredit[d] + issued[d] - PaidByCredit(d)
        /\ <<d, "credit">> \notin stale => credit[d] >= 0
    BY DEF AccountsInv, PointsInv, BalancesCovered, PointsSpentOnce, PointsCovered,
           StoreCreditCovered
  <2>2. CASE d = c
    BY <1>1, <1>2, <2>1, <2>2
  <2>3. CASE d # c
    BY <1>1, <1>2, <2>1, <2>3
  <2> QED BY <2>2, <2>3
<1> QED
  BY <1>3 DEF PointsInv, BalancesCovered, PointsSpentOnce, PointsCovered, StoreCreditCovered

\* A repayment changes a debt only.
LEMMA RepayInv ==
    ASSUME AccountsInv, NEW k \in Clerks, CommitRepay(k)
    PROVE  AccountsInv'
<1> PICK s \in Sales : s = request[k].sale
  BY RequestKinds DEF AccountsInv, CommitRepay, RepayRequest
<1>1. TypeOK /\ TypeOK'
  BY RepayTyped DEF AccountsInv
<1>2. /\ \A q \in Sales : sale'[q].completed = sale[q].completed
      /\ \A q \in Sales \ {s} : sale'[q] = sale[q]
  BY <1>1 DEF CommitRepay, TypeOK, SaleRow
<1>3. sale[s].completed /\ Finish(k)
  BY DEF AccountsInv, RequestInv, CommitRepay
<1>4. RequestInv'
  <2>1. \A q \in Sales : ~sale'[q].completed => sale'[q].due = 0
    BY <1>2, <1>3 DEF AccountsInv, RequestInv
  <2> QED BY <1>1, <1>2, <1>3, <2>1, RequestOver
<1>5. /\ \A d \in Customers : /\ points'[d] = points[d] /\ granted'[d] = granted[d]
                              /\ credit'[d] = credit[d] /\ issued'[d] = issued[d]
      /\ stale \subseteq stale'
  BY DEF CommitRepay
<1>6. PointsInv' /\ BalancesCovered'
  <2>1. \A d \in Customers : Redeemed(d)' = Redeemed(d) /\ PaidByCredit(d)' = PaidByCredit(d)
    BY <1>2, SpentSame
  <2> QED
    BY <1>5, <2>1
    DEF AccountsInv, PointsInv, BalancesCovered, PointsSpentOnce, PointsCovered,
        StoreCreditCovered
<1> QED BY <1>1, <1>4, <1>6 DEF AccountsInv

\* A return gives points and store credit; it takes back no more points than
\* there are, unless they changed meanwhile.
LEMMA ReturnInv ==
    ASSUME AccountsInv, NEW k \in Clerks, CommitReturn(k)
    PROVE  AccountsInv'
<1> PICK r : r = request[k]
  OBVIOUS
<1> PICK s \in Sales : s = r.sale
  BY RequestKinds DEF AccountsInv, CommitReturn, ReturnRequest
<1> PICK c \in Customers : c = CustomerOf[s]
  BY BasketTyped
<1> DEFINE refund == r.amount - SetOff(r)
           award == IF r.resolution = "LOYALTY_POINTS" THEN refund \div RefundUnit ELSE 0
           back == IF r.resolution = "STORE_CREDIT" THEN refund ELSE 0
<1>1. TypeOK /\ TypeOK'
  BY ReturnTyped DEF AccountsInv
<1>2. r \in ReturnRequest /\ r.op = "return"
  BY <1>1, RequestKinds DEF CommitReturn
<1>3. /\ award \in Nat /\ back \in Nat
      /\ Reversal(r) \in Nat /\ (Reversal(r) > 0 => Reversal(r) <= r.points)
      /\ r.points \in Int
  BY <1>2, ReturnParts DEF ReturnRequest
<1>4. /\ points' = Add(points, c, award - Reversal(r)) /\ credit' = Add(credit, c, back)
      /\ granted' = Add(granted, c, award) /\ issued' = Add(issued, c, back)
      /\ stale' = stale
            \cup Mark(c, "points", Reversal(r) > 0 /\ r.points # points[c])
            \cup Mark(c, "owed", SetOff(r) > 0 /\ r.due # sale[s].due)
      /\ Finish(k)
  BY DEF CommitReturn
<1>5. /\ \A q \in Sales : sale'[q].completed = sale[q].completed
      /\ \A q \in Sales \ {s} : sale'[q] = sale[q]
  BY <1>1 DEF CommitReturn, TypeOK, SaleRow
<1>6. sale[s].completed
  BY <1>2 DEF AccountsInv, RequestInv
<1>7. RequestInv'
  <2>1. \A q \in Sales : ~sale'[q].completed => sale'[q].due = 0
    BY <1>5, <1>6 DEF AccountsInv, RequestInv
  <2> QED BY <1>1, <1>4, <1>5, <2>1, RequestOver
<1> HIDE DEF award, back
<1>8. PointsInv' /\ BalancesCovered'
  <2> DEFINE p == award - Reversal(r)
  <2>1. p \in Int /\ p <= award
    BY <1>3
  <2>2. \A d \in Customers : points[d] \in Int
    BY <1>1 DEF TypeOK
  <2>3. <<c, "points">> \notin stale' => points[c] + p >= 0
    <3> SUFFICES ASSUME <<c, "points">> \notin stale' PROVE points[c] + p >= 0
      OBVIOUS
    <3>1. points[c] >= 0
      BY <1>4 DEF AccountsInv, BalancesCovered, PointsCovered
    <3>2. Reversal(r) > 0 => r.points = points[c]
      BY <1>4 DEF Mark
    <3> QED BY <1>3, <2>2, <3>1, <3>2
  <2> HIDE DEF p
  <2>4. \A d \in Customers :
           /\ d = c => /\ points'[d] = points[d] + p /\ granted'[d] = granted[d] + award
                       /\ credit'[d] = credit[d] + back /\ issued'[d] = issued[d] + back
           /\ d # c => /\ points'[d] = points[d] /\ granted'[d] = granted[d]
                       /\ credit'[d] = credit[d] /\ issued'[d] = issued[d]
    <3>1. points' = Add(points, c, p)
      BY <1>4 DEF p
    <3> QED BY <1>1, <1>4, <3>1 DEF Add, TypeOK
  <2>5. stale \subseteq stale'
    BY <1>4
  <2> QED BY <1>3, <1>5, <2>1, <2>3, <2>4, <2>5, BalancesStep
<1> QED BY <1>1, <1>7, <1>8 DEF AccountsInv

\* An adjustment takes no more points than there are, unless they changed.
LEMMA AdjustInv ==
    ASSUME AccountsInv, NEW k \in Clerks, CommitAdjust(k)
    PROVE  AccountsInv'
<1> PICK r : r = request[k]
  OBVIOUS
<1> PICK c \in Customers : c = r.customer
  BY RequestKinds DEF AccountsInv, CommitAdjust, AdjustRequest
<1>1. TypeOK /\ TypeOK'
  BY AdjustTyped DEF AccountsInv
<1>2. r.delta \in Int /\ r.points \in Int /\ r.op = "adjust"
  BY <1>1, RequestKinds, AccountsAssumption DEF CommitAdjust, AdjustRequest
<1>3. Larger(0, r.delta) \in Nat /\ r.delta <= Larger(0, r.delta)
  BY <1>2 DEF Larger
<1>4. RequestInv'
  <2>1. sale' = sale /\ Finish(k)
    BY DEF CommitAdjust
  <2>2. \A q \in Sales : ~sale[q].completed => sale[q].due = 0
    BY DEF AccountsInv, RequestInv
  <2> QED BY <1>1, <2>1, <2>2, RequestOver
<1>5. \A d \in Customers :
         /\ d = c => /\ points'[d] = points[d] + r.delta
                     /\ granted'[d] = granted[d] + Larger(0, r.delta)
                     /\ credit'[d] = credit[d] + 0 /\ issued'[d] = issued[d] + 0
         /\ d # c => /\ points'[d] = points[d] /\ granted'[d] = granted[d]
                     /\ credit'[d] = credit[d] /\ issued'[d] = issued[d]
  BY <1>1 DEF CommitAdjust, Add, TypeOK
<1>6. <<c, "points">> \notin stale' => points[c] + r.delta >= 0
  <2> SUFFICES ASSUME <<c, "points">> \notin stale' PROVE points[c] + r.delta >= 0
    OBVIOUS
  <2>1. points[c] >= 0 /\ points[c] \in Int
    BY <1>1 DEF CommitAdjust, AccountsInv, BalancesCovered, PointsCovered, TypeOK
  <2>2. r.delta < 0 => r.points = points[c]
    BY DEF CommitAdjust, Mark
  <2>3. r.points + r.delta >= 0
    BY <1>2 DEF AccountsInv, RequestInv
  <2> QED BY <1>2, <2>1, <2>2, <2>3
<1>7. stale \subseteq stale' /\ \A q \in Sales : sale'[q].completed = sale[q].completed
  BY DEF CommitAdjust
<1>8. PointsInv' /\ BalancesCovered'
  BY <1>2, <1>3, <1>5, <1>6, <1>7, BalancesStep
<1> QED BY <1>1, <1>4, <1>8 DEF AccountsInv

LEMMA AccountsInvStep ==
    ASSUME AccountsInv, [Next]_vars
    PROVE  AccountsInv'
<1>1. TypeOK'
  BY TypedStep DEF AccountsInv
<1>2. ASSUME UNCHANGED <<points, credit, sale, granted, issued, stale>>
      PROVE  PointsInv' /\ BalancesCovered'
  <2>1. \A d \in Customers : Redeemed(d)' = Redeemed(d) /\ PaidByCredit(d)' = PaidByCredit(d)
    BY <1>2, SpentSame
  <2> QED
    BY <1>2, <2>1
    DEF AccountsInv, PointsInv, BalancesCovered, PointsSpentOnce, PointsCovered,
        StoreCreditCovered
<1>3. ASSUME NEW k \in Clerks, Abandon(k)
      PROVE  AccountsInv'
  <2>1. \A q \in Sales : ~sale[q].completed => sale[q].due = 0
    BY DEF AccountsInv, RequestInv
  <2>2. RequestInv'
    BY <1>1, <1>3, <2>1, RequestOver DEF Abandon
  <2> QED BY <1>1, <1>2, <1>3, <2>2 DEF Abandon, AccountsInv
<1>4. ASSUME NEW c \in Customers, NEW l \in Limits, SetLimit(c, l)
      PROVE  AccountsInv'
  <2>1. RequestInv'
    BY <1>4 DEF SetLimit, AccountsInv, RequestInv
  <2> QED BY <1>1, <1>2, <1>4, <2>1 DEF SetLimit, AccountsInv
<1>5. CASE UNCHANGED vars
  <2>1. RequestInv'
    BY <1>5 DEF vars, AccountsInv, RequestInv
  <2> QED BY <1>1, <1>2, <1>5, <2>1 DEF vars, AccountsInv
<1> QED
  BY <1>3, <1>4, <1>5, BeginInv, SaleInv, RepayInv, ReturnInv, AdjustInv DEF Next

LEMMA AccountsInvHolds == Spec => []AccountsInv
<1>1. AccountsInv /\ [Next]_vars => AccountsInv'
  BY AccountsInvStep
<1> QED BY InitAccountsInv, <1>1, PTL DEF Spec

\* However checkouts, returns and adjustments overlap, no point is redeemed
\* twice, the store credit is what was given less what was taken, and no balance
\* is below zero unless it was written from a figure that had changed.
THEOREM CustomersSpendWhatTheyHave == Spec => []BalancesCovered
<1>1. AccountsInv => BalancesCovered
  BY DEF AccountsInv
<1> QED BY AccountsInvHolds, <1>1, PTL

-----------------------------------------------------------------------------
(* The credit limit.                                                       *)

\* What a customer owes changes by what one sale's balance changes.
LEMMA OwedStep ==
    ASSUME TypeOK, TypeOK', NEW s \in Sales, \A q \in Sales \ {s} : sale'[q] = sale[q],
           NEW c \in Customers
    PROVE  /\ c = CustomerOf[s] => Owed(c)' = Owed(c) + sale'[s].due - sale[s].due
           /\ c # CustomerOf[s] => Owed(c)' = Owed(c)
<1> DEFINE f == [q \in Sales |-> sale[q].due]
           g == [q \in Sales |-> sale'[q].due]
           S == SalesOf(c)
<1>1. IsFiniteSet(S) /\ S \subseteq Sales
  BY FS_Subset, AccountsAssumption DEF SalesOf
<1>2. /\ Owed(c) = SumFunctionOnSet(f, S)
      /\ Owed(c)' = SumFunctionOnSet(g, S)
  BY DEF Owed, SalesOf
<1>3. \A q \in Sales : f[q] = sale[q].due /\ g[q] = sale'[q].due
                       /\ f[q] \in Int /\ g[q] \in Int
  BY DEF TypeOK, SaleRow
<1>4. \A q \in S \ {s} : f[q] = g[q]
  BY <1>1, <1>3
<1>5. CASE c = CustomerOf[s]
  <2>1. s \in S
    BY <1>5 DEF SalesOf
  <2> HIDE DEF f, g, S
  <2>2. \A q \in S : f[q] \in Int /\ g[q] \in Int
    BY <1>1, <1>3
  <2>3. SumFunctionOnSet(g, S) = SumFunctionOnSet(f, S) + g[s] - f[s]
    BY <1>1, <1>4, <2>1, <2>2, SumChanges
  <2> QED BY <1>2, <1>3, <1>5, <2>3
<1>6. CASE c # CustomerOf[s]
  <2>1. s \notin S
    BY <1>6 DEF SalesOf
  <2> HIDE DEF f, g, S
  <2>2. \A q \in S : f[q] \in Int /\ g[q] \in Int /\ f[q] = g[q]
    BY <1>1, <1>3, <1>4, <2>1
  <2>3. SumFunctionOnSet(g, S) = SumFunctionOnSet(f, S)
    BY <1>1, <2>2, SumAgrees
  <2> QED BY <1>2, <1>6, <2>3
<1> QED BY <1>5, <1>6

LEMMA OwedTypedNext ==
    ASSUME TypeOK', NEW c \in Customers
    PROVE  Owed(c)' \in Nat
<1>1. IsFiniteSet(SalesOf(c)) /\ SalesOf(c) \subseteq Sales
  BY FS_Subset, AccountsAssumption DEF SalesOf
<1>2. \A s \in SalesOf(c) : [q \in Sales |-> sale'[q].due][s] \in Nat
  BY <1>1 DEF TypeOK, SaleRow
<1>3. Owed(c)' = SumFunctionOnSet([q \in Sales |-> sale'[q].due], SalesOf(c))
  BY DEF Owed, SalesOf
<1> QED BY <1>1, <1>2, <1>3, SumNat

LEMMA OwedSame ==
    ASSUME sale' = sale, NEW c \in Customers
    PROVE  Owed(c)' = Owed(c)
BY DEF Owed, SalesOf

WithinTheLimit(c) ==
    Owed(c)' > Owed(c) /\ <<c, "owed">> \notin stale' => Owed(c)' <= limit[c]

LEMMA LimitStep ==
    ASSUME AccountsInv, [Next]_vars, NEW d \in Customers
    PROVE  WithinTheLimit(d)
<1>1. TypeOK /\ TypeOK' /\ Owed(d) \in Nat
  BY TypedStep, OwedTyped DEF AccountsInv
<1>2. ASSUME Owed(d)' <= Owed(d) \/ <<d, "owed">> \in stale'
      PROVE  WithinTheLimit(d)
  <2>1. Owed(d)' \in Nat
    BY <1>1, OwedTypedNext
  <2> QED BY <1>1, <1>2, <2>1 DEF WithinTheLimit
<1>3. CASE sale' = sale
  BY <1>1, <1>2, <1>3, OwedSame
<1>4. ASSUME NEW k \in Clerks, CommitSale(k)
      PROVE  WithinTheLimit(d)
  <2> PICK s \in Sales : s = request[k].sale
    BY <1>1, <1>4, RequestKinds DEF CommitSale, SaleRequest
  <2>1. /\ request[k] \in SaleRequest /\ Basket[s].financed \in Nat
        /\ CustomerOf[s] \in Customers
    BY <1>1, <1>4, RequestKinds, BasketTyped DEF CommitSale
  <2>2. sale'[s].due = Basket[s].financed /\ \A q \in Sales \ {s} : sale'[q] = sale[q]
    BY <1>1, <1>4 DEF CommitSale, TypeOK
  <2>3. /\ sale[s].due = 0
        /\ Basket[s].financed > 0 =>
              request[k].owed + Basket[s].financed <= request[k].limit
    BY <1>4 DEF CommitSale, AccountsInv, RequestInv
  <2>4. CASE d = CustomerOf[s]
    <3>1. Owed(d)' = Owed(d) + Basket[s].financed
      <4>1. Owed(d)' = Owed(d) + sale'[s].due - sale[s].due
        BY <1>1, <2>2, <2>4, OwedStep
      <4> QED BY <1>1, <2>1, <2>2, <2>3, <4>1
    <3>2. CASE Basket[s].financed = 0
      BY <1>1, <1>2, <3>1, <3>2
    <3>3. CASE Basket[s].financed > 0 /\ <<d, "owed">> \notin stale'
      <4>1. request[k].owed = Owed(d) /\ request[k].limit = limit[d]
        BY <1>4, <2>4, <3>3 DEF CommitSale, Mark
      <4> QED BY <2>3, <3>1, <3>3, <4>1 DEF WithinTheLimit
    <3> QED BY <1>2, <2>1, <3>2, <3>3
  <2>5. CASE d # CustomerOf[s]
    BY <1>1, <1>2, <2>2, <2>5, OwedStep
  <2> QED BY <2>4, <2>5
<1>5. ASSUME NEW s \in Sales, \A q \in Sales \ {s} : sale'[q] = sale[q],
             sale'[s].due <= sale[s].due \/ <<CustomerOf[s], "owed">> \in stale'
      PROVE  WithinTheLimit(d)
  <2>1. sale'[s].due \in Nat /\ sale[s].due \in Nat
    BY <1>1 DEF TypeOK, SaleRow
  <2>2. CASE d # CustomerOf[s]
    BY <1>1, <1>2, <1>5, <2>2, OwedStep
  <2>3. CASE d = CustomerOf[s] /\ sale'[s].due <= sale[s].due
    <3>1. Owed(d)' = Owed(d) + sale'[s].due - sale[s].due
      BY <1>1, <1>5, <2>3, OwedStep
    <3> QED BY <1>1, <1>2, <2>1, <2>3, <3>1
  <2> QED BY <1>2, <1>5, <2>2, <2>3
<1>6. ASSUME NEW k \in Clerks, CommitRepay(k)
      PROVE  WithinTheLimit(d)
  <2> PICK r : r = request[k]
    OBVIOUS
  <2> PICK s \in Sales : s = r.sale
    BY <1>1, <1>6, RequestKinds DEF CommitRepay, RepayRequest
  <2>1. r.due \in Nat /\ r.amount \in Nat
    BY <1>1, <1>6, RequestKinds, AccountsAssumption DEF CommitRepay, RepayRequest
  <2>2. /\ sale'[s].due = Larger(0, r.due - r.amount)
        /\ \A q \in Sales \ {s} : sale'[q] = sale[q]
    BY <1>1, <1>6 DEF CommitRepay, TypeOK, SaleRow
  <2>3. r.due = sale[s].due \/ <<CustomerOf[s], "owed">> \in stale'
    BY <1>6 DEF CommitRepay, Mark
  <2>4. Larger(0, r.due - r.amount) <= r.due
    BY <2>1 DEF Larger
  <2> QED BY <1>5, <2>2, <2>3, <2>4
<1>7. ASSUME NEW k \in Clerks, CommitReturn(k)
      PROVE  WithinTheLimit(d)
  <2> PICK r : r = request[k]
    OBVIOUS
  <2> PICK s \in Sales : s = r.sale
    BY <1>1, <1>7, RequestKinds DEF CommitReturn, ReturnRequest
  <2>1. /\ r \in ReturnRequest /\ r.due \in Nat
        /\ SetOff(r) \in Nat /\ SetOff(r) <= r.due
    BY <1>1, <1>7, RequestKinds, ReturnParts DEF CommitReturn, ReturnRequest
  <2>2. /\ sale'[s].due = IF SetOff(r) > 0 THEN r.due - SetOff(r) ELSE sale[s].due
        /\ \A q \in Sales \ {s} : sale'[q] = sale[q]
    BY <1>1, <1>7 DEF CommitReturn, TypeOK, SaleRow
  <2>3. SetOff(r) > 0 => r.due = sale[s].due \/ <<CustomerOf[s], "owed">> \in stale'
    BY <1>7 DEF CommitReturn, Mark
  <2>4. sale[s].due \in Nat
    BY <1>1 DEF TypeOK, SaleRow
  <2>5. sale'[s].due <= sale[s].due \/ <<CustomerOf[s], "owed">> \in stale'
    BY <2>1, <2>2, <2>3, <2>4
  <2> QED BY <1>5, <2>2, <2>5
<1> QED
  BY <1>3, <1>4, <1>6, <1>7
  DEF Next, vars, BeginSale, BeginRepay, BeginReturn, BeginAdjust, Start, CommitAdjust,
      Abandon, SetLimit

\* A sale on credit brings no customer's debt over the limit, whatever else the
\* customer's requests do, unless the debt or the limit changed under the checkout;
\* and nothing but a sale raises a debt it read rightly.
THEOREM LimitHeld == Spec => CreditGrantedWithinLimit
<1>1. AccountsInv /\ [Next]_vars =>
         [\A c \in Customers :
             Owed(c)' > Owed(c) /\ <<c, "owed">> \notin stale' => Owed(c)' <= limit[c]]_vars
  BY LimitStep DEF WithinTheLimit
<1> QED BY AccountsInvHolds, <1>1, PTL DEF Spec, CreditGrantedWithinLimit
=============================================================================
