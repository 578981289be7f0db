------------------------------ MODULE Accounts ------------------------------
(***************************************************************************)
(* The accounts of a customer that checkout draws on: loyalty points,      *)
(* store credit and the credit limit (sales.service.ts), and what else     *)
(* changes them: returns (returns.service.ts), repayments                  *)
(* (credit.service.ts), adjustments (loyalty.service.ts) and the customer  *)
(* form (customers.service.ts).  Installments, cents and stale balances    *)
(* of one sale are in module CreditLedger.                                 *)
(*                                                                         *)
(* Checkout looks at all three accounts before its transaction.  In the    *)
(* transaction only the points are looked at again.  `stale` remembers     *)
(* which account was written after what was read of it had changed.        *)
(***************************************************************************)
EXTENDS Integers, FiniteSets, Functions

CONSTANTS
    Customers,
    Sales,         \* the sales that are ever attempted
    CustomerOf,    \* [Sales -> Customers]
    Basket,        \* [Sales -> the total and how it is to be paid]
    OpeningPoints, OpeningCredit,  \* [Customers -> Nat]
    Limits,        \* the credit limits a customer may be given
    SpendAmount, PointsAwarded, PointValue,  \* the loyalty rule
    RefundUnit,    \* the money a point stands for in a return: 100 in the code
    Adjustments,   \* the points an administrator may add
    Amounts,       \* the amounts that are repaid and returned
    Clerks,        \* the requests served at one time
    MaxGranted     \* bound: the points above which nothing is adjusted upwards

\* The balance a sale leaves is financed; create checks that the parts do not
\* exceed the total and that there is no balance without credit terms.
Payment == [total : Nat, redeem : Nat, credit : Nat, financed : Nat]

Payable(s) == Basket[s].total - Basket[s].redeem * PointValue

ASSUME AccountsAssumption ==
    /\ IsFiniteSet(Sales)
    /\ CustomerOf \in [Sales -> Customers]
    /\ Basket \in [Sales -> Payment]
    /\ OpeningPoints \in [Customers -> Nat] /\ OpeningCredit \in [Customers -> Nat]
    /\ Limits \subseteq Nat
    /\ SpendAmount \in Nat \ {0} /\ PointsAwarded \in Nat \ {0}
    /\ PointValue \in Nat \ {0} /\ RefundUnit \in Nat \ {0}
    /\ Adjustments \subseteq Int \ {0}
    /\ Amounts \subseteq Nat \ {0}
    /\ MaxGranted \in Nat

ASSUME BasketAssumption ==
    \A s \in Sales : Basket[s].credit + Basket[s].financed <= Payable(s)

VARIABLES
    points,    \* LoyaltyAccount.points
    credit,    \* StoreCreditAccount.balance
    limit,     \* Customer.creditLimit
    sale,      \* Sale, and its agreement: what it owes and what was not returned
    request,   \* the request each clerk waits for
    granted,   \* history: the points ever given to a customer
    issued,    \* history: the store credit returns gave
    stale      \* history: accounts written from figures that were no longer true

vars == <<points, credit, limit, sale, request, granted, issued, stale>>

SaleRow == [completed : BOOLEAN, due : Nat, kept : Int]
Idle == [op |-> "idle"]
Resolutions == {"ORIGINAL_METHOD", "STORE_CREDIT", "LOYALTY_POINTS"}
Requests == {Idle}
    \cup [op : {"sale"}, sale : Sales, credit : Int, owed : Nat, limit : Limits]
    \cup [op : {"repay"}, sale : Sales, amount : Amounts, due : Nat]
    \cup [op : {"return"}, sale : Sales, amount : Amounts, resolution : Resolutions,
          points : Int, due : Nat]
    \cup [op : {"adjust"}, customer : Customers, delta : Adjustments, points : Int]

TypeOK ==
    /\ points \in [Customers -> Int]
    /\ credit \in [Customers -> Int]
    /\ limit \in [Customers -> Limits]
    /\ sale \in [Sales -> SaleRow]
    /\ request \in [Clerks -> Requests]
    /\ granted \in [Customers -> Nat]
    /\ issued \in [Customers -> Nat]
    /\ stale \subseteq Customers \X {"points", "credit", "owed"}

Init ==
    /\ points = OpeningPoints
    /\ credit = OpeningCredit
    /\ limit \in [Customers -> Limits]
    /\ sale = [s \in Sales |-> [completed |-> FALSE, due |-> 0, kept |-> 0]]
    /\ request = [k \in Clerks |-> Idle]
    /\ granted = OpeningPoints
    /\ issued = [c \in Customers |-> 0]
    /\ stale = {}

-----------------------------------------------------------------------------

Smaller(x, y) == IF x < y THEN x ELSE y
Larger(x, y) == IF x > y THEN x ELSE y

Add(f, c, amount) == [f EXCEPT ![c] = @ + amount]

SalesOf(c) == {s \in Sales : CustomerOf[s] = c}

\* The outstanding balances of the customer's open agreements.
Owed(c) == SumFunctionOnSet([s \in Sales |-> sale[s].due], SalesOf(c))

\* The account was written after it had changed.
Mark(c, account, changed) ==
    IF changed THEN {<<c, account>>} ELSE {}

Start(k, r) ==
    /\ request[k] = Idle
    /\ request' = [request EXCEPT ![k] = r]
    /\ UNCHANGED <<points, credit, limit, sale, granted, issued, stale>>

Finish(k) == request' = [request EXCEPT ![k] = Idle]

-----------------------------------------------------------------------------
(* create of the sales service.                                            *)

\* Fault: one balance makes up for the other.
EitherCovered(s) ==
    LET c == CustomerOf[s] IN points[c] + credit[c] >= Basket[s].redeem + Basket[s].credit

\* The accounts cover what is taken from them.
Covered(s) ==
    LET c == CustomerOf[s] IN
    /\ Basket[s].redeem > 0 => points[c] >= Basket[s].redeem
    /\ Basket[s].credit > 0 => credit[c] >= Basket[s].credit

\* Fault: the balance of the new sale is not counted.
BelowLimit(s) == Basket[s].financed > 0 => Owed(CustomerOf[s]) <= limit[CustomerOf[s]]

WithinLimit(s) ==
    Basket[s].financed > 0 =>
        Owed(CustomerOf[s]) + Basket[s].financed <= limit[CustomerOf[s]]

BeginSale(k, s) ==
    LET c == CustomerOf[s] IN
    /\ ~sale[s].completed
    /\ \A j \in Clerks : request[j].op = "sale" => request[j].sale # s
    /\ Covered(s) /\ WithinLimit(s)
    /\ Start(k, [op |-> "sale", sale |-> s,
                 credit |-> credit[c], owed |-> Owed(c), limit |-> limit[c]])

\* Fault: the update has no condition on the points.
UncheckedPoints(s) == TRUE

\* loyaltyAccount.updateMany with points >= the points to redeem found its row.
EnoughPoints(s) ==
    Basket[s].redeem > 0 => points[CustomerOf[s]] >= Basket[s].redeem

Earned(s) == (Payable(s) \div SpendAmount) * PointsAwarded

CommitSale(k) ==
    LET r == request[k]
        s == r.sale
        c == CustomerOf[s]
        b == Basket[s]
    IN
    /\ r.op = "sale"
    /\ EnoughPoints(s)
    /\ points' = Add(points, c, Earned(s) - b.redeem)
    /\ credit' = Add(credit, c, -b.credit)
    /\ sale' = [sale EXCEPT ![s] = [completed |-> TRUE, due |-> b.financed, kept |-> b.total]]
    /\ granted' = Add(granted, c, Earned(s))
    /\ stale' = stale
          \cup Mark(c, "credit", b.credit > 0 /\ r.credit # credit[c])
          \cup Mark(c, "owed", b.financed > 0 /\ <<r.owed, r.limit>> # <<Owed(c), limit[c]>>)
    /\ Finish(k)
    /\ UNCHANGED <<limit, issued>>

-----------------------------------------------------------------------------
(* repay of the credit service, as far as the debt is concerned.           *)

BeginRepay(k, s, amount) ==
    /\ amount <= sale[s].due
    /\ Start(k, [op |-> "repay", sale |-> s, amount |-> amount, due |-> sale[s].due])

CommitRepay(k) ==
    LET r == request[k] IN
    /\ r.op = "repay"
    /\ sale' = [sale EXCEPT ![r.sale].due = Larger(0, r.due - r.amount)]
    /\ stale' = stale \cup Mark(CustomerOf[r.sale], "owed", r.due # sale[r.sale].due)
    /\ Finish(k)
    /\ UNCHANGED <<points, credit, limit, granted, issued>>

-----------------------------------------------------------------------------
(* create of the returns service: goods worth the amount come back; what   *)
(* is not set off against the debt is paid out, as money, store credit (an *)
(* exchange too) or points.                                                *)

BeginReturn(k, s, amount, resolution) ==
    /\ sale[s].completed
    /\ amount <= sale[s].kept
    /\ Start(k, [op |-> "return", sale |-> s, amount |-> amount, resolution |-> resolution,
                 points |-> points[CustomerOf[s]], due |-> sale[s].due])

\* Fault: the points are taken back however few there are.
WholeReversal(r) == r.amount \div RefundUnit

\* The points a return takes back; nothing when the balance is negative.
Reversal(r) == Larger(0, Smaller(r.points, r.amount \div RefundUnit))

\* Fault: the debt may be less than the refund.
WholeAmount(r) == r.amount

\* What a return takes off the debt.
SetOff(r) == Smaller(r.amount, r.due)

CommitReturn(k) ==
    LET r == request[k]
        s == r.sale
        c == CustomerOf[s]
        refund == r.amount - SetOff(r)
        award == IF r.resolution = "LOYALTY_POINTS" THEN refund \div RefundUnit ELSE 0
        back == IF r.resolution = "STORE_CREDIT" THEN refund ELSE 0
    IN
    /\ r.op = "return"
    /\ points' = Add(points, c, award - Reversal(r))
    /\ credit' = Add(credit, c, back)
    /\ sale' = [sale EXCEPT
          ![s].kept = @ - r.amount,
          ![s].due = IF SetOff(r) > 0 THEN r.due - SetOff(r) ELSE @]
    /\ granted' = Add(granted, c, award)
    /\ issued' = Add(issued, c, back)
    /\ stale' = stale
          \cup Mark(c, "points", Reversal(r) > 0 /\ r.points # points[c])
          \cup Mark(c, "owed", SetOff(r) > 0 /\ r.due # sale[s].due)
    /\ Finish(k)
    /\ UNCHANGED limit

-----------------------------------------------------------------------------
(* adjust of the loyalty service: the balance is read in the transaction,  *)
(* but nothing keeps it from changing before the increment.                *)

BeginAdjust(k, c, delta) ==
    /\ points[c] + delta >= 0
    /\ delta > 0 => granted[c] + delta <= MaxGranted
    /\ Start(k, [op |-> "adjust", customer |-> c, delta |-> delta, points |-> points[c]])

CommitAdjust(k) ==
    LET r == request[k]
        c == r.customer
    IN
    /\ r.op = "adjust"
    /\ points' = Add(points, c, r.delta)
    /\ granted' = Add(granted, c, Larger(0, r.delta))
    /\ stale' = stale \cup Mark(c, "points", r.delta < 0 /\ r.points # points[c])
    /\ Finish(k)
    /\ UNCHANGED <<credit, limit, sale, issued>>

\* update of the customers service.
SetLimit(c, l) ==
    /\ limit' = [limit EXCEPT ![c] = l]
    /\ UNCHANGED <<points, credit, sale, request, granted, issued, stale>>

\* The transaction rolls back, a later check fails, or the client is gone.
Abandon(k) ==
    /\ request[k] # Idle
    /\ Finish(k)
    /\ UNCHANGED <<points, credit, limit, sale, granted, issued, stale>>

Next ==
    \/ \E k \in Clerks, s \in Sales :
          \/ BeginSale(k, s)
          \/ \E amount \in Amounts :
                \/ BeginRepay(k, s, amount)
                \/ \E resolution \in Resolutions : BeginReturn(k, s, amount, resolution)
    \/ \E k \in Clerks, c \in Customers, delta \in Adjustments : BeginAdjust(k, c, delta)
    \/ \E k \in Clerks :
          CommitSale(k) \/ CommitRepay(k) \/ CommitReturn(k) \/ CommitAdjust(k) \/ Abandon(k)
    \/ \E c \in Customers, l \in Limits : SetLimit(c, l)

Spec == Init /\ [][Next]_vars

-----------------------------------------------------------------------------

Completed(c) == {s \in SalesOf(c) : sale[s].completed}
Redeemed(c) == SumFunctionOnSet([s \in Sales |-> Basket[s].redeem], Completed(c))
PaidByCredit(c) == SumFunctionOnSet([s \in Sales |-> Basket[s].credit], Completed(c))

\* No point is spent twice, whatever overlaps: all the points the customer's
\* sales redeemed were given to the customer.
PointsSpentOnce == \A c \in Customers : Redeemed(c) <= granted[c]

\* The balance of points is never negative, unless a return or an adjustment
\* took points after the balance it read had changed.
PointsCovered == \A c \in Customers : <<c, "points">> \notin stale => points[c] >= 0

\* The store credit is what returns gave less what sales took, and is never
\* overdrawn unless it changed under a checkout.
StoreCreditCovered ==
    \A c \in Customers :
        /\ credit[c] = OpeningCredit[c] + issued[c] - PaidByCredit(c)
        /\ <<c, "credit">> \notin stale => credit[c] >= 0

\* What customers spend they had: the balances of all interleavings.
BalancesCovered == PointsSpentOnce /\ PointsCovered /\ StoreCreditCovered

\* No sale brings the customer's debt over the limit, unless the debt or the
\* limit changed under a checkout.
CreditGrantedWithinLimit ==
    [][\A c \in Customers :
          Owed(c)' > Owed(c) /\ <<c, "owed">> \notin stale' => Owed(c)' <= limit[c]]_vars

\* "The customer has insufficient store credit": a sale never takes more store
\* credit than there is, as the service's error message makes it.
StoreCreditSpentOnce ==
    \A c \in Customers : PaidByCredit(c) <= OpeningCredit[c] + issued[c]
=============================================================================
