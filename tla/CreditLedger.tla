---------------------------- MODULE CreditLedger ----------------------------
(***************************************************************************)
(* The money of completed sales: repayments of credit agreements           *)
(* (credit.service.ts) and refunds (returns.service.ts).                   *)
(*                                                                         *)
(* What is stored, paid or agreed is a number of cents.  A refund is the   *)
(* line total by the quantity times what came back, and need not be whole  *)
(* cents: the returns service computes in fractions and every column is    *)
(* rounded by itself when it is written.  A fraction is counted in grains, *)
(* so many to the cent of a sale that its unit prices come out exactly.    *)
(*                                                                         *)
(* Both handlers read the sale first and compute new balances from what    *)
(* they read; the transaction then writes most of them as absolute values. *)
(* A request that commits after another one changed the figures it read    *)
(* overwrites that change: `clashed` remembers the sales this happened to. *)
(*                                                                         *)
(* Amounts owed to a cent make a difference: the code calls an agreement   *)
(* paid when no more than a cent is left, and takes a cent too much.       *)
(***************************************************************************)
EXTENDS Integers, Sequences, FiniteSets, Functions

CONSTANTS
    Sales,       \* completed sales
    Lines,       \* the lines a sale can have
    Quantity,    \* [Sales -> [Lines -> Nat]]: 0 when the sale has no such line
    Grain,       \* [Sales -> Nat \ {0}]: the grains in a cent
    Price,       \* [Sales -> [Lines -> Nat]]: lineTotal / quantity, in grains
    Tendered,    \* [Sales -> Nat]: what was paid at the till
    Balance,     \* [Sales -> Int]: what was left to pay
    Plan,        \* [Sales -> Seq(Nat)]: the installments agreed, <<>> without credit
    Clerks,      \* the requests served at one time
    Amounts,     \* the amounts that are offered in repayment
    MaxRepaid,   \* bound: the money that is ever repaid on a sale
    MaxDay       \* bound: the last day

Cent == 1
Goods == [Lines -> Nat]

\* What goods of a sale cost, in grains.
Worth(s, goods) == SumFunction([l \in Lines |-> Price[s][l] * goods[l]])
OnCredit(s) == Plan[s] # <<>>

\* What create of the sales service lets through.
ASSUME LedgerAssumption ==
    /\ IsFiniteSet(Lines)
    /\ Quantity \in [Sales -> Goods] /\ Price \in [Sales -> Goods]
    /\ \A s \in Sales : \E l \in Lines : Quantity[s][l] > 0
    /\ Grain \in [Sales -> Nat \ {0}]
    /\ Tendered \in [Sales -> Nat] /\ Balance \in [Sales -> Int]
    /\ Plan \in [Sales -> Seq(Nat)]
    /\ Amounts \subseteq Nat \ {0} /\ MaxRepaid \in Nat /\ MaxDay \in Nat

\* The installments may differ from the balance by a cent.  Credit for less
\* than half a cent is stored as a balance of nothing; only the plan that the
\* code makes of it has an installment of nothing.
ASSUME PlanAssumption ==
    \A s \in Sales : OnCredit(s) =>
        /\ Balance[s] >= 0 /\ SumFunction(Plan[s]) - Balance[s] \in -Cent..Cent
        /\ \/ \A i \in DOMAIN Plan[s] : Plan[s][i] > 0
           \/ Plan[s] = <<0>> /\ Balance[s] = 0

VARIABLES
    ledger,   \* the rows of a sale, its returns, its agreement and installments
    request,  \* the request each clerk waits for
    day,      \* today: installment i is due on day i, the agreement with the last
    repaid,   \* history: the money the repayments of a sale brought in
    offset,   \* history: the part of its refunds that was set off, in grains
    uneven,   \* history: how many of its refunds were not whole cents
    clashed   \* history: sales written from figures that were no longer true

vars == <<ledger, request, day, repaid, offset, uneven, clashed>>

InstallmentStatus == {"PENDING", "PARTIALLY_PAID", "OVERDUE", "PAID"}
Installments(s) ==
    [DOMAIN Plan[s] -> [due : Nat, paid : Nat, status : InstallmentStatus]]

Row(s) == [
    status : {"COMPLETED", "PARTIALLY_REFUNDED", "REFUNDED"},
    paidTotal : Int,
    balanceDue : Int,
    returned : Goods,
    agreement : {"NONE", "ACTIVE", "OVERDUE", "PAID"},
    outstanding : Nat,
    installments : Installments(s)]

Idle == [op |-> "idle"]
RequestOK(r) ==
    \/ r = Idle
    \/ /\ r.sale \in Sales
       /\ r.seen \in Row(r.sale)
       /\ \/ r.op = "repay" /\ r.amount \in Nat /\ r.now \in 0..MaxDay
          \/ r.op = "return" /\ r.goods \in Goods
          \/ r.op = "counted" /\ r.goods \in Goods /\ r.full \in BOOLEAN

TypeOK ==
    /\ DOMAIN ledger = Sales /\ \A s \in Sales : ledger[s] \in Row(s)
    /\ DOMAIN request = Clerks /\ \A c \in Clerks : RequestOK(request[c])
    /\ day \in 0..MaxDay
    /\ repaid \in [Sales -> Nat]
    /\ offset \in [Sales -> Int]
    /\ uneven \in [Sales -> Nat]
    /\ clashed \subseteq Sales

NewSale(s) == [
    status |-> "COMPLETED",
    paidTotal |-> Tendered[s],
    balanceDue |-> Balance[s],
    returned |-> [l \in Lines |-> 0],
    agreement |-> IF OnCredit(s) THEN "ACTIVE" ELSE "NONE",
    outstanding |-> IF OnCredit(s) THEN Balance[s] ELSE 0,
    installments |-> [i \in DOMAIN Plan[s] |->
        [due |-> Plan[s][i], paid |-> 0, status |-> "PENDING"]]]

Init ==
    /\ ledger = [s \in Sales |-> NewSale(s)]
    /\ request = [c \in Clerks |-> Idle]
    /\ day = 0
    /\ repaid = [s \in Sales |-> 0]
    /\ offset = [s \in Sales |-> 0]
    /\ uneven = [s \in Sales |-> 0]
    /\ clashed = {}

-----------------------------------------------------------------------------

Smaller(x, y) == IF x < y THEN x ELSE y
Larger(x, y) == IF x > y THEN x ELSE y

\* The part of a row the handlers compute with.
Figures(row) ==
    <<row.balanceDue, row.outstanding, row.returned,
      [i \in DOMAIN row.installments |-> <<row.installments[i].due, row.installments[i].paid>>]>>

Stale(c) == Figures(request[c].seen) # Figures(ledger[request[c].sale])

Clash(c) == clashed' = IF Stale(c) THEN clashed \cup {request[c].sale} ELSE clashed

Owed(row, i) == Larger(0, row.installments[i].due - row.installments[i].paid)
OwedIn(row, S) ==
    SumFunctionOnSet([i \in DOMAIN row.installments |-> Owed(row, i)], S)

\* What a column of cents holds when it is given so many grains: the database
\* rounds half a cent away from zero.
Stored(s, grains) ==
    IF grains >= 0 THEN (2 * grains + Grain[s]) \div (2 * Grain[s])
    ELSE -((Grain[s] - 2 * grains) \div (2 * Grain[s]))

WholeCents(s, grains) == Grain[s] * Stored(s, grains) = grains

\* Fault: the update has no condition on the status.
AnyOverdue(row) ==
    [row EXCEPT !.agreement = IF day > Len(row.installments) THEN "OVERDUE" ELSE @]

\* markOverdue.
MarkOverdue(row) ==
    [row EXCEPT
        !.agreement = IF @ = "ACTIVE" /\ day > Len(row.installments) THEN "OVERDUE" ELSE @,
        !.installments = [i \in DOMAIN @ |->
            IF day > i /\ @[i].status \in {"PENDING", "PARTIALLY_PAID"}
            THEN [@[i] EXCEPT !.status = "OVERDUE"]
            ELSE @[i]]]

-----------------------------------------------------------------------------
(* repay of the credit service: detail marks what is overdue and reads the *)
(* agreement, the transaction serves the installments in order.            *)

BeginRepay(c, s, amount) ==
    /\ request[c] = Idle
    /\ ledger[s].agreement \in {"ACTIVE", "OVERDUE"}
    /\ amount <= ledger[s].outstanding + Cent
    /\ repaid[s] + amount <= MaxRepaid
    /\ ledger' = [ledger EXCEPT ![s] = MarkOverdue(ledger[s])]
    /\ request' = [request EXCEPT ![c] =
          [op |-> "repay", sale |-> s, amount |-> amount, now |-> day, seen |-> ledger'[s]]]
    /\ UNCHANGED <<day, repaid, offset, uneven, clashed>>

\* Fault: the loop does not count down what it has allocated.
AllocatedAnew(row, amount, i) == Smaller(amount, Owed(row, i))

\* What installment i gets of the amount when those before it are served.
Allocated(row, amount, i) ==
    Smaller(Larger(0, amount - OwedIn(row, 1..(i - 1))), Owed(row, i))

Credited(installment, amount, late) ==
    LET paid == installment.paid + amount IN
    [due |-> installment.due, paid |-> paid,
     status |-> IF paid >= installment.due THEN "PAID"
                ELSE IF late THEN "OVERDUE" ELSE "PARTIALLY_PAID"]

\* Fault: an overpaid cent makes the balance negative.
Difference(outstanding, amount) == outstanding - amount

Outstanding(outstanding, amount) == Larger(0, outstanding - amount)

\* The part of a refund that is set off against the balance, in grains.
Offset(r) == Smaller(Worth(r.sale, r.goods), Grain[r.sale] * r.seen.balanceDue)

\* The agreement's row is locked by a return that set off credit and has not
\* committed.
Locked(s) ==
    \E c \in Clerks :
        /\ request[c].op = "counted" /\ request[c].sale = s
        /\ Offset(request[c]) > 0 /\ OnCredit(s)

CommitRepay(c) ==
    LET r == request[c]
        s == r.sale
        left == Outstanding(r.seen.outstanding, r.amount)
    IN
    /\ r.op = "repay"
    /\ ~Locked(s)
    /\ ledger' = [ledger EXCEPT ![s] = [ledger[s] EXCEPT
          !.paidTotal = @ + r.amount,
          !.balanceDue = left,
          !.outstanding = left,
          !.agreement = IF r.seen.outstanding - r.amount <= Cent THEN "PAID"
                        ELSE IF r.now > Len(Plan[s]) THEN "OVERDUE" ELSE "ACTIVE",
          !.installments = [i \in DOMAIN @ |->
              LET share == Allocated(r.seen, r.amount, i) IN
              IF share > 0 THEN Credited(r.seen.installments[i], share, r.now > i)
                           ELSE @[i]]]]
    /\ repaid' = [repaid EXCEPT ![s] = @ + r.amount]
    /\ Clash(c)
    /\ request' = [request EXCEPT ![c] = Idle]
    /\ UNCHANGED <<day, offset, uneven>>

-----------------------------------------------------------------------------
(* create of the returns service: the refund is set off against the        *)
(* balance, last installment first, and the rest is paid out.  What was    *)
(* returned in all is counted in the transaction, which does not see the   *)
(* lines of a return that has not committed.                               *)

Remaining(s, l) == Quantity[s][l] - ledger[s].returned[l]

BeginReturn(c, s, goods) ==
    /\ request[c] = Idle
    /\ ledger[s].status \in {"COMPLETED", "PARTIALLY_REFUNDED"}
    /\ \E l \in Lines : goods[l] > 0
    /\ \A l \in Lines : goods[l] > 0 => goods[l] <= Remaining(s, l)
    /\ request' = [request EXCEPT ![c] =
          [op |-> "return", sale |-> s, goods |-> goods, seen |-> ledger[s]]]
    /\ UNCHANGED <<ledger, day, repaid, offset, uneven, clashed>>

Together(x, y) == [l \in Lines |-> x[l] + y[l]]

\* fullyReturned compares the sums over all lines.
FullyReturned(s, goods) == SumFunction(goods) >= SumFunction(Quantity[s])

CountReturned(c) ==
    LET r == request[c]
        s == r.sale
    IN
    /\ r.op = "return"
    /\ Offset(r) > 0 => ~Locked(s)
    /\ request' = [request EXCEPT ![c] =
          [op |-> "counted", sale |-> s, goods |-> r.goods, seen |-> r.seen,
           full |-> FullyReturned(s, Together(ledger[s].returned, r.goods))]]
    /\ UNCHANGED <<ledger, day, repaid, offset, uneven, clashed>>

\* Fault: the status of an installment is left alone.
OnlyReduced(s, installment, reduction) ==
    [installment EXCEPT !.due = Stored(s, Grain[s] * @ - reduction)]

\* newDue is compared before it is rounded: a tenth of a cent is let pass.
Reduced(s, installment, reduction) ==
    LET due == Grain[s] * installment.due - reduction IN
    [installment EXCEPT
        !.due = Stored(s, due),
        !.status = IF 10 * due <= Grain[s] * (10 * installment.paid + 1)
                   THEN "PAID" ELSE @]

CashRefund(r) == Worth(r.sale, r.goods) - Offset(r)

CommitReturn(c) ==
    LET r == request[c]
        s == r.sale
        credit == Offset(r) > 0 /\ OnCredit(s)
        left == Larger(0, Grain[s] * r.seen.outstanding - Offset(r))
        rest(i) == Larger(0, Offset(r) - Grain[s] * OwedIn(r.seen, (i + 1)..Len(Plan[s])))
    IN
    /\ r.op = "counted"
    /\ ledger' = [ledger EXCEPT ![s] = [ledger[s] EXCEPT
          !.status = IF r.full THEN "REFUNDED" ELSE "PARTIALLY_REFUNDED",
          !.paidTotal = Stored(s, Grain[s] * @ - CashRefund(r)),
          !.balanceDue = Stored(s, Grain[s] * @ - Offset(r)),
          !.returned = Together(@, r.goods),
          !.outstanding = IF credit THEN Stored(s, left) ELSE @,
          !.agreement = IF ~credit THEN @
                        ELSE IF left <= Grain[s] * Cent THEN "PAID" ELSE r.seen.agreement,
          !.installments = [i \in DOMAIN @ |->
              IF credit /\ rest(i) > 0
              THEN Reduced(s, r.seen.installments[i],
                           Smaller(rest(i), Grain[s] * Owed(r.seen, i)))
              ELSE @[i]]]]
    /\ offset' = [offset EXCEPT ![s] = @ + Offset(r)]
    /\ uneven' = [uneven EXCEPT
          ![s] = IF WholeCents(s, Worth(s, r.goods)) THEN @ ELSE @ + 1]
    /\ Clash(c)
    /\ request' = [request EXCEPT ![c] = Idle]
    /\ UNCHANGED <<day, repaid>>

-----------------------------------------------------------------------------

\* list and detail of the credit service.
ViewAgreements ==
    /\ ledger' = [s \in Sales |-> MarkOverdue(ledger[s])]
    /\ UNCHANGED <<request, day, repaid, offset, uneven, clashed>>

NextDay ==
    /\ day < MaxDay
    /\ day' = day + 1
    /\ UNCHANGED <<ledger, request, repaid, offset, uneven, clashed>>

\* The transaction rolls back, a later check fails, or the client is gone.
Abandon(c) ==
    /\ request[c] # Idle
    /\ request' = [request EXCEPT ![c] = Idle]
    /\ UNCHANGED <<ledger, day, repaid, offset, uneven, clashed>>

Next ==
    \/ \E c \in Clerks, s \in Sales, amount \in Amounts : BeginRepay(c, s, amount)
    \/ \E c \in Clerks, s \in Sales :
          \E goods \in [Lines -> 0..SumFunction(Quantity[s])] : BeginReturn(c, s, goods)
    \/ \E c \in Clerks :
          CommitRepay(c) \/ CountReturned(c) \/ CommitReturn(c) \/ Abandon(c)
    \/ ViewAgreements \/ NextDay

Spec == Init /\ [][Next]_vars

-----------------------------------------------------------------------------

\* Two amounts of a sale, in grains, that differ by at most so many half cents.
Within(s, halves, x, y) ==
    2 * (x - y) \in -(Grain[s] * halves)..(Grain[s] * halves)

CashBack(s) == Worth(s, ledger[s].returned) - offset[s]
Returned(s) == \A l \in Lines : ledger[s].returned[l] >= Quantity[s][l]

\* The two balances of a credit sale, which repay and return write in
\* different ways (one absolute, one as a decrement), stay one balance: what
\* was financed less what was repaid or set off, a cent paid too much being
\* forgotten and half a cent rounded by each refund that is not whole cents.
\* Only a stale write can break it.
MoneyConserved ==
    \A s \in Sales \ clashed : OnCredit(s) =>
        /\ Within(s, uneven[s], Grain[s] * ledger[s].outstanding,
                  Larger(0, Grain[s] * (Balance[s] - repaid[s]) - offset[s]))
        /\ ledger[s].balanceDue = ledger[s].outstanding

\* Repayments fill the installments from the first and returns shorten them
\* from the last; together they never owe something else than the agreement,
\* beyond the cent the plan may differ by, however often both are rounded,
\* and none is paid over its due.
InstallmentsAddUp ==
    \A s \in Sales \ clashed : OnCredit(s) =>
        LET rows == ledger[s].installments IN
        /\ SumFunction([i \in DOMAIN rows |-> rows[i].due - rows[i].paid])
              - ledger[s].outstanding \in -Cent..Cent
        /\ \A i \in DOMAIN rows : rows[i].paid <= rows[i].due

\* paidTotal is the money taken less the money paid out, whatever overlaps:
\* both handlers write it as an increment.  A refund that is not whole cents
\* rounds it by half a cent at most.
PaidTotalAddsUp ==
    \A s \in Sales :
        Within(s, uneven[s], Grain[s] * ledger[s].paidTotal,
               Grain[s] * (Tendered[s] + repaid[s]) - CashBack(s))

\* Every figure that repay and create of a return write is the one the money
\* that changed hands makes.
MoneyAddsUp == MoneyConserved /\ InstallmentsAddUp /\ PaidTotalAddsUp

\* The installments that owe nothing and are not PAID.
Unsettled(row) ==
    {i \in DOMAIN row.installments :
        /\ row.installments[i].paid >= row.installments[i].due
        /\ row.installments[i].status # "PAID"}

\* The statuses say what the amounts say: an agreement is PAID when nothing is
\* owed and only when a cent at most is; an installment is PAID only when it
\* is paid in full.  One that is may be called unpaid only because a refund
\* left it a fraction of a cent that was then rounded away (or because the
\* credit was for less than half a cent); it is one at most, and all after it
\* are PAID.
StatusesMatchMoney ==
    \A s \in Sales \ clashed : OnCredit(s) =>
        LET rows == ledger[s].installments IN
        /\ ledger[s].outstanding = 0 /\ Balance[s] > 0 => ledger[s].agreement = "PAID"
        /\ ledger[s].agreement = "PAID" => ledger[s].outstanding <= Cent
        /\ \A i \in DOMAIN rows : rows[i].status = "PAID" => rows[i].paid >= rows[i].due
        /\ \A i \in Unsettled(ledger[s]) :
              /\ uneven[s] > 0 \/ Balance[s] = 0
              /\ \A j \in DOMAIN rows :
                    j > i => rows[j].paid >= rows[j].due /\ rows[j].status = "PAID"

\* A sale is REFUNDED only when all of it came back, whatever overlaps: the
\* count may miss a return that has not committed, never invent one.  It is
\* REFUNDED when all of it came back, unless returns overlapped.
RefundedMeansReturned ==
    \A s \in Sales :
        /\ ledger[s].status = "REFUNDED" =>
              SumFunction(ledger[s].returned) >= SumFunction(Quantity[s])
        /\ s \notin clashed /\ Returned(s) => ledger[s].status = "REFUNDED"

\* A line is returned once, unless a return committed after another one had
\* changed the quantity it read.
OrderlyReturns ==
    \A s \in Sales \ clashed, l \in Lines : ledger[s].returned[l] <= Quantity[s][l]

\* Every status that repay and create of a return write says what happened.
StatusesSayWhatHappened == StatusesMatchMoney /\ RefundedMeansReturned /\ OrderlyReturns

\* A paid agreement is never collected again: neither a repayment, a return of
\* what it paid for, nor the passing of its due date reopens it, unless the
\* request that writes it read other figures.
PaidStaysPaid ==
    [][\A s \in Sales \ clashed' :
          ledger[s].agreement = "PAID" => ledger'[s].agreement = "PAID"]_vars
=============================================================================
