------------------------------ MODULE StockRoom ------------------------------
(***************************************************************************)
(* Everything that writes stock, together: the inventory service, the      *)
(* stock part of a sale (sales.service.ts), of a goods receipt             *)
(* (purchasing.service.ts) and of a return (returns.service.ts).  The      *)
(* money of sales and returns is in module CreditLedger; the state of the  *)
(* purchase order is in module Purchasing.                                 *)
(***************************************************************************)
EXTENDS Inventory, FiniteSetsExt

CONSTANTS
    Sales,       \* the sales that are ever attempted
    SaleBranch,  \* [Sales -> Branches]
    SaleLines,   \* [Sales -> [Products -> Nat]]
    Tills        \* the sale and return requests served at one time

ASSUME SaleAssumption ==
    /\ SaleBranch \in [Sales -> Branches]
    /\ SaleLines \in [Sales -> [Products -> Nat]]

VARIABLES
    saleUnits,  \* the units the SaleItem rows of a sale name
    completed,  \* the sales whose Sale row exists
    returned,   \* the quantity the ReturnItem rows of a sale add up to, by product
    backUnits,  \* the units a ReturnItem row brought back
    till,       \* the request in progress at each till
    raced       \* history: units a sale took after they had left its branch

saleVars == <<saleUnits, completed, returned, backUnits, till, raced>>
vars == <<inventoryVars, saleVars>>

IdleTill == [op |-> "idle"]
TillRequests == {IdleTill}
    \cup [op : {"sale"}, sale : Sales, units : SUBSET Units]
    \cup [op : {"return"}, sale : Sales, product : Products \ Serialized,
          quantity : Nat, restock : BOOLEAN]
    \cup [op : {"returnUnit"}, sale : Sales, unit : Units]

TypeOK ==
    /\ InventoryTypeOK
    /\ saleUnits \in [Sales -> SUBSET Units]
    /\ completed \subseteq Sales
    /\ returned \in [Sales -> [Products -> Nat]]
    /\ backUnits \subseteq Units
    /\ till \in [Tills -> TillRequests]
    /\ raced \subseteq Units

Init ==
    /\ InventoryInit
    /\ saleUnits = [s \in Sales |-> {}]
    /\ completed = {}
    /\ returned = [s \in Sales |-> NoGoods]
    /\ backUnits = {}
    /\ till = [c \in Tills |-> IdleTill]
    /\ raced = {}

SoldUnits == UNION {saleUnits[s] : s \in Sales}

-----------------------------------------------------------------------------
(* create of the sales service.  The unit is looked up inside the          *)
(* transaction, before the stock row is locked: until that lock another    *)
(* transaction can still take the unit.                                    *)

FindUnits(c, s, S) ==
    /\ till[c] = IdleTill
    /\ s \notin completed
    /\ \A k \in Tills : till[k].op = "sale" => till[k].sale # s
    /\ InStockAt(S, SaleBranch[s]) /\ OneUnitEach(S, SaleLines[s])
    /\ till' = [till EXCEPT ![c] = [op |-> "sale", sale |-> s, units |-> S]]
    /\ UNCHANGED <<inventoryVars, saleUnits, completed, returned, backUnits, raced>>

\* Fault: SaleItem.inventoryUnitId is not unique.
AnyUnit(S) == TRUE

\* SaleItem.inventoryUnitId is unique: creating a second line for a unit fails.
NeverSold(S) == S \cap SoldUnits = {}

CommitSale(c) ==
    LET s == till[c].sale
        S == till[c].units
        b == SaleBranch[s]
    IN
    /\ till[c].op = "sale"
    /\ OnHand(b, SaleLines[s])
    /\ NeverSold(S)
    /\ level' = TakeOut(level, b, SaleLines[s])
    /\ moved' = TakeOut(moved, b, SaleLines[s])
    /\ unit' = Marked(S, "SOLD")
    /\ saleUnits' = [saleUnits EXCEPT ![s] = S]
    /\ completed' = completed \cup {s}
    /\ raced' = raced \cup {u \in S : ~InStockAt({u}, b)}
    /\ till' = [till EXCEPT ![c] = IdleTill]
    /\ UNCHANGED <<status, shipped, landed, outgoing, desk, contended, returned, backUnits>>

-----------------------------------------------------------------------------
(* create of the returns service.  The remaining quantity is computed      *)
(* before the transaction, which adds the return without looking again.    *)

Total(goods) == MapThenSumSet(LAMBDA p : goods[p], Products)

\* The sale has status REFUNDED: everything it sold came back.
Refunded(s) == Total(returned[s]) >= Total(SaleLines[s])

Returnable(s) == s \in completed /\ ~Refunded(s)

BeginReturn(c, s, p, q, restock) ==
    /\ till[c] = IdleTill
    /\ Returnable(s)
    /\ p \notin Serialized
    /\ q <= SaleLines[s][p] - returned[s][p]
    /\ till' = [till EXCEPT ![c] =
          [op |-> "return", sale |-> s, product |-> p, quantity |-> q, restock |-> restock]]
    /\ UNCHANGED <<inventoryVars, saleUnits, completed, returned, backUnits, raced>>

CommitReturn(c) ==
    LET s == till[c].sale
        goods == Just(till[c].product, till[c].quantity)
        back == IF till[c].restock THEN goods ELSE NoGoods
    IN
    /\ till[c].op = "return"
    /\ level' = BringIn(level, SaleBranch[s], back)
    /\ moved' = BringIn(moved, SaleBranch[s], back)
    /\ returned' = [returned EXCEPT ![s] = Plus(returned[s], goods)]
    /\ till' = [till EXCEPT ![c] = IdleTill]
    /\ UNCHANGED <<unit, status, shipped, landed, outgoing, desk, contended,
                   saleUnits, completed, backUnits, raced>>

BeginUnitReturn(c, s, u) ==
    /\ till[c] = IdleTill
    /\ Returnable(s)
    /\ u \in saleUnits[s]
    /\ u \notin backUnits
    /\ till' = [till EXCEPT ![c] = [op |-> "returnUnit", sale |-> s, unit |-> u]]
    /\ UNCHANGED <<inventoryVars, saleUnits, completed, returned, backUnits, raced>>

\* Fault: a serialized return also restocks.
RestockedUnit(u) == Just(ProductOf[u], 1)

\* A serialized return writes a RETURN_IN row and leaves the level alone.
RestockOf(u) == NoGoods

CommitUnitReturn(c) ==
    LET s == till[c].sale
        u == till[c].unit
        goods == Just(ProductOf[u], 1)
    IN
    /\ till[c].op = "returnUnit"
    /\ unit' = Marked({u}, "RETURNED")
    /\ level' = BringIn(level, SaleBranch[s], RestockOf(u))
    /\ moved' = BringIn(moved, SaleBranch[s], goods)
    /\ returned' = [returned EXCEPT ![s] = Plus(returned[s], goods)]
    /\ backUnits' = backUnits \cup {u}
    /\ till' = [till EXCEPT ![c] = IdleTill]
    /\ UNCHANGED <<status, shipped, landed, outgoing, desk, contended,
                   saleUnits, completed, raced>>

AbandonTill(c) ==
    /\ till[c] # IdleTill
    /\ till' = [till EXCEPT ![c] = IdleTill]
    /\ UNCHANGED <<inventoryVars, saleUnits, completed, returned, backUnits, raced>>

-----------------------------------------------------------------------------
(* receive of the purchasing service: the goods of one receipt.            *)

ReceiveGoods(b, p, q) ==
    /\ p \notin Serialized
    /\ level[b][p] + q <= MaxLevel
    /\ level' = BringIn(level, b, Just(p, q))
    /\ moved' = BringIn(moved, b, Just(p, q))
    /\ UNCHANGED <<unit, status, shipped, landed, outgoing, desk, contended, saleVars>>

\* InventoryUnit.serialNumber is unique: only a new unit can be received.
ReceiveUnit(u) ==
    LET goods == Just(ProductOf[u], 1) IN
    /\ unit[u].status = "ABSENT"
    /\ unit' = PlacedAt({u}, Home[u])
    /\ level' = BringIn(level, Home[u], goods)
    /\ moved' = BringIn(moved, Home[u], goods)
    /\ UNCHANGED <<status, shipped, landed, outgoing, desk, contended, saleVars>>

SaleNext ==
    \/ \E c \in Tills, s \in Sales, S \in SUBSET Units : FindUnits(c, s, S)
    \/ \E c \in Tills, s \in Sales, p \in Products, q \in 1..MaxDelta, r \in BOOLEAN :
          BeginReturn(c, s, p, q, r)
    \/ \E c \in Tills, s \in Sales, u \in Units : BeginUnitReturn(c, s, u)
    \/ \E c \in Tills :
          CommitSale(c) \/ CommitReturn(c) \/ CommitUnitReturn(c) \/ AbandonTill(c)

ReceiptNext ==
    \/ \E b \in Branches, p \in Products, q \in 1..MaxDelta : ReceiveGoods(b, p, q)
    \/ \E u \in Units : ReceiveUnit(u)

Next == (InventoryNext /\ UNCHANGED saleVars) \/ SaleNext \/ ReceiptNext

Spec == Init /\ [][Next]_vars

-----------------------------------------------------------------------------

\* No transfer was worked on by two requests at once, and no sale took a unit
\* that had left its branch.
Orderly == contended = {} /\ raced = {}

\* While requests do not overlap on a transfer or a unit, a serialized
\* product's level counts exactly the units that can be picked: a returned,
\* sold or travelling unit is not counted.
LevelCountsUnits ==
    Orderly =>
        \A b \in Branches, p \in Serialized :
            level[b][p] = Cardinality({u \in UnitsOf(Units, p) : InStockAt({u}, b)})

\* A sold unit is never back on the shelf, and so never sold a second time
\* (return does not restock it), unless the sale took it from under a transfer
\* or a transfer was received twice.
SoldStaysSold ==
    Orderly => \A u \in SoldUnits : unit[u].status \in {"SOLD", "RETURNED"}

\* A unit is on the lines of one sale at most, whatever overlaps.
SoldOnce ==
    \A s1, s2 \in Sales : s1 # s2 => saleUnits[s1] \cap saleUnits[s2] = {}

\* A unit is sold once and for good.
SoldForGood == SoldStaysSold /\ SoldOnce
=============================================================================
