------------------------------ MODULE Inventory ------------------------------
(***************************************************************************)
(* The inventory service: stock levels, the stock-movement ledger, the     *)
(* serialized units and the transfer of goods between branches             *)
(* (src/modules/inventory/inventory.service.ts).                           *)
(*                                                                         *)
(* Every handler reads what it checks first, outside any transaction, and  *)
(* writes in a later transaction.  A request is therefore two actions: a   *)
(* Begin action, which is the handler up to its `$transaction`, and a      *)
(* Commit action, the transaction.  The transaction is one step because    *)
(* its first statement locks the stock row of the branch and product it is *)
(* about (READ COMMITTED: a guarded UPDATE waits for the lock and then     *)
(* re-evaluates its WHERE clause).  What a Begin action saw may be stale   *)
(* when its Commit action runs.                                            *)
(***************************************************************************)
EXTENDS Integers, FiniteSets

CONSTANTS
    Branches,      \* the branches of the organization
    Products,      \* the products of its catalog
    Serialized,    \* the products with trackSerials = true
    Units,         \* the serialized units that ever exist
    ProductOf,     \* [Units -> Serialized]
    Home,          \* [Units -> Branches]: the branch a unit is first received at
    Stocked,       \* the units in stock at the start
    Opening,       \* [Branches -> [Products -> Nat]]: the levels at the start
    Transfers,     \* the transfers that are ever requested
    Source,        \* [Transfers -> Branches]
    Destination,   \* [Transfers -> Branches]
    Lines,         \* [Transfers -> [Products -> Nat]]: the quantity of each line
    Desks,         \* the requests the inventory service serves at one time
    MaxDelta,      \* bound: the largest adjustment or receipt
    MaxLevel       \* bound: the stock level above which nothing is brought in

ASSUME StockAssumption ==
    /\ Serialized \subseteq Products
    /\ IsFiniteSet(Units)
    /\ Stocked \subseteq Units
    /\ ProductOf \in [Units -> Serialized]
    /\ Home \in [Units -> Branches]
    /\ Opening \in [Branches -> [Products -> Nat]]
    /\ MaxDelta \in Nat
    /\ MaxLevel \in Nat

\* A receipt of a serialized product writes one unit for each piece it brings in,
\* so the levels at the start count the units in stock at the start.
ASSUME OpeningAssumption ==
    \A b \in Branches, p \in Serialized :
        Opening[b][p] = Cardinality({u \in Stocked : ProductOf[u] = p /\ Home[u] = b})

\* createTransfer rejects equal branches.
ASSUME TransferAssumption ==
    /\ Source \in [Transfers -> Branches]
    /\ Destination \in [Transfers -> Branches]
    /\ Lines \in [Transfers -> [Products -> Nat]]
    /\ \A t \in Transfers : Source[t] # Destination[t]

VARIABLES
    level,      \* StockLevel.quantityOnHand of each branch and product
    moved,      \* the signed sum of the StockMovement rows of a branch and product
    unit,       \* InventoryUnit: status and branch
    status,     \* StockTransfer.status; "NONE": no row yet
    shipped,    \* the sum of a transfer's TRANSFER_OUT rows, by product
    landed,     \* the sum of its TRANSFER_IN rows, by product
    outgoing,   \* the units its TRANSFER_OUT rows name
    desk,       \* the request in progress at each desk
    contended   \* history: transfers two requests were open on at one time

inventoryVars ==
    <<level, moved, unit, status, shipped, landed, outgoing, desk, contended>>

TransferStatus == {"NONE", "SUBMITTED", "IN_TRANSIT", "RECEIVED"}
UnitStatus == {"ABSENT", "IN_STOCK", "RESERVED", "SOLD", "RETURNED"}

IdleDesk == [op |-> "idle"]
DeskRequests == {IdleDesk} \cup
    [op : {"create", "dispatch", "receive"}, transfer : Transfers]

InventoryTypeOK ==
    /\ level \in [Branches -> [Products -> Int]]
    /\ moved \in [Branches -> [Products -> Int]]
    /\ unit \in [Units -> [status : UnitStatus, branch : Branches]]
    /\ status \in [Transfers -> TransferStatus]
    /\ shipped \in [Transfers -> [Products -> Nat]]
    /\ landed \in [Transfers -> [Products -> Nat]]
    /\ outgoing \in [Transfers -> SUBSET Units]
    /\ desk \in [Desks -> DeskRequests]
    /\ contended \subseteq Transfers

NoGoods == [p \in Products |-> 0]

InventoryInit ==
    /\ level = Opening
    /\ moved = [b \in Branches |-> NoGoods]
    /\ unit = [u \in Units |->
          [status |-> IF u \in Stocked THEN "IN_STOCK" ELSE "ABSENT",
           branch |-> Home[u]]]
    /\ status = [t \in Transfers |-> "NONE"]
    /\ shipped = [t \in Transfers |-> NoGoods]
    /\ landed = [t \in Transfers |-> NoGoods]
    /\ outgoing = [t \in Transfers |-> {}]
    /\ desk = [d \in Desks |-> IdleDesk]
    /\ contended = {}

-----------------------------------------------------------------------------
(* The statements the handlers share.                                      *)

\* The quantities of two orders of goods added, and the second taken away.
Plus(x, y) == [p \in Products |-> x[p] + y[p]]
Minus(x, y) == [p \in Products |-> x[p] - y[p]]

\* stockLevel.upsert with an increment, and the increment of any branch's sum.
BringIn(f, b, goods) == [f EXCEPT ![b] = Plus(f[b], goods)]
TakeOut(f, b, goods) == [f EXCEPT ![b] = Minus(f[b], goods)]

\* Fault: the update has no condition on quantityOnHand.
UncheckedOnHand(b, goods) == TRUE

\* stockLevel.updateMany with quantityOnHand >= quantity found its row, for
\* every line.
OnHand(b, goods) ==
    \A p \in Products : goods[p] > 0 => level[b][p] >= goods[p]

UnitsOf(S, p) == {u \in S : ProductOf[u] = p}

\* S holds one unit for every serialized item of the goods.
OneUnitEach(S, goods) ==
    \A p \in Serialized : Cardinality(UnitsOf(S, p)) = goods[p]

\* Fault: the lookup of a unit has no condition on its status.
AnywhereAt(S, b) == \A u \in S : unit[u].branch = b

InStockAt(S, b) ==
    \A u \in S : unit[u].status = "IN_STOCK" /\ unit[u].branch = b

\* Fault: the update replaces the row by its new status.
MarkedOnly(S, s) ==
    [u \in Units |-> IF u \in S THEN [status |-> s] ELSE unit[u]]

\* Every unit of S gets the status s, and stays where it is.
Marked(S, s) ==
    [u \in Units |-> IF u \in S THEN [unit[u] EXCEPT !.status = s] ELSE unit[u]]

\* Fault: the branch of the unit is written, its status is not.
MovedTo(S, b) ==
    [u \in Units |-> IF u \in S THEN [unit[u] EXCEPT !.branch = b] ELSE unit[u]]

\* Every unit of S is in stock at b.
PlacedAt(S, b) ==
    [u \in Units |->
        IF u \in S THEN [status |-> "IN_STOCK", branch |-> b] ELSE unit[u]]

-----------------------------------------------------------------------------
(* adjust: one guarded update and one ledger row, in one transaction.      *)

Just(p, q) == [NoGoods EXCEPT ![p] = q]

AdjustUp(b, p, q) ==
    /\ p \notin Serialized
    /\ level[b][p] + q <= MaxLevel
    /\ level' = BringIn(level, b, Just(p, q))
    /\ moved' = BringIn(moved, b, Just(p, q))
    /\ UNCHANGED <<unit, status, shipped, landed, outgoing, desk, contended>>

AdjustDown(b, p, q) ==
    /\ p \notin Serialized
    /\ OnHand(b, Just(p, q))
    /\ level' = TakeOut(level, b, Just(p, q))
    /\ moved' = TakeOut(moved, b, Just(p, q))
    /\ UNCHANGED <<unit, status, shipped, landed, outgoing, desk, contended>>

-----------------------------------------------------------------------------
(* createTransfer: the quantity is compared with the level (nothing ever   *)
(* reserves stock, so quantityReserved is 0), then the row is created.     *)

Working(t, ops) == \E d \in Desks : desk[d].op \in ops /\ desk[d].transfer = t

BeginCreate(d, t) ==
    /\ desk[d] = IdleDesk
    /\ status[t] = "NONE" /\ ~Working(t, {"create"})
    /\ \A p \in Products : Lines[t][p] <= level[Source[t]][p]
    /\ desk' = [desk EXCEPT ![d] = [op |-> "create", transfer |-> t]]
    /\ UNCHANGED <<level, moved, unit, status, shipped, landed, outgoing, contended>>

CommitCreate(d) ==
    /\ desk[d].op = "create"
    /\ status' = [status EXCEPT ![desk[d].transfer] = "SUBMITTED"]
    /\ desk' = [desk EXCEPT ![d] = IdleDesk]
    /\ UNCHANGED <<level, moved, unit, shipped, landed, outgoing, contended>>

-----------------------------------------------------------------------------
(* dispatch and receive: the status is read before the transaction and is  *)
(* not part of the transaction's update of the transfer.                   *)

\* The second request that is open on a transfer makes it contended.
Contend(t) ==
    contended' = IF Working(t, {"dispatch", "receive"}) THEN contended \cup {t}
                                                        ELSE contended

BeginDispatch(d, t) ==
    /\ desk[d] = IdleDesk
    /\ status[t] = "SUBMITTED"
    /\ desk' = [desk EXCEPT ![d] = [op |-> "dispatch", transfer |-> t]]
    /\ Contend(t)
    /\ UNCHANGED <<level, moved, unit, status, shipped, landed, outgoing>>

\* S are the units whose serial numbers the request lists.
CommitDispatch(d, S) ==
    LET t == desk[d].transfer IN
    /\ desk[d].op = "dispatch"
    /\ OnHand(Source[t], Lines[t])
    /\ InStockAt(S, Source[t]) /\ OneUnitEach(S, Lines[t])
    /\ level' = TakeOut(level, Source[t], Lines[t])
    /\ moved' = TakeOut(moved, Source[t], Lines[t])
    /\ shipped' = [shipped EXCEPT ![t] = Plus(shipped[t], Lines[t])]
    /\ unit' = Marked(S, "RESERVED")
    /\ outgoing' = [outgoing EXCEPT ![t] = outgoing[t] \cup S]
    /\ status' = [status EXCEPT ![t] = "IN_TRANSIT"]
    /\ desk' = [desk EXCEPT ![d] = IdleDesk]
    /\ UNCHANGED <<landed, contended>>

\* Fault: a transfer that was received can be received again.
ReceivableAgain(t) == status[t] \in {"IN_TRANSIT", "RECEIVED"}

Receivable(t) == status[t] = "IN_TRANSIT"

BeginReceive(d, t) ==
    /\ desk[d] = IdleDesk
    /\ Receivable(t)
    /\ desk' = [desk EXCEPT ![d] = [op |-> "receive", transfer |-> t]]
    /\ Contend(t)
    /\ UNCHANGED <<level, moved, unit, status, shipped, landed, outgoing>>

\* Fault: the TRANSFER_IN row repeats whatever the TRANSFER_OUT rows add up to.
ArrivingAsShipped(t) == shipped[t]

\* One TRANSFER_IN row for each TRANSFER_OUT row that names a unit, or one for
\* the whole line when none does.
Arriving(t) ==
    [p \in Products |-> IF p \in Serialized THEN shipped[t][p] ELSE Lines[t][p]]

CommitReceive(d) ==
    LET t == desk[d].transfer IN
    /\ desk[d].op = "receive"
    /\ level' = BringIn(level, Destination[t], Lines[t])
    /\ moved' = BringIn(moved, Destination[t], Arriving(t))
    /\ landed' = [landed EXCEPT ![t] = Plus(landed[t], Arriving(t))]
    /\ unit' = PlacedAt(outgoing[t], Destination[t])
    /\ status' = [status EXCEPT ![t] = "RECEIVED"]
    /\ desk' = [desk EXCEPT ![d] = IdleDesk]
    /\ UNCHANGED <<shipped, outgoing, contended>>

\* A check fails, the transaction rolls back or the client is gone.
Abandon(d) ==
    /\ desk[d] # IdleDesk
    /\ desk' = [desk EXCEPT ![d] = IdleDesk]
    /\ UNCHANGED <<level, moved, unit, status, shipped, landed, outgoing, contended>>

InventoryNext ==
    \/ \E b \in Branches, p \in Products, q \in 1..MaxDelta :
          AdjustUp(b, p, q) \/ AdjustDown(b, p, q)
    \/ \E d \in Desks, t \in Transfers :
          BeginCreate(d, t) \/ BeginDispatch(d, t) \/ BeginReceive(d, t)
    \/ \E d \in Desks, S \in SUBSET Units : CommitDispatch(d, S)
    \/ \E d \in Desks : CommitCreate(d) \/ CommitReceive(d) \/ Abandon(d)

-----------------------------------------------------------------------------
(* What must hold of any interleaving.                                     *)

\* No interleaving of adjustments, dispatches, sales and receipts oversells a
\* product: every decrement is guarded in the UPDATE itself, whatever the
\* handler had read before.
StockNeverNegative == \A b \in Branches, p \in Products : level[b][p] >= 0

\* For products counted by quantity the ledger explains the level, even when
\* two requests dispatch or receive one transfer: every transaction writes both.
LedgerExplainsLevel ==
    \A b \in Branches, p \in Products \ Serialized :
        level[b][p] = Opening[b][p] + moved[b][p]

\* The stock is never oversold, and the ledger explains what there is.
StockIsBooked == StockNeverNegative /\ LedgerExplainsLevel

\* A unit is never left RESERVED with nobody to release it: some transfer in
\* transit lists it among its outgoing units, and receiving that transfer puts
\* it back in stock.
NoStrandedUnit ==
    \A u \in Units : unit[u].status = "RESERVED" =>
        \E t \in Transfers : status[t] = "IN_TRANSIT" /\ u \in outgoing[t]

\* What a transfer's status says about its goods.
TransferBooked(t) ==
    /\ status[t] \in {"NONE", "SUBMITTED"} => shipped[t] = NoGoods
    /\ status[t] \in {"IN_TRANSIT", "RECEIVED"} => shipped[t] = Lines[t]
    /\ status[t] # "RECEIVED" => landed[t] = NoGoods
    /\ status[t] = "RECEIVED" => landed[t] = Lines[t]

\* Goods leave the source once and arrive once, as the status says, unless two
\* requests were open on the transfer at one time: that is the only thing that
\* can break it.
GoodsTravelOnce == \A t \in Transfers \ contended : TransferBooked(t)

\* No interleaving of dispatches and receipts loses goods on their way or
\* multiplies them.
TransfersKeepGoods == NoStrandedUnit /\ GoodsTravelOnce

\* The same claim without the exception, as the service's error messages make
\* it: "Only in-transit transfers can be received."
ReceivedAtMostOnce ==
    \A t \in Transfers, p \in Products : landed[t][p] <= Lines[t][p]
=============================================================================
