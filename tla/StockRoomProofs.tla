-------------------------- MODULE StockRoomProofs ---------------------------
(***************************************************************************)
(* Proofs about module StockRoom, for any branches, products, units,       *)
(* transfers and sales and any number of requests at one time.             *)
(***************************************************************************)
EXTENDS StockRoom, FiniteSetTheorems, TLAPS

Goods == [Products -> Nat]
Sums == [Branches -> [Products -> Int]]
UnitRows == [Units -> [status : UnitStatus, branch : Branches]]

-----------------------------------------------------------------------------
(* What the shared statements return.                                      *)

\* Adding an order of goods to one branch keeps the type and changes only
\* that branch, line by line.
LEMMA BringInLemma ==
    ASSUME NEW f \in Sums, NEW b \in Branches, NEW goods \in Goods
    PROVE  /\ BringIn(f, b, goods) \in Sums
           /\ \A c \in Branches, p \in Products :
                 BringIn(f, b, goods)[c][p] =
                     IF c = b THEN f[c][p] + goods[p] ELSE f[c][p]
BY DEF BringIn, Plus, Sums, Goods

\* The same for taking goods out.
LEMMA TakeOutLemma ==
    ASSUME NEW f \in Sums, NEW b \in Branches, NEW goods \in Goods
    PROVE  /\ TakeOut(f, b, goods) \in Sums
           /\ \A c \in Branches, p \in Products :
                 TakeOut(f, b, goods)[c][p] =
                     IF c = b THEN f[c][p] - goods[p] ELSE f[c][p]
BY DEF TakeOut, Minus, Sums, Goods

LEMMA PlusLemma ==
    ASSUME NEW x \in Goods, NEW y \in Goods
    PROVE  Plus(x, y) \in Goods
BY DEF Plus, Goods

LEMMA JustLemma ==
    ASSUME NEW p \in Products, NEW q \in Nat
    PROVE  Just(p, q) \in Goods /\ NoGoods \in Goods
BY DEF Just, NoGoods, Goods

LEMMA NoGoodsLemma == NoGoods \in Goods
BY DEF NoGoods, Goods

LEMMA MarkedLemma ==
    ASSUME unit \in UnitRows, NEW S \in SUBSET Units, NEW s \in UnitStatus
    PROVE  Marked(S, s) \in UnitRows
BY DEF Marked, UnitRows

LEMMA PlacedAtLemma ==
    ASSUME unit \in UnitRows, NEW S \in SUBSET Units, NEW b \in Branches
    PROVE  PlacedAt(S, b) \in UnitRows
BY DEF PlacedAt, UnitRows, UnitStatus

-----------------------------------------------------------------------------
(* Type correctness.                                                       *)

LEMMA InitTyped == Init => TypeOK
<1> SUFFICES ASSUME Init PROVE TypeOK
  OBVIOUS
<1> USE StockAssumption, TransferAssumption, SaleAssumption
<1>1. InventoryTypeOK
  BY DEF Init, InventoryInit, InventoryTypeOK, NoGoods, UnitStatus,
         TransferStatus, DeskRequests
<1>2. QED
  BY <1>1 DEF Init, TypeOK, NoGoods, TillRequests

\* The goods a stock room request moves.
LEMMA GoodsTyped ==
    ASSUME TypeOK
    PROVE  /\ \A t \in Transfers : Lines[t] \in Goods /\ Arriving(t) \in Goods
           /\ \A s \in Sales : SaleLines[s] \in Goods
           /\ \A u \in Units : Just(ProductOf[u], 1) \in Goods /\ RestockOf(u) \in Goods
           /\ \A t \in Transfers : Source[t] \in Branches /\ Destination[t] \in Branches
           /\ \A s \in Sales : SaleBranch[s] \in Branches
           /\ \A u \in Units : Home[u] \in Branches
<1> USE StockAssumption, TransferAssumption, SaleAssumption
<1>1. \A t \in Transfers : Lines[t] \in Goods /\ Arriving(t) \in Goods
  BY DEF TypeOK, InventoryTypeOK, Arriving, Goods
<1>2. \A u \in Units : ProductOf[u] \in Products
  OBVIOUS
<1>3. \A u \in Units : Just(ProductOf[u], 1) \in Goods /\ RestockOf(u) \in Goods
  BY <1>2, JustLemma, NoGoodsLemma DEF RestockOf
<1>4. QED
  BY <1>1, <1>3 DEF Goods

\* A desk request other than the idle one names a transfer.
LEMMA DeskTyped ==
    ASSUME TypeOK, NEW d \in Desks, desk[d].op \in {"create", "dispatch", "receive"}
    PROVE  desk[d].transfer \in Transfers
BY DEF TypeOK, InventoryTypeOK, DeskRequests, IdleDesk

LEMMA TillTyped ==
    ASSUME TypeOK, NEW c \in Tills
    PROVE  /\ till[c].op = "sale" => till[c].sale \in Sales /\ till[c].units \subseteq Units
           /\ till[c].op = "return" =>
                 /\ till[c].sale \in Sales
                 /\ till[c].product \in Products \ Serialized
                 /\ till[c].quantity \in Nat
           /\ till[c].op = "returnUnit" => till[c].sale \in Sales /\ till[c].unit \in Units
<1>1. till[c] \in TillRequests
  BY DEF TypeOK
<1>2. CASE till[c] = IdleTill
  BY <1>2 DEF IdleTill
<1>3. CASE till[c] \in [op : {"sale"}, sale : Sales, units : SUBSET Units]
  BY <1>3
<1>4. CASE till[c] \in [op : {"return"}, sale : Sales, product : Products \ Serialized,
                        quantity : Nat, restock : BOOLEAN]
  BY <1>4
<1>5. CASE till[c] \in [op : {"returnUnit"}, sale : Sales, unit : Units]
  BY <1>5
<1>6. QED
  BY <1>1, <1>2, <1>3, <1>4, <1>5 DEF TillRequests

\* Requests written to a desk or a till are well-formed.
LEMMA RequestsTyped ==
    /\ IdleDesk \in DeskRequests /\ IdleTill \in TillRequests
    /\ \A t \in Transfers, o \in {"create", "dispatch", "receive"} :
          [op |-> o, transfer |-> t] \in DeskRequests
    /\ \A s \in Sales, S \in SUBSET Units :
          [op |-> "sale", sale |-> s, units |-> S] \in TillRequests
    /\ \A s \in Sales, p \in Products \ Serialized, q \in Nat, r \in BOOLEAN :
          [op |-> "return", sale |-> s, product |-> p, quantity |-> q, restock |-> r]
              \in TillRequests
    /\ \A s \in Sales, u \in Units :
          [op |-> "returnUnit", sale |-> s, unit |-> u] \in TillRequests
BY DEF DeskRequests, TillRequests

LEMMA TypeStep ==
    ASSUME TypeOK, [Next]_vars
    PROVE  TypeOK'
<1> USE StockAssumption DEF TypeOK, InventoryTypeOK
<1>g. level \in Sums /\ moved \in Sums /\ unit \in UnitRows
  BY DEF Sums, UnitRows
<1>h. \A f : f \in Sums => f \in [Branches -> [Products -> Int]]
  BY DEF Sums
<1>i. \A f : f \in UnitRows => f \in [Units -> [status : UnitStatus, branch : Branches]]
  BY DEF UnitRows
<1>1. ASSUME NEW b \in Branches, NEW p \in Products, NEW q \in 1..MaxDelta,
             AdjustUp(b, p, q), UNCHANGED saleVars
      PROVE  TypeOK'
  <2>1. Just(p, q) \in Goods
    BY JustLemma
  <2>2. QED
    BY <1>1, <2>1, <1>g, <1>h, BringInLemma DEF AdjustUp, saleVars
<1>2. ASSUME NEW b \in Branches, NEW p \in Products, NEW q \in 1..MaxDelta,
             AdjustDown(b, p, q), UNCHANGED saleVars
      PROVE  TypeOK'
  <2>1. Just(p, q) \in Goods
    BY JustLemma
  <2>2. QED
    BY <1>2, <2>1, <1>g, <1>h, TakeOutLemma DEF AdjustDown, saleVars
<1>3. ASSUME NEW b \in Branches, NEW p \in Products, NEW q \in 1..MaxDelta,
             ReceiveGoods(b, p, q)
      PROVE  TypeOK'
  <2>1. Just(p, q) \in Goods
    BY JustLemma
  <2>2. QED
    BY <1>3, <2>1, <1>g, <1>h, BringInLemma DEF ReceiveGoods, saleVars
<1>4. ASSUME NEW u \in Units, ReceiveUnit(u)
      PROVE  TypeOK'
  <2>1. Just(ProductOf[u], 1) \in Goods /\ Home[u] \in Branches
    BY GoodsTyped
  <2>2. level' \in Sums /\ moved' \in Sums
    BY <1>4, <2>1, <1>g, BringInLemma DEF ReceiveUnit
  <2>3. unit' \in UnitRows
    BY <1>4, <2>1, <1>g, PlacedAtLemma DEF ReceiveUnit
  <2>4. QED
    BY <1>4, <2>2, <2>3, <1>h, <1>i DEF ReceiveUnit, saleVars
<1>5. ASSUME NEW d \in Desks, NEW t \in Transfers, UNCHANGED saleVars,
             BeginCreate(d, t) \/ BeginDispatch(d, t) \/ BeginReceive(d, t)
      PROVE  TypeOK'
  <2>1. desk' \in [Desks -> DeskRequests]
    BY <1>5, RequestsTyped DEF BeginCreate, BeginDispatch, BeginReceive
  <2>2. contended' \subseteq Transfers
    BY <1>5 DEF BeginCreate, BeginDispatch, BeginReceive, Contend
  <2>3. QED
    BY <1>5, <2>1, <2>2 DEF BeginCreate, BeginDispatch, BeginReceive, saleVars
<1>6. ASSUME NEW d \in Desks, NEW S \in SUBSET Units, CommitDispatch(d, S),
             UNCHANGED saleVars
      PROVE  TypeOK'
  <2> DEFINE t == desk[d].transfer
  <2>1. t \in Transfers
    BY <1>6, DeskTyped DEF CommitDispatch
  <2>2. Source[t] \in Branches /\ Lines[t] \in Goods /\ shipped[t] \in Goods
    BY <2>1, GoodsTyped DEF Goods
  <2>3. level' \in Sums /\ moved' \in Sums
    BY <1>6, <2>2, <1>g, TakeOutLemma DEF CommitDispatch
  <2>4. unit' \in UnitRows
    BY <1>6, <1>g, MarkedLemma DEF CommitDispatch, UnitStatus
  <2>5. shipped' \in [Transfers -> [Products -> Nat]]
    BY <1>6, <2>1, <2>2, PlusLemma DEF CommitDispatch, Goods
  <2>6. status' \in [Transfers -> TransferStatus] /\ outgoing' \in [Transfers -> SUBSET Units]
    BY <1>6, <2>1 DEF CommitDispatch, TransferStatus
  <2>7. desk' \in [Desks -> DeskRequests]
    BY <1>6, RequestsTyped DEF CommitDispatch
  <2>8. QED
    BY <1>6, <2>3, <2>4, <2>5, <2>6, <2>7, <1>h, <1>i DEF CommitDispatch, saleVars
<1>7. ASSUME NEW d \in Desks, CommitReceive(d), UNCHANGED saleVars
      PROVE  TypeOK'
  <2> DEFINE t == desk[d].transfer
  <2>1. t \in Transfers
    BY <1>7, DeskTyped DEF CommitReceive
  <2>2. /\ Destination[t] \in Branches /\ Lines[t] \in Goods
        /\ Arriving(t) \in Goods /\ landed[t] \in Goods
    BY <2>1, GoodsTyped DEF Goods
  <2>3. level' \in Sums /\ moved' \in Sums
    BY <1>7, <2>2, <1>g, BringInLemma DEF CommitReceive
  <2>4. unit' \in UnitRows
    BY <1>7, <2>1, <2>2, <1>g, PlacedAtLemma DEF CommitReceive
  <2>5. landed' \in [Transfers -> [Products -> Nat]]
    BY <1>7, <2>1, <2>2, PlusLemma DEF CommitReceive, Goods
  <2>6. status' \in [Transfers -> TransferStatus]
    BY <1>7, <2>1 DEF CommitReceive, TransferStatus
  <2>7. desk' \in [Desks -> DeskRequests]
    BY <1>7, RequestsTyped DEF CommitReceive
  <2>8. QED
    BY <1>7, <2>3, <2>4, <2>5, <2>6, <2>7, <1>h, <1>i DEF CommitReceive, saleVars
<1>8. ASSUME NEW d \in Desks, CommitCreate(d) \/ Abandon(d), UNCHANGED saleVars
      PROVE  TypeOK'
  <2>1. desk' \in [Desks -> DeskRequests]
    BY <1>8, RequestsTyped DEF CommitCreate, Abandon
  <2>2. status' \in [Transfers -> TransferStatus]
    BY <1>8 DEF CommitCreate, Abandon, TransferStatus
  <2>3. QED
    BY <1>8, <2>1, <2>2 DEF CommitCreate, Abandon, saleVars
<1>9. ASSUME NEW c \in Tills, NEW s \in Sales, NEW S \in SUBSET Units, FindUnits(c, s, S)
      PROVE  TypeOK'
  <2>1. till' \in [Tills -> TillRequests]
    BY <1>9, RequestsTyped DEF FindUnits
  <2>2. QED
    BY <1>9, <2>1 DEF FindUnits, inventoryVars
<1>10. ASSUME NEW c \in Tills, NEW s \in Sales, NEW p \in Products, NEW q \in 1..MaxDelta,
              NEW r \in BOOLEAN, BeginReturn(c, s, p, q, r)
       PROVE  TypeOK'
  <2> DEFINE request ==
        [op |-> "return", sale |-> s, product |-> p, quantity |-> q, restock |-> r]
  <2>1. p \in Products \ Serialized /\ q \in Nat
    BY <1>10 DEF BeginReturn
  <2>2. request \in TillRequests
    BY <2>1, RequestsTyped
  <2>3. till' = [till EXCEPT ![c] = request]
    BY <1>10 DEF BeginReturn
  <2> HIDE DEF request
  <2>4. till' \in [Tills -> TillRequests]
    BY <2>2, <2>3
  <2>5. QED
    BY <1>10, <2>4 DEF BeginReturn, inventoryVars
<1>11. ASSUME NEW c \in Tills, NEW s \in Sales, NEW u \in Units, BeginUnitReturn(c, s, u)
       PROVE  TypeOK'
  <2>1. till' \in [Tills -> TillRequests]
    BY <1>11, RequestsTyped DEF BeginUnitReturn
  <2>2. QED
    BY <1>11, <2>1 DEF BeginUnitReturn, inventoryVars
<1>12. ASSUME NEW c \in Tills, CommitSale(c)
       PROVE  TypeOK'
  <2> DEFINE s == till[c].sale
             S == till[c].units
  <2>1. s \in Sales /\ S \in SUBSET Units
    BY <1>12, TillTyped DEF CommitSale
  <2>2. SaleBranch[s] \in Branches /\ SaleLines[s] \in Goods
    BY <2>1, GoodsTyped
  <2>3. level' \in Sums /\ moved' \in Sums
    BY <1>12, <2>2, <1>g, TakeOutLemma DEF CommitSale
  <2>4. unit' \in UnitRows
    BY <1>12, <2>1, <1>g, MarkedLemma DEF CommitSale, UnitStatus
  <2>5. till' \in [Tills -> TillRequests]
    BY <1>12, RequestsTyped DEF CommitSale
  <2>6. /\ saleUnits' \in [Sales -> SUBSET Units]
        /\ completed' \subseteq Sales
        /\ raced' \subseteq Units
    BY <1>12, <2>1 DEF CommitSale
  <2>7. QED
    BY <1>12, <2>3, <2>4, <2>5, <2>6, <1>h, <1>i DEF CommitSale
<1>13. ASSUME NEW c \in Tills, CommitReturn(c)
       PROVE  TypeOK'
  <2> DEFINE s == till[c].sale
             goods == Just(till[c].product, till[c].quantity)
             back == IF till[c].restock THEN goods ELSE NoGoods
  <2>1. s \in Sales /\ goods \in Goods /\ back \in Goods
    BY <1>13, TillTyped, JustLemma, NoGoodsLemma DEF CommitReturn
  <2>2. SaleBranch[s] \in Branches /\ returned[s] \in Goods
    BY <2>1, GoodsTyped DEF Goods
  <2>3. level' \in Sums /\ moved' \in Sums
    BY <1>13, <2>1, <2>2, <1>g, BringInLemma DEF CommitReturn
  <2>4. returned' \in [Sales -> [Products -> Nat]]
    BY <1>13, <2>1, <2>2, PlusLemma DEF CommitReturn, Goods
  <2>5. till' \in [Tills -> TillRequests]
    BY <1>13, RequestsTyped DEF CommitReturn
  <2>6. QED
    BY <1>13, <2>3, <2>4, <2>5, <1>h DEF CommitReturn
<1>14. ASSUME NEW c \in Tills, CommitUnitReturn(c)
       PROVE  TypeOK'
  <2> DEFINE s == till[c].sale
             u == till[c].unit
             goods == Just(ProductOf[u], 1)
  <2>1. s \in Sales /\ u \in Units
    BY <1>14, TillTyped DEF CommitUnitReturn
  <2>2. /\ SaleBranch[s] \in Branches /\ returned[s] \in Goods
        /\ goods \in Goods /\ RestockOf(u) \in Goods
    BY <2>1, GoodsTyped DEF Goods
  <2>3. level' \in Sums /\ moved' \in Sums
    BY <1>14, <2>2, <1>g, BringInLemma DEF CommitUnitReturn
  <2>4. unit' \in UnitRows
    BY <1>14, <2>1, <1>g, MarkedLemma DEF CommitUnitReturn, UnitStatus
  <2>5. returned' \in [Sales -> [Products -> Nat]]
    BY <1>14, <2>1, <2>2, PlusLemma DEF CommitUnitReturn, Goods
  <2>6. till' \in [Tills -> TillRequests] /\ backUnits' \subseteq Units
    BY <1>14, <2>1, RequestsTyped DEF CommitUnitReturn
  <2>7. QED
    BY <1>14, <2>3, <2>4, <2>5, <2>6, <1>h, <1>i DEF CommitUnitReturn
<1>15. ASSUME NEW c \in Tills, AbandonTill(c)
       PROVE  TypeOK'
  <2>1. till' \in [Tills -> TillRequests]
    BY <1>15, RequestsTyped DEF AbandonTill
  <2>2. QED
    BY <1>15, <2>1 DEF AbandonTill, inventoryVars
<1>16. CASE UNCHANGED vars
  BY <1>16 DEF vars, inventoryVars, saleVars
<1> HIDE DEF TypeOK, InventoryTypeOK
<1>17. QED
  BY <1>1, <1>2, <1>3, <1>4, <1>5, <1>6, <1>7, <1>8, <1>9, <1>10, <1>11, <1>12,
     <1>13, <1>14, <1>15, <1>16
     DEF Next, InventoryNext, SaleNext, ReceiptNext

\* Every reachable state is well-typed, whatever requests overlap.
THEOREM TypeCorrect == Spec => []TypeOK
<1>1. TypeOK /\ [Next]_vars => TypeOK'
  BY TypeStep
<1>2. QED
  BY InitTyped, <1>1, PTL DEF Spec
-----------------------------------------------------------------------------
(* Levels and the ledger.                                                  *)

\* Every step leaves stock alone, brings goods in at one branch, or takes
\* goods out of one branch that has them.  The ledger gets the same
\* quantities, except that a serialized line can land or come back with
\* another quantity than the level's.
LEMMA StockStep ==
    ASSUME TypeOK, [Next]_vars
    PROVE  \/ UNCHANGED <<level, moved>>
           \/ \E b \in Branches, x, y \in Goods :
                 /\ level' = BringIn(level, b, x)
                 /\ moved' = BringIn(moved, b, y)
                 /\ \A p \in Products \ Serialized : x[p] = y[p]
           \/ \E b \in Branches, x \in Goods :
                 /\ OnHand(b, x)
                 /\ level' = TakeOut(level, b, x)
                 /\ moved' = TakeOut(moved, b, x)
<1> DEFINE Stays == UNCHANGED <<level, moved>>
           In == \E b \in Branches, x, y \in Goods :
                 /\ level' = BringIn(level, b, x)
                 /\ moved' = BringIn(moved, b, y)
                 /\ \A p \in Products \ Serialized : x[p] = y[p]
           Out == \E b \in Branches, x \in Goods :
                 /\ OnHand(b, x)
                 /\ level' = TakeOut(level, b, x)
                 /\ moved' = TakeOut(moved, b, x)
<1>1. ASSUME NEW b \in Branches, NEW p \in Products, NEW q \in 1..MaxDelta,
             AdjustUp(b, p, q) \/ AdjustDown(b, p, q) \/ ReceiveGoods(b, p, q)
      PROVE  In \/ Out
  <2>1. Just(p, q) \in Goods
    BY JustLemma, StockAssumption
  <2>2. QED
    BY <1>1, <2>1 DEF AdjustUp, AdjustDown, ReceiveGoods
<1>2. ASSUME NEW u \in Units, ReceiveUnit(u)
      PROVE  In
  BY <1>2, GoodsTyped DEF ReceiveUnit
<1>3. ASSUME NEW d \in Desks, NEW S \in SUBSET Units, CommitDispatch(d, S)
      PROVE  Out
  BY <1>3, DeskTyped, GoodsTyped DEF CommitDispatch
<1>4. ASSUME NEW d \in Desks, CommitReceive(d)
      PROVE  In
  <2> DEFINE t == desk[d].transfer
  <2>1. t \in Transfers
    BY <1>4, DeskTyped DEF CommitReceive
  <2>2. Destination[t] \in Branches /\ Lines[t] \in Goods /\ Arriving(t) \in Goods
    BY <2>1, GoodsTyped
  <2>3. \A p \in Products \ Serialized : Lines[t][p] = Arriving(t)[p]
    BY DEF Arriving
  <2>4. QED
    BY <1>4, <2>2, <2>3 DEF CommitReceive
<1>5. ASSUME NEW c \in Tills, CommitSale(c)
      PROVE  Out
  BY <1>5, TillTyped, GoodsTyped DEF CommitSale
<1>6. ASSUME NEW c \in Tills, CommitReturn(c)
      PROVE  In
  <2>1. /\ till[c].sale \in Sales
        /\ Just(till[c].product, till[c].quantity) \in Goods
        /\ NoGoods \in Goods
    BY <1>6, TillTyped, JustLemma, NoGoodsLemma DEF CommitReturn
  <2>2. QED
    BY <1>6, <2>1, GoodsTyped DEF CommitReturn
<1>7. ASSUME NEW c \in Tills, CommitUnitReturn(c)
      PROVE  In
  <2> DEFINE u == till[c].unit
  <2>1. till[c].sale \in Sales /\ u \in Units
    BY <1>7, TillTyped DEF CommitUnitReturn
  <2>2. ProductOf[u] \in Serialized /\ ProductOf[u] \in Products
    BY <2>1, StockAssumption
  <2>3. \A p \in Products \ Serialized : RestockOf(u)[p] = Just(ProductOf[u], 1)[p]
    BY <2>2 DEF RestockOf, Just, NoGoods
  <2>4. QED
    BY <1>7, <2>1, <2>3, GoodsTyped DEF CommitUnitReturn
<1>8. ASSUME NEW d \in Desks, NEW t \in Transfers,
             BeginCreate(d, t) \/ BeginDispatch(d, t) \/ BeginReceive(d, t)
      PROVE  Stays
  BY <1>8 DEF BeginCreate, BeginDispatch, BeginReceive
<1>9. ASSUME NEW d \in Desks, CommitCreate(d) \/ Abandon(d)
      PROVE  Stays
  BY <1>9 DEF CommitCreate, Abandon
<1>10. ASSUME NEW c \in Tills, NEW s \in Sales,
              \/ \E S \in SUBSET Units : FindUnits(c, s, S)
              \/ \E p \in Products, q \in 1..MaxDelta, r \in BOOLEAN : BeginReturn(c, s, p, q, r)
              \/ \E u \in Units : BeginUnitReturn(c, s, u)
              \/ AbandonTill(c)
       PROVE  Stays
  BY <1>10 DEF FindUnits, BeginReturn, BeginUnitReturn, AbandonTill, inventoryVars
<1>11. ASSUME UNCHANGED vars
       PROVE  Stays
  BY <1>11 DEF vars, inventoryVars
<1> HIDE DEF Stays, In, Out
<1>12. ASSUME SaleNext PROVE Stays \/ In \/ Out
  <2>1. CASE \E c \in Tills, s \in Sales, S \in SUBSET Units : FindUnits(c, s, S)
    BY <2>1, <1>10
  <2>2. CASE \E c \in Tills, s \in Sales, p \in Products, q \in 1..MaxDelta, r \in BOOLEAN :
                BeginReturn(c, s, p, q, r)
    BY <2>2, <1>10
  <2>3. CASE \E c \in Tills, s \in Sales, u \in Units : BeginUnitReturn(c, s, u)
    BY <2>3, <1>10
  <2>4. CASE \E c \in Tills :
                CommitSale(c) \/ CommitReturn(c) \/ CommitUnitReturn(c) \/ AbandonTill(c)
    <3> PICK c \in Tills :
            CommitSale(c) \/ CommitReturn(c) \/ CommitUnitReturn(c) \/ AbandonTill(c)
      BY <2>4
    <3>1. CASE AbandonTill(c)
      BY <3>1 DEF AbandonTill, inventoryVars, Stays
    <3>2. QED
      BY <3>1, <1>5, <1>6, <1>7
  <2>5. QED
    BY <1>12, <2>1, <2>2, <2>3, <2>4 DEF SaleNext
<1>13. ASSUME InventoryNext PROVE Stays \/ In \/ Out
  <2>1. CASE \E b \in Branches, p \in Products, q \in 1..MaxDelta :
                AdjustUp(b, p, q) \/ AdjustDown(b, p, q)
    BY <2>1, <1>1
  <2>2. CASE \E d \in Desks, t \in Transfers :
                BeginCreate(d, t) \/ BeginDispatch(d, t) \/ BeginReceive(d, t)
    BY <2>2, <1>8
  <2>3. CASE \E d \in Desks, S \in SUBSET Units : CommitDispatch(d, S)
    BY <2>3, <1>3
  <2>4. CASE \E d \in Desks : CommitCreate(d) \/ CommitReceive(d) \/ Abandon(d)
    BY <2>4, <1>4, <1>9
  <2>5. QED
    BY <1>13, <2>1, <2>2, <2>3, <2>4 DEF InventoryNext
<1>14. ASSUME ReceiptNext PROVE Stays \/ In \/ Out
  BY <1>14, <1>1, <1>2 DEF ReceiptNext
<1>15. Stays \/ In \/ Out
  <2>1. InventoryNext \/ SaleNext \/ ReceiptNext \/ UNCHANGED vars
    BY DEF Next
  <2>2. QED
    BY <2>1, <1>11, <1>12, <1>13, <1>14
<1>16. QED
  BY <1>15 DEF Stays, In, Out

LEMMA BookStep ==
    ASSUME TypeOK, [Next]_vars, StockNeverNegative, LedgerExplainsLevel
    PROVE  StockNeverNegative' /\ LedgerExplainsLevel'
<1>1. level \in Sums /\ moved \in Sums
  BY DEF TypeOK, InventoryTypeOK, Sums
<1>2. \A b \in Branches, p \in Products :
        level[b][p] \in Int /\ moved[b][p] \in Int /\ Opening[b][p] \in Nat
  BY <1>1, StockAssumption DEF Sums
<1>3. CASE UNCHANGED <<level, moved>>
  BY <1>3 DEF StockNeverNegative, LedgerExplainsLevel
<1>4. ASSUME NEW b \in Branches, NEW x \in Goods, NEW y \in Goods,
             level' = BringIn(level, b, x), moved' = BringIn(moved, b, y),
             \A p \in Products \ Serialized : x[p] = y[p]
      PROVE  StockNeverNegative' /\ LedgerExplainsLevel'
  <2>1. \A c \in Branches, p \in Products :
          /\ level'[c][p] = IF c = b THEN level[c][p] + x[p] ELSE level[c][p]
          /\ moved'[c][p] = IF c = b THEN moved[c][p] + y[p] ELSE moved[c][p]
    BY <1>1, <1>4, BringInLemma
  <2>2. \A p \in Products : x[p] \in Nat /\ y[p] \in Nat
    BY DEF Goods
  <2>3. QED
    BY <1>2, <1>4, <2>1, <2>2 DEF StockNeverNegative, LedgerExplainsLevel
<1>5. ASSUME NEW b \in Branches, NEW x \in Goods, OnHand(b, x),
             level' = TakeOut(level, b, x), moved' = TakeOut(moved, b, x)
      PROVE  StockNeverNegative' /\ LedgerExplainsLevel'
  <2>1. \A c \in Branches, p \in Products :
          /\ level'[c][p] = IF c = b THEN level[c][p] - x[p] ELSE level[c][p]
          /\ moved'[c][p] = IF c = b THEN moved[c][p] - x[p] ELSE moved[c][p]
    BY <1>1, <1>5, TakeOutLemma
  <2>2. \A p \in Products : x[p] \in Nat /\ (x[p] > 0 => level[b][p] >= x[p])
    BY <1>5 DEF Goods, OnHand
  <2>3. QED
    BY <1>2, <2>1, <2>2 DEF StockNeverNegative, LedgerExplainsLevel
<1>6. QED
  BY <1>3, <1>4, <1>5, StockStep

\* Stock is never oversold, and for products counted by quantity the ledger
\* always explains the level.
THEOREM StockStaysBooked == Spec => []StockIsBooked
<1>1. Init => StockNeverNegative /\ LedgerExplainsLevel
  BY StockAssumption DEF Init, InventoryInit, StockNeverNegative, LedgerExplainsLevel, NoGoods
<1>2. /\ TypeOK /\ StockNeverNegative /\ LedgerExplainsLevel
      /\ [Next]_vars
      => StockNeverNegative' /\ LedgerExplainsLevel'
  BY BookStep
<1>3. QED
  BY <1>1, <1>2, TypeCorrect, PTL DEF Spec, StockIsBooked

-----------------------------------------------------------------------------
(* Proofs about the transfers and the serialized units of module           *)
(* StockRoom.  The properties of a transfer say what its status means, and *)
(* are not inductive: they rest on what the requests in progress may still *)
(* assume about the status they read.                                      *)

\* desk d serves a request of kind o about transfer t.
Serves(d, o, t) == desk[d].op = o /\ desk[d].transfer = t

\* A create request in progress is the only one of its transfer, which has no
\* row yet; a dispatch or receive request has seen the row.
RequestInv ==
    /\ \A d \in Desks, t \in Transfers : Serves(d, "create", t) =>
          /\ status[t] = "NONE"
          /\ \A e \in Desks : Serves(e, "create", t) => e = d
    /\ \A d \in Desks, t \in Transfers :
          Serves(d, "dispatch", t) \/ Serves(d, "receive", t) => status[t] # "NONE"

\* What a request read of an uncontended transfer still holds.
AloneInv ==
    \A t \in Transfers \ contended :
        /\ \A d, e \in Desks :
              /\ Serves(d, "dispatch", t) \/ Serves(d, "receive", t)
              /\ Serves(e, "dispatch", t) \/ Serves(e, "receive", t)
              => d = e
        /\ \A d \in Desks :
              /\ Serves(d, "dispatch", t) => status[t] = "SUBMITTED"
              /\ Serves(d, "receive", t) => status[t] = "IN_TRANSIT"

-----------------------------------------------------------------------------
(* The requests.                                                           *)

\* The steps that write a transfer or a desk.
DeskStep(d) ==
    \/ \E t \in Transfers :
          BeginCreate(d, t) \/ BeginDispatch(d, t) \/ BeginReceive(d, t)
    \/ \E S \in SUBSET Units : CommitDispatch(d, S)
    \/ CommitCreate(d) \/ CommitReceive(d) \/ Abandon(d)

transferVars == <<status, shipped, landed, outgoing, desk, contended>>

\* Everything but a desk's step leaves the transfers alone.
LEMMA TransferStep ==
    ASSUME [Next]_vars
    PROVE  (\E d \in Desks : DeskStep(d)) \/ UNCHANGED transferVars
<1>1. CASE InventoryNext
  BY <1>1 DEF InventoryNext, AdjustUp, AdjustDown, DeskStep, transferVars
<1>2. CASE SaleNext
  BY <1>2 DEF SaleNext, FindUnits, CommitSale, BeginReturn, CommitReturn,
     BeginUnitReturn, CommitUnitReturn, AbandonTill, inventoryVars, transferVars
<1>3. CASE ReceiptNext
  BY <1>3 DEF ReceiptNext, ReceiveGoods, ReceiveUnit, transferVars
<1>4. CASE UNCHANGED vars
  BY <1>4 DEF vars, inventoryVars, transferVars
<1>5. QED
  BY <1>1, <1>2, <1>3, <1>4 DEF Next

LEMMA RequestStep ==
    ASSUME TypeOK, RequestInv, [Next]_vars
    PROVE  RequestInv'
<1> USE DEF RequestInv, Serves
<1>t. desk \in [Desks -> DeskRequests] /\ status \in [Transfers -> TransferStatus]
  BY DEF TypeOK, InventoryTypeOK
<1>1. CASE UNCHANGED transferVars
  BY <1>1 DEF transferVars
<1>2. ASSUME NEW d \in Desks, DeskStep(d)
      PROVE  RequestInv'
  <2>1. ASSUME NEW t \in Transfers, BeginCreate(d, t)
        PROVE  RequestInv'
    BY <2>1, <1>t DEF BeginCreate, Working
  <2>2. ASSUME NEW t \in Transfers, BeginDispatch(d, t) \/ BeginReceive(d, t)
        PROVE  RequestInv'
    BY <2>2, <1>t DEF BeginDispatch, BeginReceive, Receivable
  <2>3. ASSUME NEW S \in SUBSET Units, CommitDispatch(d, S)
        PROVE  RequestInv'
    <3>1. desk[d].transfer \in Transfers /\ status[desk[d].transfer] # "NONE"
      BY <2>3, DeskTyped DEF CommitDispatch
    <3>2. QED
      BY <2>3, <3>1, <1>t DEF CommitDispatch, IdleDesk
  <2>4. CASE CommitReceive(d)
    <3>1. desk[d].transfer \in Transfers /\ status[desk[d].transfer] # "NONE"
      BY <2>4, DeskTyped DEF CommitReceive
    <3>2. QED
      BY <2>4, <3>1, <1>t DEF CommitReceive, IdleDesk
  <2>5. CASE CommitCreate(d)
    <3>1. desk[d].transfer \in Transfers /\ status[desk[d].transfer] = "NONE"
      BY <2>5, DeskTyped DEF CommitCreate
    <3>2. QED
      BY <2>5, <3>1, <1>t DEF CommitCreate, IdleDesk
  <2>6. CASE Abandon(d)
    BY <2>6, <1>t DEF Abandon, IdleDesk
  <2>7. QED
    BY <1>2, <2>1, <2>2, <2>3, <2>4, <2>5, <2>6 DEF DeskStep
<1>3. QED
  BY <1>1, <1>2, TransferStep

LEMMA AloneStep ==
    ASSUME TypeOK, RequestInv, AloneInv, [Next]_vars
    PROVE  AloneInv'
<1> USE DEF AloneInv, Serves
<1>t. /\ desk \in [Desks -> DeskRequests] /\ status \in [Transfers -> TransferStatus]
      /\ contended \subseteq Transfers
  BY DEF TypeOK, InventoryTypeOK
<1>1. CASE UNCHANGED transferVars
  BY <1>1 DEF transferVars
<1>2. ASSUME NEW d \in Desks, DeskStep(d)
      PROVE  AloneInv'
  <2>1. ASSUME NEW t \in Transfers, BeginCreate(d, t)
        PROVE  AloneInv'
    BY <2>1, <1>t DEF BeginCreate
  <2>2. ASSUME NEW t \in Transfers, BeginDispatch(d, t) \/ BeginReceive(d, t)
        PROVE  AloneInv'
    BY <2>2, <1>t DEF BeginDispatch, BeginReceive, Receivable, Contend, Working
  <2>3. ASSUME NEW S \in SUBSET Units, CommitDispatch(d, S)
        PROVE  AloneInv'
    BY <2>3, <1>t, DeskTyped DEF CommitDispatch, IdleDesk
  <2>4. CASE CommitReceive(d)
    BY <2>4, <1>t, DeskTyped DEF CommitReceive, IdleDesk
  <2>5. CASE CommitCreate(d)
    <3>1. desk[d].transfer \in Transfers /\ status[desk[d].transfer] = "NONE"
      BY <2>5, DeskTyped DEF CommitCreate, RequestInv
    <3>2. QED
      BY <2>5, <3>1, <1>t DEF CommitCreate, IdleDesk, RequestInv
  <2>6. CASE Abandon(d)
    BY <2>6, <1>t DEF Abandon, IdleDesk
  <2>7. QED
    BY <1>2, <2>1, <2>2, <2>3, <2>4, <2>5, <2>6 DEF DeskStep
<1>3. QED
  BY <1>1, <1>2, TransferStep

-----------------------------------------------------------------------------
(* Goods that travel.                                                      *)

LEMMA BookedStep ==
    ASSUME TypeOK, RequestInv, AloneInv, GoodsTravelOnce, [Next]_vars
    PROVE  GoodsTravelOnce'
<1>t. /\ desk \in [Desks -> DeskRequests] /\ status \in [Transfers -> TransferStatus]
      /\ shipped \in [Transfers -> Goods] /\ landed \in [Transfers -> Goods]
      /\ contended \subseteq Transfers
  BY DEF TypeOK, InventoryTypeOK, Goods
<1>1. CASE UNCHANGED transferVars
  BY <1>1 DEF transferVars, GoodsTravelOnce, TransferBooked
<1>2. ASSUME NEW d \in Desks, DeskStep(d)
      PROVE  GoodsTravelOnce'
  <2>1. ASSUME NEW t \in Transfers,
               BeginCreate(d, t) \/ BeginDispatch(d, t) \/ BeginReceive(d, t)
        PROVE  GoodsTravelOnce'
    BY <2>1, <1>t DEF BeginCreate, BeginDispatch, BeginReceive, Contend,
       GoodsTravelOnce, TransferBooked
  <2>2. ASSUME NEW S \in SUBSET Units, CommitDispatch(d, S)
        PROVE  GoodsTravelOnce'
    <3>1. PICK t \in Transfers : t = desk[d].transfer
      BY <2>2, DeskTyped DEF CommitDispatch
    <3>2. ASSUME t \notin contended
          PROVE  TransferBooked(t)'
      <4>1. status[t] = "SUBMITTED"
        BY <2>2, <3>1, <3>2 DEF CommitDispatch, AloneInv, Serves
      <4>2. shipped[t] = NoGoods /\ landed[t] = NoGoods
        BY <3>1, <3>2, <4>1 DEF GoodsTravelOnce, TransferBooked
      <4>3. shipped'[t] = Lines[t]
        <5>1. Lines[t] \in [Products -> Nat]
          BY <3>1, TransferAssumption
        <5>2. Plus(NoGoods, Lines[t]) = Lines[t]
          BY <5>1 DEF Plus, NoGoods
        <5>3. QED
          BY <2>2, <1>t, <3>1, <4>2, <5>2 DEF CommitDispatch
      <4>4. QED
        BY <2>2, <1>t, <3>1, <4>2, <4>3 DEF CommitDispatch, TransferBooked
    <3>3. QED
      BY <2>2, <1>t, <3>1, <3>2 DEF CommitDispatch, GoodsTravelOnce, TransferBooked
  <2>3. CASE CommitReceive(d)
    <3>1. PICK t \in Transfers : t = desk[d].transfer
      BY <2>3, DeskTyped DEF CommitReceive
    <3>2. ASSUME t \notin contended
          PROVE  TransferBooked(t)'
      <4>1. status[t] = "IN_TRANSIT"
        BY <2>3, <3>1, <3>2 DEF CommitReceive, AloneInv, Serves
      <4>2. shipped[t] = Lines[t] /\ landed[t] = NoGoods
        BY <3>1, <3>2, <4>1 DEF GoodsTravelOnce, TransferBooked
      <4>3. landed'[t] = Lines[t]
        <5>1. Lines[t] \in [Products -> Nat]
          BY <3>1, TransferAssumption
        <5>2. Arriving(t) = Lines[t]
          BY <4>2, <5>1 DEF Arriving
        <5>3. Plus(NoGoods, Lines[t]) = Lines[t]
          BY <5>1 DEF Plus, NoGoods
        <5>4. QED
          BY <2>3, <1>t, <3>1, <4>2, <5>2, <5>3 DEF CommitReceive
      <4>4. QED
        BY <2>3, <1>t, <3>1, <4>2, <4>3 DEF CommitReceive, TransferBooked
    <3>3. QED
      BY <2>3, <1>t, <3>1, <3>2 DEF CommitReceive, GoodsTravelOnce, TransferBooked
  <2>4. CASE CommitCreate(d)
    <3>1. desk[d].transfer \in Transfers /\ status[desk[d].transfer] = "NONE"
      BY <2>4, DeskTyped DEF CommitCreate, RequestInv, Serves
    <3>2. QED
      BY <2>4, <1>t, <3>1 DEF CommitCreate, GoodsTravelOnce, TransferBooked
  <2>5. CASE Abandon(d)
    BY <2>5 DEF Abandon, GoodsTravelOnce, TransferBooked
  <2>6. QED
    BY <1>2, <2>1, <2>2, <2>3, <2>4, <2>5 DEF DeskStep
<1>3. QED
  BY <1>1, <1>2, TransferStep

\* A reserved unit keeps its way back: RESERVED is only written together with
\* IN_TRANSIT, and a transfer leaves IN_TRANSIT only by releasing its units.
LEMMA StrandedStep ==
    ASSUME TypeOK, RequestInv, NoStrandedUnit, [Next]_vars
    PROVE  NoStrandedUnit'
<1> USE DEF NoStrandedUnit
<1>t. /\ unit \in UnitRows /\ status \in [Transfers -> TransferStatus]
      /\ outgoing \in [Transfers -> SUBSET Units]
  BY DEF TypeOK, InventoryTypeOK, UnitRows
<1>1. ASSUME UNCHANGED <<unit, status, outgoing>>
      PROVE  NoStrandedUnit'
  BY <1>1
<1>2. ASSUME NEW S \in SUBSET Units, NEW s \in UnitStatus \ {"RESERVED"},
             unit' = Marked(S, s), UNCHANGED <<status, outgoing>>
      PROVE  NoStrandedUnit'
  BY <1>2, <1>t DEF Marked, UnitRows
<1>3. ASSUME NEW u \in Units, ReceiveUnit(u)
      PROVE  NoStrandedUnit'
  BY <1>3, <1>t DEF ReceiveUnit, PlacedAt, UnitRows
<1>4. ASSUME NEW d \in Desks, NEW S \in SUBSET Units, CommitDispatch(d, S)
      PROVE  NoStrandedUnit'
  <2>1. desk[d].transfer \in Transfers
    BY <1>4, DeskTyped DEF CommitDispatch
  <2>2. QED
    BY <1>4, <1>t, <2>1 DEF CommitDispatch, Marked, UnitRows
<1>5. ASSUME NEW d \in Desks, CommitReceive(d)
      PROVE  NoStrandedUnit'
  <2>1. desk[d].transfer \in Transfers
    BY <1>5, DeskTyped DEF CommitReceive
  <2>2. QED
    BY <1>5, <1>t, <2>1 DEF CommitReceive, PlacedAt, UnitRows
<1>6. ASSUME NEW d \in Desks, CommitCreate(d)
      PROVE  NoStrandedUnit'
  <2>1. desk[d].transfer \in Transfers /\ status[desk[d].transfer] = "NONE"
    BY <1>6, DeskTyped DEF CommitCreate, RequestInv, Serves
  <2>2. QED
    BY <1>6, <1>t, <2>1 DEF CommitCreate
<1>7. ASSUME InventoryNext
      PROVE  NoStrandedUnit'
  <2>1. CASE \E b \in Branches, p \in Products, q \in 1..MaxDelta :
                AdjustUp(b, p, q) \/ AdjustDown(b, p, q)
    BY <2>1, <1>1 DEF AdjustUp, AdjustDown
  <2>2. CASE \E d \in Desks, t \in Transfers :
                BeginCreate(d, t) \/ BeginDispatch(d, t) \/ BeginReceive(d, t)
    BY <2>2, <1>1 DEF BeginCreate, BeginDispatch, BeginReceive
  <2>3. CASE \E d \in Desks, S \in SUBSET Units : CommitDispatch(d, S)
    BY <2>3, <1>4
  <2>4. CASE \E d \in Desks : CommitCreate(d) \/ CommitReceive(d) \/ Abandon(d)
    BY <2>4, <1>1, <1>5, <1>6 DEF Abandon
  <2>5. QED
    BY <1>7, <2>1, <2>2, <2>3, <2>4 DEF InventoryNext
<1>8. ASSUME NEW c \in Tills, CommitSale(c)
      PROVE  NoStrandedUnit'
  BY <1>8, <1>2, TillTyped DEF CommitSale, UnitStatus
<1>9. ASSUME NEW c \in Tills, CommitUnitReturn(c)
      PROVE  NoStrandedUnit'
  <2>1. {till[c].unit} \in SUBSET Units
    BY <1>9, TillTyped DEF CommitUnitReturn
  <2>2. QED
    BY <1>9, <1>2, <2>1 DEF CommitUnitReturn, UnitStatus
<1>10. ASSUME SaleNext
       PROVE  NoStrandedUnit'
  <2>1. ASSUME NEW c \in Tills, NEW s \in Sales,
               \/ \E S \in SUBSET Units : FindUnits(c, s, S)
               \/ \E p \in Products, q \in 1..MaxDelta, r \in BOOLEAN :
                     BeginReturn(c, s, p, q, r)
               \/ \E u \in Units : BeginUnitReturn(c, s, u)
        PROVE  NoStrandedUnit'
    BY <2>1, <1>1 DEF FindUnits, BeginReturn, BeginUnitReturn, inventoryVars
  <2>2. ASSUME NEW c \in Tills, CommitReturn(c) \/ AbandonTill(c)
        PROVE  NoStrandedUnit'
    BY <2>2, <1>1 DEF CommitReturn, AbandonTill, inventoryVars
  <2>3. QED
    BY <1>10, <2>1, <2>2, <1>8, <1>9 DEF SaleNext
<1>11. ASSUME ReceiptNext
       PROVE  NoStrandedUnit'
  BY <1>11, <1>1, <1>3 DEF ReceiptNext, ReceiveGoods
<1>12. ASSUME UNCHANGED vars
       PROVE  NoStrandedUnit'
  BY <1>12, <1>1 DEF vars, inventoryVars
<1> HIDE DEF NoStrandedUnit
<1>13. QED
  BY <1>7, <1>10, <1>11, <1>12 DEF Next

\* The inductive invariant of the transfers.
TransferInv ==
    TypeOK /\ RequestInv /\ AloneInv /\ GoodsTravelOnce /\ NoStrandedUnit

LEMMA TransferInvariant == Spec => []TransferInv
<1>1. Init => TransferInv
  <2> SUFFICES ASSUME Init PROVE TransferInv
    OBVIOUS
  <2>1. RequestInv /\ AloneInv
    BY DEF Init, InventoryInit, RequestInv, AloneInv, Serves, IdleDesk
  <2>2. GoodsTravelOnce /\ NoStrandedUnit
    BY DEF Init, InventoryInit, GoodsTravelOnce, TransferBooked, NoStrandedUnit
  <2>3. QED
    BY <2>1, <2>2, InitTyped DEF TransferInv
<1>2. TransferInv /\ [Next]_vars => TransferInv'
  BY TypeStep, RequestStep, AloneStep, BookedStep, StrandedStep DEF TransferInv
<1>3. QED
  BY <1>1, <1>2, PTL DEF Spec

\* Goods leave and arrive once, as the transfer's status says, whenever no two
\* requests of the inventory service were open on the transfer at one time.
THEOREM GoodsTravel == Spec => []GoodsTravelOnce
BY TransferInvariant, PTL DEF TransferInv

\* No interleaving leaves a unit reserved for a transfer that cannot release it.
THEOREM NoUnitStranded == Spec => []NoStrandedUnit
BY TransferInvariant, PTL DEF TransferInv

\* Goods on their way are neither lost nor multiplied.
THEOREM TransfersInOrder == Spec => []TransfersKeepGoods
BY GoodsTravel, NoUnitStranded, PTL DEF TransfersKeepGoods

-----------------------------------------------------------------------------
(* Proofs about the units that sales take: a unit is sold once, and one    *)
(* that was sold does not get back on the shelf.                           *)

\* A sale in progress is the only request for its sale, which is not there
\* yet; a return in progress has read the sale and the unit.
TillInv ==
    /\ \A c \in Tills : till[c].op = "sale" =>
          /\ till[c].sale \notin completed
          /\ \A k \in Tills : till[k].op = "sale" /\ till[k].sale = till[c].sale => k = c
    /\ \A c \in Tills : till[c].op = "returnUnit" =>
          /\ till[c].sale \in completed
          /\ till[c].unit \in saleUnits[till[c].sale]

\* A transfer that travels has reserved its units, for itself alone; one that
\* was not dispatched names none.
OutgoingInv ==
    /\ \A t \in Transfers, u \in Units :
          status[t] = "IN_TRANSIT" /\ u \in outgoing[t] => unit[u].status = "RESERVED"
    /\ \A t \in Transfers : status[t] \in {"NONE", "SUBMITTED"} => outgoing[t] = {}
    /\ \A t1, t2 \in Transfers :
          t1 # t2 /\ status[t1] = "IN_TRANSIT" /\ status[t2] = "IN_TRANSIT"
              => outgoing[t1] \cap outgoing[t2] = {}

\* The histories only grow.
LEMMA HistoryStep ==
    ASSUME [Next]_vars
    PROVE  Orderly' => Orderly
<1> USE DEF Orderly
<1>1. CASE InventoryNext /\ UNCHANGED saleVars
  BY <1>1 DEF InventoryNext, AdjustUp, AdjustDown, BeginCreate, CommitCreate,
     BeginDispatch, CommitDispatch, BeginReceive, CommitReceive, Abandon, Contend, saleVars
<1>2. CASE SaleNext
  BY <1>2 DEF SaleNext, FindUnits, CommitSale, BeginReturn, CommitReturn,
     BeginUnitReturn, CommitUnitReturn, AbandonTill, inventoryVars
<1>3. CASE ReceiptNext
  BY <1>3 DEF ReceiptNext, ReceiveGoods, ReceiveUnit, saleVars
<1>4. CASE UNCHANGED vars
  BY <1>4 DEF vars, inventoryVars, saleVars
<1>5. QED
  BY <1>1, <1>2, <1>3, <1>4 DEF Next

-----------------------------------------------------------------------------
(* The steps of a till.                                                    *)

LEMMA TillStep ==
    ASSUME TypeOK, TillInv, [Next]_vars
    PROVE  TillInv'
<1> USE DEF TillInv
<1>t. /\ till \in [Tills -> TillRequests] /\ completed \subseteq Sales
      /\ saleUnits \in [Sales -> SUBSET Units]
  BY DEF TypeOK
<1>1. ASSUME UNCHANGED <<till, completed, saleUnits>>
      PROVE  TillInv'
  BY <1>1
<1>2. ASSUME NEW c \in Tills, NEW s \in Sales, NEW S \in SUBSET Units, FindUnits(c, s, S)
      PROVE  TillInv'
  BY <1>2, <1>t DEF FindUnits
<1>3. ASSUME NEW c \in Tills, CommitSale(c)
      PROVE  TillInv'
  <2>1. till[c].sale \in Sales
    BY <1>3, TillTyped DEF CommitSale
  <2>2. \A k \in Tills : k # c => till'[k] = till[k]
    BY <1>3, <1>t DEF CommitSale
  <2>3. till'[c].op = "idle"
    BY <1>3, <1>t DEF CommitSale, IdleTill
  <2>4. \A r \in completed : saleUnits'[r] = saleUnits[r]
    BY <1>3, <1>t DEF CommitSale
  <2>5. QED
    BY <1>3, <1>t, <2>1, <2>2, <2>3, <2>4 DEF CommitSale
<1>4. ASSUME NEW c \in Tills, NEW s \in Sales, NEW p \in Products, NEW q \in 1..MaxDelta,
             NEW r \in BOOLEAN, BeginReturn(c, s, p, q, r)
      PROVE  TillInv'
  BY <1>4, <1>t DEF BeginReturn
<1>5. ASSUME NEW c \in Tills, NEW s \in Sales, NEW u \in Units, BeginUnitReturn(c, s, u)
      PROVE  TillInv'
  BY <1>5, <1>t DEF BeginUnitReturn, Returnable
<1>6. ASSUME NEW c \in Tills, CommitReturn(c) \/ CommitUnitReturn(c) \/ AbandonTill(c)
      PROVE  TillInv'
  <2>1. /\ till' = [till EXCEPT ![c] = IdleTill]
        /\ UNCHANGED <<completed, saleUnits>>
    BY <1>6 DEF CommitReturn, CommitUnitReturn, AbandonTill
  <2>2. QED
    BY <2>1, <1>t DEF IdleTill
<1>7. ASSUME InventoryNext /\ UNCHANGED saleVars
      PROVE  TillInv'
  BY <1>7, <1>1 DEF saleVars
<1>8. ASSUME ReceiptNext
      PROVE  TillInv'
  BY <1>8, <1>1 DEF ReceiptNext, ReceiveGoods, ReceiveUnit, saleVars
<1>9. ASSUME UNCHANGED vars
      PROVE  TillInv'
  BY <1>9, <1>1 DEF vars, saleVars
<1> HIDE DEF TillInv
<1>10. QED
  BY <1>2, <1>3, <1>4, <1>5, <1>6, <1>7, <1>8, <1>9 DEF Next, SaleNext

\* The unique index on SaleItem.inventoryUnitId is what makes this inductive.
LEMMA SoldOnceStep ==
    ASSUME TypeOK, SoldOnce, [Next]_vars
    PROVE  SoldOnce'
<1> USE DEF SoldOnce
<1>t. saleUnits \in [Sales -> SUBSET Units]
  BY DEF TypeOK
<1>1. ASSUME UNCHANGED saleUnits
      PROVE  SoldOnce'
  BY <1>1
<1>2. ASSUME NEW c \in Tills, CommitSale(c)
      PROVE  SoldOnce'
  <2>1. till[c].sale \in Sales
    BY <1>2, TillTyped DEF CommitSale
  <2>2. \A s \in Sales : till[c].units \cap saleUnits[s] = {}
    BY <1>2, <1>t DEF CommitSale, NeverSold, SoldUnits
  <2>3. QED
    BY <1>2, <1>t, <2>1, <2>2 DEF CommitSale
<1>3. ASSUME SaleNext
      PROVE  SoldOnce'
  BY <1>1, <1>2, <1>3 DEF SaleNext, FindUnits, BeginReturn, CommitReturn,
     BeginUnitReturn, CommitUnitReturn, AbandonTill
<1>4. ASSUME \/ InventoryNext /\ UNCHANGED saleVars
             \/ ReceiptNext
             \/ UNCHANGED vars
      PROVE  SoldOnce'
  BY <1>1, <1>4 DEF ReceiptNext, ReceiveGoods, ReceiveUnit, saleVars, vars
<1> HIDE DEF SoldOnce
<1>5. QED
  BY <1>3, <1>4 DEF Next

\* A unit is on the lines of one sale at most.
THEOREM UnitSoldOnce == Spec => []SoldOnce
<1>1. Init => SoldOnce
  BY DEF Init, SoldOnce
<1>2. TypeOK /\ SoldOnce /\ [Next]_vars => SoldOnce'
  BY SoldOnceStep
<1>3. QED
  BY <1>1, <1>2, TypeCorrect, PTL DEF Spec

-----------------------------------------------------------------------------
(* Sold units.                                                             *)

OffTheShelf == \A u \in SoldUnits : unit[u].status \in {"SOLD", "RETURNED"}

\* Together they are inductive while requests are orderly: receiving a
\* transfer shelves only units it reserved itself, and no reserved unit is sold.
UnitInv == OutgoingInv /\ OffTheShelf

LEMMA UnitStep ==
    ASSUME TransferInv, TillInv, UnitInv, Orderly', [Next]_vars
    PROVE  UnitInv'
<1> USE DEF UnitInv, OutgoingInv, OffTheShelf, SoldUnits
<1>t. /\ unit \in UnitRows /\ status \in [Transfers -> TransferStatus]
      /\ outgoing \in [Transfers -> SUBSET Units]
      /\ saleUnits \in [Sales -> SUBSET Units]
      /\ TypeOK /\ RequestInv /\ AloneInv
  BY DEF TransferInv, TypeOK, InventoryTypeOK, UnitRows
<1>o. contended = {} /\ raced' = {}
  BY HistoryStep DEF Orderly
<1>1. ASSUME UNCHANGED <<unit, status, outgoing, saleUnits>>
      PROVE  UnitInv'
  BY <1>1
<1>2. ASSUME NEW u \in Units, ReceiveUnit(u)
      PROVE  UnitInv'
  BY <1>2, <1>t DEF ReceiveUnit, PlacedAt, UnitRows, saleVars
<1>3. ASSUME NEW d \in Desks, NEW S \in SUBSET Units, CommitDispatch(d, S), UNCHANGED saleVars
      PROVE  UnitInv'
  <2>1. PICK t \in Transfers : t = desk[d].transfer
    BY <1>3, <1>t, DeskTyped DEF CommitDispatch
  <2>2. status[t] = "SUBMITTED"
    BY <1>3, <1>t, <1>o, <2>1 DEF CommitDispatch, AloneInv, Serves
  <2>3. outgoing[t] = {}
    BY <2>1, <2>2
  <2>4. /\ outgoing' = [outgoing EXCEPT ![t] = S]
        /\ status' = [status EXCEPT ![t] = "IN_TRANSIT"]
        /\ unit' = Marked(S, "RESERVED")
        /\ \A u \in S : unit[u].status = "IN_STOCK"
        /\ saleUnits' = saleUnits
    BY <1>3, <2>1, <2>3 DEF CommitDispatch, InStockAt, saleVars
  <2>5. \A u \in Units :
          unit'[u].status = IF u \in S THEN "RESERVED" ELSE unit[u].status
    BY <2>4, <1>t DEF Marked, UnitRows
  <2>6. OffTheShelf'
    BY <2>4, <2>5, <1>t
  <2>7. OutgoingInv'
    BY <2>1, <2>4, <2>5, <1>t
  <2>8. QED
    BY <2>6, <2>7
<1>4. ASSUME NEW d \in Desks, CommitReceive(d), UNCHANGED saleVars
      PROVE  UnitInv'
  <2>1. PICK t \in Transfers : t = desk[d].transfer
    BY <1>4, <1>t, DeskTyped DEF CommitReceive
  <2>2. status[t] = "IN_TRANSIT"
    BY <1>4, <1>t, <1>o, <2>1 DEF CommitReceive, AloneInv, Serves
  <2>3. /\ outgoing' = outgoing /\ saleUnits' = saleUnits
        /\ status' = [status EXCEPT ![t] = "RECEIVED"]
        /\ unit' = PlacedAt(outgoing[t], Destination[t])
    BY <1>4, <2>1 DEF CommitReceive, saleVars
  <2>4. \A u \in Units : u \notin outgoing[t] => unit'[u] = unit[u]
    BY <2>3 DEF PlacedAt
  <2>5. \A u \in outgoing[t] : u \in Units /\ unit[u].status = "RESERVED"
    BY <1>t, <2>1, <2>2
  <2>6. OffTheShelf'
    BY <1>t, <2>3, <2>4, <2>5
  <2>7. OutgoingInv'
    BY <1>t, <2>1, <2>2, <2>3, <2>4
  <2>8. QED
    BY <2>6, <2>7
<1>5. ASSUME NEW d \in Desks, CommitCreate(d), UNCHANGED saleVars
      PROVE  UnitInv'
  <2>1. desk[d].transfer \in Transfers /\ status[desk[d].transfer] = "NONE"
    BY <1>5, <1>t, DeskTyped DEF CommitCreate, RequestInv, Serves
  <2>2. QED
    BY <1>5, <1>t, <2>1 DEF CommitCreate, saleVars
<1>6. ASSUME NEW c \in Tills, CommitSale(c)
      PROVE  UnitInv'
  <2> DEFINE S == till[c].units
             s == till[c].sale
  <2>1. s \in Sales /\ S \in SUBSET Units
    BY <1>6, <1>t, TillTyped DEF CommitSale
  <2>2. \A u \in S : unit[u].status = "IN_STOCK"
    <3>1. {u \in S : ~InStockAt({u}, SaleBranch[s])} = {}
      BY <1>6, <1>o DEF CommitSale
    <3>2. QED
      BY <3>1 DEF InStockAt
  <2>3. \A u \in Units : unit'[u].status = IF u \in S THEN "SOLD" ELSE unit[u].status
    BY <1>6, <1>t DEF CommitSale, Marked, UnitRows
  <2>4. saleUnits' = [saleUnits EXCEPT ![s] = S] /\ UNCHANGED <<status, outgoing>>
    BY <1>6 DEF CommitSale
  <2> HIDE DEF S, s
  <2>5. OffTheShelf'
    BY <2>1, <2>3, <2>4, <1>t
  <2>6. OutgoingInv'
    BY <2>1, <2>2, <2>3, <2>4, <1>t
  <2>7. QED
    BY <2>5, <2>6
<1>7. ASSUME NEW c \in Tills, CommitUnitReturn(c)
      PROVE  UnitInv'
  <2>1. PICK u \in Units, s \in Sales : u = till[c].unit /\ s = till[c].sale
    BY <1>7, <1>t, TillTyped DEF CommitUnitReturn
  <2>2. unit[u].status \in {"SOLD", "RETURNED"}
    <3>1. till[c].op = "returnUnit"
      BY <1>7 DEF CommitUnitReturn
    <3>2. u \in saleUnits[s]
      BY <2>1, <3>1 DEF TillInv
    <3>3. QED
      BY <3>2
  <2>3. \A v \in Units : unit'[v].status = IF v = u THEN "RETURNED" ELSE unit[v].status
    <3>1. unit' = Marked({u}, "RETURNED")
      BY <1>7, <2>1 DEF CommitUnitReturn
    <3>2. QED
      BY <1>t, <3>1 DEF Marked, UnitRows
  <2>4. UNCHANGED <<status, outgoing, saleUnits>>
    BY <1>7 DEF CommitUnitReturn
  <2>5. QED
    BY <1>t, <2>1, <2>2, <2>3, <2>4
<1>8. ASSUME InventoryNext, UNCHANGED saleVars
      PROVE  UnitInv'
  <2>1. CASE \E b \in Branches, p \in Products, q \in 1..MaxDelta :
                AdjustUp(b, p, q) \/ AdjustDown(b, p, q)
    BY <2>1, <1>1, <1>8 DEF AdjustUp, AdjustDown, saleVars
  <2>2. CASE \E d \in Desks, t \in Transfers :
                BeginCreate(d, t) \/ BeginDispatch(d, t) \/ BeginReceive(d, t)
    BY <2>2, <1>1, <1>8 DEF BeginCreate, BeginDispatch, BeginReceive, saleVars
  <2>3. CASE \E d \in Desks, S \in SUBSET Units : CommitDispatch(d, S)
    BY <2>3, <1>3, <1>8
  <2>4. CASE \E d \in Desks : CommitCreate(d) \/ CommitReceive(d) \/ Abandon(d)
    <3>1. CASE \E d \in Desks : Abandon(d)
      BY <3>1, <1>1, <1>8 DEF Abandon, saleVars
    <3>2. QED
      BY <2>4, <3>1, <1>4, <1>5, <1>8
  <2>5. QED
    BY <1>8, <2>1, <2>2, <2>3, <2>4 DEF InventoryNext
<1>9. ASSUME SaleNext
      PROVE  UnitInv'
  <2>1. ASSUME NEW c \in Tills, NEW s \in Sales,
               \/ \E S \in SUBSET Units : FindUnits(c, s, S)
               \/ \E p \in Products, q \in 1..MaxDelta, r \in BOOLEAN :
                     BeginReturn(c, s, p, q, r)
               \/ \E u \in Units : BeginUnitReturn(c, s, u)
        PROVE  UnitInv'
    BY <2>1, <1>1 DEF FindUnits, BeginReturn, BeginUnitReturn, inventoryVars
  <2>2. ASSUME NEW c \in Tills, CommitReturn(c) \/ AbandonTill(c)
        PROVE  UnitInv'
    BY <2>2, <1>1 DEF CommitReturn, AbandonTill, inventoryVars
  <2>3. QED
    BY <1>9, <2>1, <2>2, <1>6, <1>7 DEF SaleNext
<1>10. ASSUME ReceiptNext
       PROVE  UnitInv'
  BY <1>10, <1>1, <1>2 DEF ReceiptNext, ReceiveGoods, saleVars
<1>11. ASSUME UNCHANGED vars
       PROVE  UnitInv'
  BY <1>11, <1>1 DEF vars, inventoryVars, saleVars
<1> HIDE DEF UnitInv
<1>12. QED
  BY <1>8, <1>9, <1>10, <1>11 DEF Next

\* A sold unit is not back on the shelf while requests are orderly.
THEOREM SoldUnitsStaySold == Spec => []SoldStaysSold
<1> DEFINE I == TillInv /\ (Orderly => UnitInv)
<1>1. Init => I
  <2> SUFFICES ASSUME Init PROVE I
    OBVIOUS
  <2>1. TillInv
    BY DEF Init, IdleTill, TillInv
  <2>2. OutgoingInv
    BY DEF Init, InventoryInit, OutgoingInv
  <2>3. OffTheShelf
    <3>1. SoldUnits = {}
      BY DEF Init, SoldUnits
    <3>2. QED
      BY <3>1 DEF OffTheShelf
  <2>4. QED
    BY <2>1, <2>2, <2>3 DEF UnitInv
<1>2. TransferInv /\ I /\ [Next]_vars => I'
  BY TillStep, UnitStep, HistoryStep DEF TransferInv
<1>3. I => SoldStaysSold
  BY DEF UnitInv, OffTheShelf, SoldStaysSold
<1> HIDE DEF I
<1>4. QED
  BY <1>1, <1>2, <1>3, TransferInvariant, PTL DEF Spec

\* Every unit that is sold is sold once and for good.
THEOREM UnitsSoldForGood == Spec => []SoldForGood
BY UnitSoldOnce, SoldUnitsStaySold, PTL DEF SoldForGood

-----------------------------------------------------------------------------
(* The levels of serialized products.  They count the units that can be    *)
(* picked because every handler writes as many units as it books pieces:   *)
(* a dispatch and a sale take one unit for each item (`OneUnitEach`), and  *)
(* a transfer that travels brings back those it took.                      *)

OnShelf(b, p) == {u \in UnitsOf(Units, p) : InStockAt({u}, b)}

ShelvesCounted ==
    \A b \in Branches, p \in Serialized : level[b][p] = Cardinality(OnShelf(b, p))

TravellingCounted ==
    \A t \in Transfers : status[t] = "IN_TRANSIT" => OneUnitEach(outgoing[t], Lines[t])

\* A sale in progress has found one unit for each item.
FoundInv ==
    \A c \in Tills : till[c].op = "sale" => OneUnitEach(till[c].units, SaleLines[till[c].sale])

LEMMA FoundStep ==
    ASSUME TypeOK, FoundInv, [Next]_vars
    PROVE  FoundInv'
<1>t. till \in [Tills -> TillRequests]
  BY DEF TypeOK
<1>1. ASSUME NEW c \in Tills, NEW r, till' = [till EXCEPT ![c] = r],
             r.op = "sale" => OneUnitEach(r.units, SaleLines[r.sale])
      PROVE  FoundInv'
  BY <1>1, <1>t DEF FoundInv, OneUnitEach, UnitsOf
<1>2. CASE till' = till
  BY <1>2 DEF FoundInv, OneUnitEach, UnitsOf
<1>3. ASSUME NEW c \in Tills, NEW s \in Sales, NEW S \in SUBSET Units, FindUnits(c, s, S)
      PROVE  FoundInv'
  <2> DEFINE r == [op |-> "sale", sale |-> s, units |-> S]
  <2>1. till' = [till EXCEPT ![c] = r] /\ OneUnitEach(S, SaleLines[s])
    BY <1>3 DEF FindUnits
  <2>2. r.units = S /\ r.sale = s
    OBVIOUS
  <2> HIDE DEF r
  <2> QED  BY <1>1, <2>1, <2>2
<1>4. ASSUME NEW c \in Tills, NEW s \in Sales, NEW p \in Products, NEW q \in 1..MaxDelta,
             NEW back \in BOOLEAN, BeginReturn(c, s, p, q, back)
      PROVE  FoundInv'
  <2> DEFINE r == [op |-> "return", sale |-> s, product |-> p, quantity |-> q, restock |-> back]
  <2>1. till' = [till EXCEPT ![c] = r] /\ r.op = "return"
    BY <1>4 DEF BeginReturn
  <2> HIDE DEF r
  <2> QED  BY <1>1, <2>1
<1>5. ASSUME NEW c \in Tills, NEW s \in Sales, NEW u \in Units, BeginUnitReturn(c, s, u)
      PROVE  FoundInv'
  <2> DEFINE r == [op |-> "returnUnit", sale |-> s, unit |-> u]
  <2>1. till' = [till EXCEPT ![c] = r] /\ r.op = "returnUnit"
    BY <1>5 DEF BeginUnitReturn
  <2> HIDE DEF r
  <2> QED  BY <1>1, <2>1
<1>6. ASSUME NEW c \in Tills,
             CommitSale(c) \/ CommitReturn(c) \/ CommitUnitReturn(c) \/ AbandonTill(c)
      PROVE  FoundInv'
  <2>1. till' = [till EXCEPT ![c] = IdleTill] /\ IdleTill.op = "idle"
    BY <1>6 DEF CommitSale, CommitReturn, CommitUnitReturn, AbandonTill, IdleTill
  <2> QED  BY <1>1, <2>1
<1>7. CASE InventoryNext /\ UNCHANGED saleVars
  BY <1>2, <1>7 DEF saleVars
<1>8. CASE ReceiptNext
  BY <1>2, <1>8 DEF ReceiptNext, ReceiveGoods, ReceiveUnit, saleVars
<1>9. CASE UNCHANGED vars
  BY <1>2, <1>9 DEF vars, saleVars
<1> QED
  BY <1>3, <1>4, <1>5, <1>6, <1>7, <1>8, <1>9 DEF Next, SaleNext

\* Which units are on a shelf.
LEMMA ShelfUnits ==
    ASSUME NEW b, NEW p
    PROVE  /\ OnShelf(b, p) \in SUBSET Units
           /\ IsFiniteSet(OnShelf(b, p)) /\ Cardinality(OnShelf(b, p)) \in Nat
           /\ \A u \in Units : u \in OnShelf(b, p) <=>
                 ProductOf[u] = p /\ unit[u].status = "IN_STOCK" /\ unit[u].branch = b
<1>1. OnShelf(b, p) \in SUBSET Units
  BY DEF OnShelf, UnitsOf
<1>2. \A u \in Units : u \in OnShelf(b, p) <=>
         ProductOf[u] = p /\ unit[u].status = "IN_STOCK" /\ unit[u].branch = b
  BY DEF OnShelf, UnitsOf, InStockAt
<1> HIDE DEF OnShelf
<1>3. IsFiniteSet(OnShelf(b, p))
  BY <1>1, StockAssumption, FS_Subset
<1> QED  BY <1>1, <1>2, <1>3, FS_CardinalityType

\* The same of the shelf after a step.
LEMMA ShelfUnitsNext ==
    ASSUME NEW b, NEW p
    PROVE  /\ OnShelf(b, p)' \in SUBSET Units
           /\ IsFiniteSet(OnShelf(b, p)')
           /\ \A u \in Units : u \in OnShelf(b, p)' <=>
                 ProductOf[u] = p /\ unit'[u].status = "IN_STOCK" /\ unit'[u].branch = b
<1>1. OnShelf(b, p)' \in SUBSET Units
  BY DEF OnShelf, UnitsOf
<1>2. \A u \in Units : u \in OnShelf(b, p)' <=>
         ProductOf[u] = p /\ unit'[u].status = "IN_STOCK" /\ unit'[u].branch = b
  BY DEF OnShelf, UnitsOf, InStockAt
<1>3. IsFiniteSet(OnShelf(b, p)')
  <2> HIDE DEF OnShelf
  <2> QED  BY <1>1, StockAssumption, FS_Subset
<1> QED  BY <1>1, <1>2, <1>3

\* The units of a product among a set of units.
LEMMA SomeUnits ==
    ASSUME NEW S \in SUBSET Units, NEW p
    PROVE  /\ UnitsOf(S, p) \in SUBSET Units /\ IsFiniteSet(UnitsOf(S, p))
           /\ \A u : u \in UnitsOf(S, p) <=> u \in S /\ ProductOf[u] = p
<1>1. UnitsOf(S, p) \in SUBSET Units
  BY DEF UnitsOf
<1>2. IsFiniteSet(UnitsOf(S, p))
  BY <1>1, StockAssumption, FS_Subset
<1> QED  BY <1>1, <1>2 DEF UnitsOf

\* Units leave one branch, as many of each product as the goods say.
LEMMA UnitsLeave ==
    ASSUME ShelvesCounted, NEW S \in SUBSET Units, NEW b \in Branches, NEW goods \in Goods,
           level \in Sums, unit \in UnitRows, OneUnitEach(S, goods), InStockAt(S, b),
           NEW s \in UnitStatus \ {"IN_STOCK"},
           unit' = Marked(S, s), level' = TakeOut(level, b, goods)
    PROVE  ShelvesCounted'
<1> SUFFICES ASSUME NEW c \in Branches, NEW p \in Serialized
             PROVE  level'[c][p] = Cardinality(OnShelf(c, p)')
  BY DEF ShelvesCounted
<1>1. p \in Products /\ Cardinality(UnitsOf(S, p)) = goods[p]
  BY StockAssumption DEF OneUnitEach
<1>2. level'[c][p] = IF c = b THEN level[c][p] - goods[p] ELSE level[c][p]
  BY <1>1, TakeOutLemma
<1>3. level[c][p] = Cardinality(OnShelf(c, p))
  BY DEF ShelvesCounted
<1>4. \A u \in Units : /\ unit'[u].status = IF u \in S THEN s ELSE unit[u].status
                       /\ unit'[u].branch = unit[u].branch
  BY DEF Marked, UnitRows
<1>5. \A u \in S : unit[u].status = "IN_STOCK" /\ unit[u].branch = b
  BY DEF InStockAt
<1>6. UnitsOf(S, p) \in SUBSET Units /\ \A u : u \in UnitsOf(S, p) <=> u \in S /\ ProductOf[u] = p
  BY SomeUnits
<1>7. CASE c = b
  <2>1. \A u \in Units : u \in OnShelf(c, p)' <=> u \in OnShelf(c, p) /\ u \notin UnitsOf(S, p)
    BY <1>4, <1>6, ShelfUnits, ShelfUnitsNext
  <2>2. OnShelf(c, p)' = OnShelf(c, p) \ UnitsOf(S, p)
    BY <2>1, ShelfUnits, ShelfUnitsNext
  <2>3. \A u \in UnitsOf(S, p) : u \in OnShelf(c, p)
    BY <1>5, <1>6, <1>7, ShelfUnits
  <2>4. OnShelf(c, p) \cap UnitsOf(S, p) = UnitsOf(S, p)
    BY <2>3
  <2>5. Cardinality(OnShelf(c, p) \ UnitsOf(S, p))
            = Cardinality(OnShelf(c, p)) - Cardinality(UnitsOf(S, p))
    <3>1. IsFiniteSet(OnShelf(c, p))
      BY ShelfUnits
    <3>2. Cardinality(OnShelf(c, p) \ UnitsOf(S, p))
              = Cardinality(OnShelf(c, p)) - Cardinality(OnShelf(c, p) \cap UnitsOf(S, p))
      BY <3>1, FS_Difference
    <3> QED  BY <2>4, <3>2
  <2> QED  BY <1>1, <1>2, <1>3, <1>7, <2>2, <2>5
<1>8. CASE c # b
  <2>1. \A u \in Units : u \in OnShelf(c, p)' <=> u \in OnShelf(c, p)
    BY <1>4, <1>5, <1>8, ShelfUnits, ShelfUnitsNext
  <2>2. OnShelf(c, p)' = OnShelf(c, p)
    BY <2>1, ShelfUnits, ShelfUnitsNext
  <2> QED  BY <1>2, <1>3, <1>8, <2>2
<1> QED  BY <1>7, <1>8

\* Units arrive at one branch, as many of each product as the goods say.
LEMMA UnitsArrive ==
    ASSUME ShelvesCounted, NEW S \in SUBSET Units, NEW b \in Branches, NEW goods \in Goods,
           level \in Sums, unit \in UnitRows, OneUnitEach(S, goods),
           \A u \in S : unit[u].status # "IN_STOCK",
           unit' = PlacedAt(S, b), level' = BringIn(level, b, goods)
    PROVE  ShelvesCounted'
<1> SUFFICES ASSUME NEW c \in Branches, NEW p \in Serialized
             PROVE  level'[c][p] = Cardinality(OnShelf(c, p)')
  BY DEF ShelvesCounted
<1>1. p \in Products /\ Cardinality(UnitsOf(S, p)) = goods[p]
  BY StockAssumption DEF OneUnitEach
<1>2. level'[c][p] = IF c = b THEN level[c][p] + goods[p] ELSE level[c][p]
  BY <1>1, BringInLemma
<1>3. level[c][p] = Cardinality(OnShelf(c, p))
  BY DEF ShelvesCounted
<1>4. \A u \in Units :
         IF u \in S THEN unit'[u].status = "IN_STOCK" /\ unit'[u].branch = b
                    ELSE unit'[u] = unit[u]
  BY DEF PlacedAt, UnitRows
<1>5. /\ UnitsOf(S, p) \in SUBSET Units /\ IsFiniteSet(UnitsOf(S, p))
      /\ \A u : u \in UnitsOf(S, p) <=> u \in S /\ ProductOf[u] = p
  BY SomeUnits
<1>6. CASE c = b
  <2>1. \A u \in Units : u \in OnShelf(c, p)' <=> u \in OnShelf(c, p) \/ u \in UnitsOf(S, p)
    BY <1>4, <1>5, <1>6, ShelfUnits, ShelfUnitsNext
  <2>2. OnShelf(c, p)' = OnShelf(c, p) \cup UnitsOf(S, p)
    BY <1>5, <2>1, ShelfUnits, ShelfUnitsNext
  <2>3. OnShelf(c, p) \cap UnitsOf(S, p) = {}
    BY <1>5, ShelfUnits
  <2>4. Cardinality(OnShelf(c, p) \cup UnitsOf(S, p))
            = Cardinality(OnShelf(c, p)) + Cardinality(UnitsOf(S, p)) - Cardinality({})
    BY <1>5, <2>3, ShelfUnits, FS_Union
  <2>5. Cardinality({}) = 0 /\ goods[p] \in Nat /\ Cardinality(OnShelf(c, p)) \in Nat
    BY <1>1, FS_EmptySet, ShelfUnits DEF Goods
  <2> QED  BY <1>1, <1>2, <1>3, <1>6, <2>2, <2>4, <2>5
<1>7. CASE c # b
  <2>1. \A u \in Units : u \in OnShelf(c, p)' <=> u \in OnShelf(c, p)
    BY <1>4, <1>7, ShelfUnits, ShelfUnitsNext
  <2>2. OnShelf(c, p)' = OnShelf(c, p)
    BY <2>1, ShelfUnits, ShelfUnitsNext
  <2> QED  BY <1>2, <1>3, <1>7, <2>2
<1> QED  BY <1>6, <1>7

\* A step that leaves the units and the levels of serialized products alone.
LEMMA ShelvesStay ==
    ASSUME ShelvesCounted, unit' = unit,
           \A b \in Branches, p \in Serialized : level'[b][p] = level[b][p]
    PROVE  ShelvesCounted'
<1>1. \A b, p : OnShelf(b, p)' = OnShelf(b, p)
  BY DEF OnShelf, InStockAt, UnitsOf
<1> QED  BY <1>1 DEF ShelvesCounted

\* A unit that is not on a shelf gets another status, and the level stays.
LEMMA UnitMarked ==
    ASSUME ShelvesCounted, unit \in UnitRows, NEW u \in Units, NEW s \in UnitStatus \ {"IN_STOCK"},
           unit[u].status # "IN_STOCK", unit' = Marked({u}, s),
           \A b \in Branches, p \in Serialized : level'[b][p] = level[b][p]
    PROVE  ShelvesCounted'
<1>1. \A v \in Units : /\ unit'[v].status = IF v = u THEN s ELSE unit[v].status
                       /\ unit'[v].branch = unit[v].branch
  BY DEF Marked, UnitRows
<1>2. ASSUME NEW b, NEW p
      PROVE  OnShelf(b, p)' = OnShelf(b, p)
  <2>1. \A v \in Units :
           v \in OnShelf(b, p) <=>
             ProductOf[v] = p /\ unit[v].status = "IN_STOCK" /\ unit[v].branch = b
    BY ShelfUnits
  <2>2. \A v \in Units :
           v \in OnShelf(b, p)' <=>
             ProductOf[v] = p /\ unit'[v].status = "IN_STOCK" /\ unit'[v].branch = b
    BY ShelfUnitsNext
  <2>3. \A v \in Units : unit'[v].status = "IN_STOCK" <=> unit[v].status = "IN_STOCK"
    BY <1>1
  <2>4. OnShelf(b, p)' \in SUBSET Units /\ OnShelf(b, p) \in SUBSET Units
    BY ShelfUnits, ShelfUnitsNext
  <2> HIDE DEF OnShelf
  <2>5. \A v \in Units : v \in OnShelf(b, p)' <=> v \in OnShelf(b, p)
    BY <1>1, <2>1, <2>2, <2>3
  <2> QED  BY <2>4, <2>5
<1> QED  BY <1>2 DEF ShelvesCounted

\* Goods of a product counted by quantity change no level of a serialized one.
LEMMA QuantityOnly ==
    ASSUME NEW f \in Sums, NEW b \in Branches, NEW p \in Products \ Serialized, NEW q \in Nat
    PROVE  /\ \A c \in Branches, r \in Serialized : BringIn(f, b, Just(p, q))[c][r] = f[c][r]
           /\ \A c \in Branches, r \in Serialized : TakeOut(f, b, Just(p, q))[c][r] = f[c][r]
           /\ \A c \in Branches, r \in Serialized : BringIn(f, b, NoGoods)[c][r] = f[c][r]
<1>1. Just(p, q) \in Goods /\ NoGoods \in Goods
  BY JustLemma
<1>2. \A r \in Serialized : Just(p, q)[r] = 0 /\ NoGoods[r] = 0 /\ r \in Products
  BY StockAssumption DEF Just, NoGoods
<1>3. \A c \in Branches, r \in Products : f[c][r] \in Int
  BY DEF Sums
<1>4. \A c \in Branches, r \in Serialized : BringIn(f, b, Just(p, q))[c][r] = f[c][r]
  BY <1>1, <1>2, <1>3, BringInLemma
<1>5. \A c \in Branches, r \in Serialized : TakeOut(f, b, Just(p, q))[c][r] = f[c][r]
  BY <1>1, <1>2, <1>3, TakeOutLemma
<1>6. \A c \in Branches, r \in Serialized : BringIn(f, b, NoGoods)[c][r] = f[c][r]
  BY <1>1, <1>2, <1>3, BringInLemma
<1> QED  BY <1>4, <1>5, <1>6

\* Every handler writes as many units as it books pieces.
LEMMA ShelvesStep ==
    ASSUME TransferInv, TillInv, UnitInv, FoundInv, ShelvesCounted, TravellingCounted,
           Orderly', [Next]_vars
    PROVE  ShelvesCounted'
<1>t. /\ TypeOK /\ unit \in UnitRows /\ level \in Sums
      /\ outgoing \in [Transfers -> SUBSET Units]
      /\ saleUnits \in [Sales -> SUBSET Units]
      /\ RequestInv /\ AloneInv /\ OutgoingInv /\ OffTheShelf
  BY DEF TransferInv, TypeOK, InventoryTypeOK, UnitRows, Sums, UnitInv
<1>o. contended = {} /\ raced' = {}
  BY HistoryStep DEF Orderly
<1>1. ASSUME UNCHANGED <<unit, level>>
      PROVE  ShelvesCounted'
  BY <1>1, ShelvesStay
<1>2. ASSUME NEW b \in Branches, NEW p \in Products, NEW q \in 1..MaxDelta,
             AdjustUp(b, p, q) \/ AdjustDown(b, p, q) \/ ReceiveGoods(b, p, q)
      PROVE  ShelvesCounted'
  <2>1. /\ unit' = unit /\ p \in Products \ Serialized /\ q \in Nat
        /\ level' = BringIn(level, b, Just(p, q)) \/ level' = TakeOut(level, b, Just(p, q))
    BY <1>2, StockAssumption DEF AdjustUp, AdjustDown, ReceiveGoods
  <2>2. \A c \in Branches, r \in Serialized : level'[c][r] = level[c][r]
    BY <1>t, <2>1, QuantityOnly
  <2> QED  BY <2>1, <2>2, ShelvesStay
<1>3. ASSUME NEW d \in Desks, NEW S \in SUBSET Units, CommitDispatch(d, S)
      PROVE  ShelvesCounted'
  <2>1. PICK t \in Transfers : t = desk[d].transfer
    BY <1>3, <1>t, DeskTyped DEF CommitDispatch
  <2>2. /\ InStockAt(S, Source[t]) /\ OneUnitEach(S, Lines[t])
        /\ level' = TakeOut(level, Source[t], Lines[t]) /\ unit' = Marked(S, "RESERVED")
    BY <1>3, <2>1 DEF CommitDispatch
  <2>3. Lines[t] \in Goods /\ Source[t] \in Branches /\ "RESERVED" \in UnitStatus \ {"IN_STOCK"}
    BY <1>t, GoodsTyped DEF UnitStatus
  <2> QED  BY <1>t, <2>2, <2>3, UnitsLeave
<1>4. ASSUME NEW d \in Desks, CommitReceive(d)
      PROVE  ShelvesCounted'
  <2>1. PICK t \in Transfers : t = desk[d].transfer
    BY <1>4, <1>t, DeskTyped DEF CommitReceive
  <2>2. status[t] = "IN_TRANSIT"
    BY <1>4, <1>t, <1>o, <2>1 DEF CommitReceive, AloneInv, Serves
  <2>3. /\ level' = BringIn(level, Destination[t], Lines[t])
        /\ unit' = PlacedAt(outgoing[t], Destination[t])
    BY <1>4, <2>1 DEF CommitReceive
  <2>4. OneUnitEach(outgoing[t], Lines[t])
    BY <2>2 DEF TravellingCounted
  <2>5. outgoing[t] \in SUBSET Units /\ \A u \in outgoing[t] : unit[u].status # "IN_STOCK"
    BY <1>t, <2>2 DEF OutgoingInv
  <2>6. Lines[t] \in Goods /\ Destination[t] \in Branches
    BY <1>t, GoodsTyped
  <2> QED  BY <1>t, <2>3, <2>4, <2>5, <2>6, UnitsArrive
<1>5. ASSUME NEW c \in Tills, CommitSale(c)
      PROVE  ShelvesCounted'
  <2> PICK S, s : S = till[c].units /\ s = till[c].sale
    OBVIOUS
  <2>1. s \in Sales /\ S \in SUBSET Units
    BY <1>5, <1>t, TillTyped DEF CommitSale
  <2>2. /\ level' = TakeOut(level, SaleBranch[s], SaleLines[s])
        /\ unit' = Marked(S, "SOLD")
        /\ raced' = raced \cup {u \in S : ~InStockAt({u}, SaleBranch[s])}
    BY <1>5 DEF CommitSale
  <2>3. InStockAt(S, SaleBranch[s])
    <3>1. \A u \in S : InStockAt({u}, SaleBranch[s])
      BY <1>o, <2>2
    <3> QED  BY <3>1 DEF InStockAt
  <2>4. OneUnitEach(S, SaleLines[s])
    BY <1>5 DEF CommitSale, FoundInv
  <2>5. /\ SaleLines[s] \in Goods /\ SaleBranch[s] \in Branches
        /\ "SOLD" \in UnitStatus \ {"IN_STOCK"}
    BY <1>t, <2>1, GoodsTyped DEF UnitStatus
  <2> QED  BY <1>t, <2>1, <2>2, <2>3, <2>4, <2>5, UnitsLeave
<1>6. ASSUME NEW c \in Tills, CommitReturn(c)
      PROVE  ShelvesCounted'
  <2> PICK s, p, q : s = till[c].sale /\ p = till[c].product /\ q = till[c].quantity
    OBVIOUS
  <2>1. s \in Sales /\ p \in Products \ Serialized /\ q \in Nat
    BY <1>6, <1>t, TillTyped DEF CommitReturn
  <2>2. /\ unit' = unit
        /\ \/ level' = BringIn(level, SaleBranch[s], Just(p, q))
           \/ level' = BringIn(level, SaleBranch[s], NoGoods)
    BY <1>6 DEF CommitReturn
  <2>3. SaleBranch[s] \in Branches
    BY <2>1, SaleAssumption
  <2>4. \A b \in Branches, r \in Serialized : level'[b][r] = level[b][r]
    BY <1>t, <2>1, <2>2, <2>3, QuantityOnly
  <2> QED  BY <2>2, <2>4, ShelvesStay
<1>7. ASSUME NEW c \in Tills, CommitUnitReturn(c)
      PROVE  ShelvesCounted'
  <2> PICK s, u : s = till[c].sale /\ u = till[c].unit
    OBVIOUS
  <2>1. s \in Sales /\ u \in Units /\ SaleBranch[s] \in Branches
    BY <1>7, <1>t, TillTyped, SaleAssumption DEF CommitUnitReturn
  <2>2. u \in saleUnits[s]
    BY <1>7 DEF CommitUnitReturn, TillInv
  <2>3. unit[u].status # "IN_STOCK"
    BY <1>t, <2>1, <2>2 DEF OffTheShelf, SoldUnits
  <2>4. unit' = Marked({u}, "RETURNED") /\ level' = BringIn(level, SaleBranch[s], NoGoods)
    BY <1>7 DEF CommitUnitReturn, RestockOf
  <2>5. \A b \in Branches, r \in Serialized : level'[b][r] = level[b][r]
    <3>1. NoGoods \in Goods /\ \A r \in Serialized : NoGoods[r] = 0 /\ r \in Products
      BY NoGoodsLemma, StockAssumption DEF NoGoods
    <3>2. \A b \in Branches, r \in Products : level[b][r] \in Int
      BY <1>t DEF Sums
    <3> QED  BY <1>t, <2>1, <2>4, <3>1, <3>2, BringInLemma
  <2>6. "RETURNED" \in UnitStatus \ {"IN_STOCK"}
    BY DEF UnitStatus
  <2> QED  BY <1>t, <2>1, <2>3, <2>4, <2>5, <2>6, UnitMarked
<1>8. ASSUME NEW u \in Units, ReceiveUnit(u)
      PROVE  ShelvesCounted'
  <2>1. /\ unit[u].status = "ABSENT" /\ unit' = PlacedAt({u}, Home[u])
        /\ level' = BringIn(level, Home[u], Just(ProductOf[u], 1))
    BY <1>8 DEF ReceiveUnit
  <2>2. Just(ProductOf[u], 1) \in Goods /\ Home[u] \in Branches /\ ProductOf[u] \in Serialized
    BY <1>t, GoodsTyped, StockAssumption
  <2>3. OneUnitEach({u}, Just(ProductOf[u], 1))
    <3> SUFFICES ASSUME NEW p \in Serialized
                 PROVE  Cardinality(UnitsOf({u}, p)) = Just(ProductOf[u], 1)[p]
      BY DEF OneUnitEach
    <3>1. p \in Products
      BY StockAssumption
    <3>2. CASE p = ProductOf[u]
      <4>1. UnitsOf({u}, p) = {u} /\ Just(ProductOf[u], 1)[p] = 1
        BY <3>1, <3>2 DEF UnitsOf, Just, NoGoods
      <4>2. Cardinality({u}) = 1
        BY FS_Singleton
      <4> QED  BY <4>1, <4>2
    <3>3. CASE p # ProductOf[u]
      <4>1. UnitsOf({u}, p) = {} /\ Just(ProductOf[u], 1)[p] = 0
        BY <3>1, <3>3 DEF UnitsOf, Just, NoGoods
      <4> QED  BY <4>1, FS_EmptySet
    <3> QED  BY <3>2, <3>3
  <2>4. {u} \in SUBSET Units /\ \A v \in {u} : unit[v].status # "IN_STOCK"
    BY <2>1
  <2> QED  BY <1>t, <2>1, <2>2, <2>3, <2>4, UnitsArrive
<1>9. CASE InventoryNext /\ UNCHANGED saleVars
  <2>1. ASSUME NEW d \in Desks, NEW t \in Transfers,
               BeginCreate(d, t) \/ BeginDispatch(d, t) \/ BeginReceive(d, t)
        PROVE  ShelvesCounted'
    BY <2>1, <1>1 DEF BeginCreate, BeginDispatch, BeginReceive
  <2>2. ASSUME NEW d \in Desks, CommitCreate(d) \/ Abandon(d)
        PROVE  ShelvesCounted'
    BY <2>2, <1>1 DEF CommitCreate, Abandon
  <2> QED  BY <1>9, <1>2, <1>3, <1>4, <2>1, <2>2 DEF InventoryNext
<1>10. CASE SaleNext
  <2>1. ASSUME NEW c \in Tills, NEW s \in Sales,
               \/ \E S \in SUBSET Units : FindUnits(c, s, S)
               \/ \E p \in Products, q \in 1..MaxDelta, r \in BOOLEAN :
                     BeginReturn(c, s, p, q, r)
               \/ \E u \in Units : BeginUnitReturn(c, s, u)
        PROVE  ShelvesCounted'
    BY <2>1, <1>1 DEF FindUnits, BeginReturn, BeginUnitReturn, inventoryVars
  <2>2. ASSUME NEW c \in Tills, AbandonTill(c)
        PROVE  ShelvesCounted'
    BY <2>2, <1>1 DEF AbandonTill, inventoryVars
  <2> QED  BY <1>10, <2>1, <2>2, <1>5, <1>6, <1>7 DEF SaleNext
<1>11. CASE ReceiptNext
  BY <1>2, <1>8, <1>11 DEF ReceiptNext
<1>12. CASE UNCHANGED vars
  BY <1>1, <1>12 DEF vars, inventoryVars
<1> QED  BY <1>9, <1>10, <1>11, <1>12 DEF Next

\* A transfer in transit carries one unit for each serialized item of its lines.
LEMMA TravellingStep ==
    ASSUME TransferInv, UnitInv, TravellingCounted, Orderly', [Next]_vars
    PROVE  TravellingCounted'
<1>t. /\ status \in [Transfers -> TransferStatus]
      /\ outgoing \in [Transfers -> SUBSET Units]
      /\ TypeOK /\ AloneInv /\ OutgoingInv
  BY DEF TransferInv, TypeOK, InventoryTypeOK, UnitInv
<1>o. contended = {}
  BY HistoryStep DEF Orderly
<1>1. ASSUME outgoing' = outgoing,
             \A t \in Transfers : status'[t] = "IN_TRANSIT" => status[t] = "IN_TRANSIT"
      PROVE  TravellingCounted'
  BY <1>1 DEF TravellingCounted, OneUnitEach, UnitsOf
<1>2. ASSUME UNCHANGED <<outgoing, status>>
      PROVE  TravellingCounted'
  BY <1>1, <1>2
<1>3. ASSUME NEW d \in Desks, NEW S \in SUBSET Units, CommitDispatch(d, S)
      PROVE  TravellingCounted'
  <2>1. PICK t \in Transfers : t = desk[d].transfer
    BY <1>3, <1>t, DeskTyped DEF CommitDispatch
  <2>2. status[t] = "SUBMITTED"
    BY <1>3, <1>t, <1>o, <2>1 DEF CommitDispatch, AloneInv, Serves
  <2>3. outgoing[t] = {}
    BY <1>t, <2>2 DEF OutgoingInv
  <2>4. /\ outgoing' = [outgoing EXCEPT ![t] = S]
        /\ status' = [status EXCEPT ![t] = "IN_TRANSIT"]
        /\ OneUnitEach(S, Lines[t])
    BY <1>3, <2>1, <2>3 DEF CommitDispatch
  <2>5. ASSUME NEW r \in Transfers, status'[r] = "IN_TRANSIT"
        PROVE  OneUnitEach(outgoing'[r], Lines[r])
    BY <1>t, <2>4, <2>5 DEF TravellingCounted
  <2> QED  BY <2>5 DEF TravellingCounted, OneUnitEach, UnitsOf
<1>4. ASSUME NEW d \in Desks, CommitReceive(d)
      PROVE  TravellingCounted'
  BY <1>1, <1>4, <1>t DEF CommitReceive
<1>5. ASSUME NEW d \in Desks, CommitCreate(d)
      PROVE  TravellingCounted'
  BY <1>1, <1>5, <1>t DEF CommitCreate
<1>6. CASE InventoryNext /\ UNCHANGED saleVars
  <2>1. ASSUME NEW d \in Desks, NEW t \in Transfers,
               BeginCreate(d, t) \/ BeginDispatch(d, t) \/ BeginReceive(d, t)
        PROVE  TravellingCounted'
    BY <2>1, <1>2 DEF BeginCreate, BeginDispatch, BeginReceive
  <2>2. ASSUME NEW b \in Branches, NEW p \in Products, NEW q \in 1..MaxDelta,
               AdjustUp(b, p, q) \/ AdjustDown(b, p, q)
        PROVE  TravellingCounted'
    BY <2>2, <1>2 DEF AdjustUp, AdjustDown
  <2>3. ASSUME NEW d \in Desks, Abandon(d)
        PROVE  TravellingCounted'
    BY <2>3, <1>2 DEF Abandon
  <2> QED  BY <1>6, <1>3, <1>4, <1>5, <2>1, <2>2, <2>3 DEF InventoryNext
<1>7. CASE SaleNext
  <2>1. UNCHANGED <<outgoing, status>>
    BY <1>7 DEF SaleNext, FindUnits, BeginReturn, BeginUnitReturn, CommitSale, CommitReturn,
                CommitUnitReturn, AbandonTill, inventoryVars
  <2> QED  BY <1>2, <2>1
<1>8. CASE ReceiptNext
  BY <1>2, <1>8 DEF ReceiptNext, ReceiveGoods, ReceiveUnit
<1>9. CASE UNCHANGED vars
  BY <1>2, <1>9 DEF vars, inventoryVars
<1> QED  BY <1>6, <1>7, <1>8, <1>9 DEF Next

\* While requests are orderly the level of a serialized product is the number
\* of its units that can be picked at the branch: units on their way, sold or
\* returned are not counted.
THEOREM LevelsCountUnits == Spec => []LevelCountsUnits
<1> DEFINE I == TillInv /\ FoundInv
                /\ (Orderly => UnitInv /\ ShelvesCounted /\ TravellingCounted)
<1>1. Init => I
  <2> SUFFICES ASSUME Init PROVE I
    OBVIOUS
  <2>1. TillInv /\ FoundInv
    BY DEF Init, IdleTill, TillInv, FoundInv
  <2>2. OutgoingInv /\ TravellingCounted
    BY DEF Init, InventoryInit, OutgoingInv, TravellingCounted
  <2>3. OffTheShelf
    <3>1. SoldUnits = {}
      BY DEF Init, SoldUnits
    <3> QED  BY <3>1 DEF OffTheShelf
  <2>4. ShelvesCounted
    <3> SUFFICES ASSUME NEW b \in Branches, NEW p \in Serialized
                 PROVE  level[b][p] = Cardinality(OnShelf(b, p))
      BY DEF ShelvesCounted
    <3>1. \A u \in Units : unit[u].status = "IN_STOCK" <=> u \in Stocked
      BY DEF Init, InventoryInit
    <3>2. \A u \in Units : unit[u].branch = Home[u]
      BY DEF Init, InventoryInit
    <3>3. \A u \in Units : u \in OnShelf(b, p) <=>
             ProductOf[u] = p /\ unit[u].status = "IN_STOCK" /\ unit[u].branch = b
      BY ShelfUnits
    <3>4. OnShelf(b, p) \in SUBSET Units /\ Stocked \in SUBSET Units
      BY ShelfUnits, StockAssumption
    <3> HIDE DEF OnShelf
    <3>5. OnShelf(b, p) = {u \in Stocked : ProductOf[u] = p /\ Home[u] = b}
      BY <3>1, <3>2, <3>3, <3>4
    <3>6. level[b][p] = Opening[b][p]
      BY DEF Init, InventoryInit
    <3> QED  BY <3>5, <3>6, OpeningAssumption
  <2> QED  BY <2>1, <2>2, <2>3, <2>4 DEF UnitInv
<1>2. TransferInv /\ I /\ [Next]_vars => I'
  <2> SUFFICES ASSUME TransferInv, I, [Next]_vars PROVE I'
    OBVIOUS
  <2>1. TypeOK
    BY DEF TransferInv
  <2>2. TillInv' /\ FoundInv'
    BY <2>1, TillStep, FoundStep
  <2>3. ASSUME Orderly'
        PROVE  UnitInv' /\ ShelvesCounted' /\ TravellingCounted'
    <3>1. Orderly
      BY <2>1, <2>3, HistoryStep
    <3>2. UnitInv /\ ShelvesCounted /\ TravellingCounted
      BY <3>1
    <3> QED  BY <2>3, <3>2, UnitStep, ShelvesStep, TravellingStep
  <2> QED  BY <2>2, <2>3
<1>3. I => LevelCountsUnits
  BY DEF LevelCountsUnits, ShelvesCounted, OnShelf
<1> HIDE DEF I
<1>4. QED
  BY <1>1, <1>2, <1>3, TransferInvariant, PTL DEF Spec
=============================================================================
