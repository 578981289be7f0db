--------------------------- MODULE ServicesProofs ---------------------------
(***************************************************************************)
(* Proofs about the services that go on by themselves: the synchronization *)
(* of offline sales, for any batches and submissions, and the answers of   *)
(* the assistant, for any question and number of calls.  The launches of   *)
(* promotions are in BackOfficeProofs.                                     *)
(***************************************************************************)
EXTENDS Services, FiniteSetTheorems, SequenceTheorems, WellFoundedInduction, TLAPS

Active(p) == post[p].stage \in {"created", "running", "sold", "refused"}

PostRow == [
    stage : {"checked", "created", "running", "sold", "refused"},
    batch : Batches,
    todo : SUBSET Operations,
    doing : Operations \cup {None},
    applied : Nat,
    rejected : Nat]

RowsOK ==
    /\ batch \in [Batches -> BatchStatus]
    /\ operation \in [Operations -> OperationStatus]
    /\ sold \in [Operations -> Nat]
    /\ post \in [Posts -> {Idle} \cup PostRow]
    /\ \A p \in Posts : post[p] # Idle => post[p].todo \subseteq Contents[post[p].batch]

\* The rows of a submission that goes on exist, and are its own.
OwnRows ==
    \A p \in Posts : Active(p) =>
        /\ \A o \in Contents[post[p].batch] : operation[o] # "NONE"
        /\ \A q \in Posts : q # p /\ Active(q) =>
              Contents[post[p].batch] \cap Contents[post[q].batch] = {}

\* What is still to be sold has not been sold.
TodoUnsold ==
    /\ \A o \in Operations : operation[o] = "NONE" => sold[o] = 0
    /\ \A p \in Posts : Active(p) => \A o \in post[p].todo : sold[o] = 0

Inv == RowsOK /\ OwnRows /\ TodoUnsold /\ SoldAtMostOnce

-----------------------------------------------------------------------------

LEMMA InitInv == Init => Inv
BY SyncAssumption
DEF Init, Inv, RowsOK, OwnRows, TodoUnsold, SoldAtMostOnce, Active, Idle,
    BatchStatus, OperationStatus, PostRow

\* The rows keep their shape.
LEMMA RowsStep ==
    ASSUME RowsOK, [Next]_vars
    PROVE  RowsOK'
<1> USE SyncAssumption DEF RowsOK, Idle
<1>1. ASSUME NEW p \in Posts, NEW b \in Batches, Submit(p, b)
      PROVE  RowsOK'
  BY <1>1 DEF Submit, PostRow
<1>2. ASSUME NEW p \in Posts, CreateBatch(p)
      PROVE  RowsOK'
  <2>1. post[p] \in PostRow
    BY <1>2 DEF CreateBatch
  <2>2. batch' \in [Batches -> BatchStatus] /\ operation' \in [Operations -> OperationStatus]
    BY <1>2 DEF CreateBatch, BatchStatus, OperationStatus
  <2>3. post' \in [Posts -> {Idle} \cup PostRow]
    BY <1>2, <2>1 DEF CreateBatch, PostRow
  <2> QED BY <1>2, <2>2, <2>3 DEF CreateBatch
<1>3. ASSUME NEW p \in Posts, RefuseBatch(p)
      PROVE  RowsOK'
  BY <1>3 DEF RefuseBatch
<1>4. ASSUME NEW p \in Posts, StartBatch(p)
      PROVE  RowsOK'
  <2>1. post[p] \in PostRow
    BY <1>4 DEF StartBatch
  <2>2. batch' \in [Batches -> BatchStatus]
    BY <1>4 DEF StartBatch, BatchStatus
  <2>3. post' \in [Posts -> {Idle} \cup PostRow]
    BY <1>4, <2>1 DEF StartBatch, PostRow
  <2> QED BY <1>4, <2>2, <2>3 DEF StartBatch
<1>5. ASSUME NEW p \in Posts, NEW o \in Operations, NEW committed \in BOOLEAN,
             Execute(p, o, committed)
      PROVE  RowsOK'
  <2>1. post[p] \in PostRow
    BY <1>5 DEF Execute
  <2>2. sold' \in [Operations -> Nat]
    BY <1>5 DEF Execute
  <2>3. post' \in [Posts -> {Idle} \cup PostRow]
    BY <1>5, <2>1 DEF Execute, PostRow
  <2> QED BY <1>5, <2>2, <2>3 DEF Execute
<1>6. ASSUME NEW p \in Posts, FailAfterSale(p)
      PROVE  RowsOK'
  <2>1. post[p] \in PostRow
    BY <1>6 DEF FailAfterSale
  <2>2. post' \in [Posts -> {Idle} \cup PostRow]
    BY <1>6, <2>1 DEF FailAfterSale, PostRow
  <2> QED BY <1>6, <2>2 DEF FailAfterSale
<1>7. ASSUME NEW p \in Posts, RecordApplied(p)
      PROVE  RowsOK'
  <2>1. post[p] \in PostRow
    BY <1>7 DEF RecordApplied
  <2>2. operation' \in [Operations -> OperationStatus]
    BY <1>7 DEF RecordApplied, OperationStatus
  <2>3. post' \in [Posts -> {Idle} \cup PostRow]
    BY <1>7, <2>1 DEF RecordApplied, PostRow
  <2> QED BY <1>7, <2>2, <2>3 DEF RecordApplied
<1>8. ASSUME NEW p \in Posts, RecordRejected(p)
      PROVE  RowsOK'
  <2>1. post[p] \in PostRow
    BY <1>8 DEF RecordRejected
  <2>2. operation' \in [Operations -> OperationStatus]
    BY <1>8 DEF RecordRejected, OperationStatus
  <2>3. post' \in [Posts -> {Idle} \cup PostRow]
    BY <1>8, <2>1 DEF RecordRejected, CountRejected, PostRow
  <2> QED BY <1>8, <2>2, <2>3 DEF RecordRejected
<1>9. ASSUME NEW p \in Posts, FinishBatch(p)
      PROVE  RowsOK'
  <2>1. batch' \in [Batches -> BatchStatus]
    BY <1>9 DEF FinishBatch, Outcome, BatchStatus, Final
  <2> QED BY <1>9, <2>1 DEF FinishBatch
<1>10. ASSUME NEW p \in Posts, Stop(p)
       PROVE  RowsOK'
  BY <1>10 DEF Stop
<1>11. CASE UNCHANGED vars
  BY <1>11 DEF vars
<1> QED
  BY <1>1, <1>2, <1>3, <1>4, <1>5, <1>6, <1>7, <1>8, <1>9, <1>10, <1>11 DEF Next, Continue

-----------------------------------------------------------------------------

\* The steps that sell nothing and create no rows: a submission that goes on
\* after one went on before it, with the same batch and no more to do.
LEMMA CalmStep ==
    ASSUME Inv, RowsOK', sold' = sold,
           \A o \in Operations : operation'[o] = "NONE" => operation[o] = "NONE",
           \A p \in Posts : Active(p)' =>
               /\ Active(p)
               /\ post'[p].batch = post[p].batch
               /\ post'[p].todo \subseteq post[p].todo
    PROVE  Inv'
<1>1. \A p \in Posts : Active(p) => post[p].batch \in Batches
  BY DEF Inv, RowsOK, Active, Idle, PostRow
<1>2. OwnRows'
  BY <1>1, SyncAssumption DEF Inv, OwnRows
<1>3. TodoUnsold'
  BY <1>1, SyncAssumption DEF Inv, OwnRows, TodoUnsold
<1> QED BY <1>2, <1>3 DEF Inv, SoldAtMostOnce

\* The rows of a batch are created only when nobody else has one of them.
LEMMA CreateStep ==
    ASSUME Inv, RowsOK', NEW p \in Posts, CreateBatch(p)
    PROVE  Inv'
<1> DEFINE mine == Contents[post[p].batch]
<1>1. post[p] \in PostRow
  BY DEF Inv, RowsOK, CreateBatch, Idle
<1>2. /\ post[p].batch \in Batches /\ mine \subseteq Operations
      /\ \A o \in mine : operation[o] = "NONE"
  BY <1>1, SyncAssumption DEF CreateBatch, New, PostRow
<1>3. /\ post'[p].batch = post[p].batch /\ Active(p)'
      /\ post'[p].todo = post[p].todo
      /\ \A q \in Posts \ {p} : post'[q] = post[q]
  BY <1>1 DEF Inv, RowsOK, CreateBatch, PostRow, Active
<1>4. \A o \in Operations :
        operation'[o] = IF o \in mine THEN "PENDING" ELSE operation[o]
  BY <1>2 DEF CreateBatch
<1>5. \A q \in Posts : Active(q) =>
        post[q].batch \in Batches /\ Contents[post[q].batch] \cap mine = {}
  BY <1>2 DEF Inv, RowsOK, OwnRows, Active, Idle, PostRow
<1>6. OwnRows'
  BY <1>2, <1>3, <1>4, <1>5, SyncAssumption DEF Inv, OwnRows, Active
<1>7. TodoUnsold'
  <2>1. sold' = sold
    BY DEF CreateBatch
  <2>2. ASSUME NEW o \in Operations, operation'[o] = "NONE"
        PROVE  sold'[o] = 0
    BY <2>1, <2>2, <1>4 DEF Inv, TodoUnsold
  <2>3. ASSUME NEW q \in Posts, Active(q)', NEW o \in post'[q].todo
        PROVE  sold'[o] = 0
    <3>1. CASE q = p
      BY <3>1, <2>1, <2>3, <1>1, <1>2, <1>3 DEF Inv, RowsOK, Idle, PostRow, TodoUnsold
    <3>2. CASE q # p
      BY <3>2, <2>1, <2>3, <1>3 DEF Inv, TodoUnsold, Active
    <3> QED BY <3>1, <3>2
  <2> QED BY <2>2, <2>3 DEF TodoUnsold
<1> QED BY <1>6, <1>7 DEF Inv, SoldAtMostOnce, CreateBatch

\* A sale is made for an operation that has none and is not to be done again.
LEMMA ExecuteStep ==
    ASSUME Inv, RowsOK', NEW p \in Posts, NEW o \in Operations,
           NEW committed \in BOOLEAN, Execute(p, o, committed)
    PROVE  Inv'
<1>1. post[p] \in PostRow /\ Active(p)
  BY DEF Inv, RowsOK, Execute, Idle, Active
<1>2. /\ post'[p].batch = post[p].batch
      /\ post'[p].todo = post[p].todo \ {o}
      /\ \A q \in Posts \ {p} : post'[q] = post[q]
  BY <1>1 DEF Inv, RowsOK, Execute, PostRow
<1>3. operation' = operation /\ o \in post[p].todo
  BY DEF Execute
<1>4. o \in Contents[post[p].batch] /\ operation[o] # "NONE"
  BY <1>1, <1>3 DEF Inv, RowsOK, OwnRows, Idle, PostRow
<1>5. sold[o] = 0 /\ \A x \in Operations \ {o} : sold'[x] = sold[x]
  BY <1>1, <1>3 DEF Inv, RowsOK, TodoUnsold, Execute
<1>6. sold'[o] <= 1
  BY <1>5 DEF Inv, RowsOK, Execute
<1>7. ASSUME NEW q \in Posts \ {p}, Active(q)
      PROVE  o \notin post[q].todo
  <2>1. Contents[post[p].batch] \cap Contents[post[q].batch] = {}
    BY <1>1, <1>7 DEF Inv, OwnRows
  <2>2. post[q].todo \subseteq Contents[post[q].batch]
    BY <1>7 DEF Inv, RowsOK, Active, Idle
  <2> QED BY <2>1, <2>2, <1>4
<1>8. OwnRows'
  BY <1>1, <1>2, <1>3 DEF Inv, OwnRows, Active
<1>9. TodoUnsold'
  <2>1. ASSUME NEW x \in Operations, operation'[x] = "NONE"
        PROVE  sold'[x] = 0
    BY <2>1, <1>3, <1>4, <1>5 DEF Inv, TodoUnsold
  <2>2. ASSUME NEW q \in Posts, Active(q)', NEW x \in post'[q].todo
        PROVE  sold'[x] = 0
    <3>1. CASE q = p
      BY <3>1, <2>2, <1>1, <1>2, <1>5 DEF Inv, TodoUnsold, PostRow
    <3>2. CASE q # p
      <4>1. Active(q) /\ x \in post[q].todo /\ x # o
        BY <3>2, <2>2, <1>2, <1>7 DEF Active
      <4>2. x \in Operations
        BY <4>1 DEF Inv, RowsOK, Active, Idle, PostRow
      <4> QED BY <4>1, <4>2, <1>5 DEF Inv, TodoUnsold
    <3> QED BY <3>1, <3>2
  <2> QED BY <2>1, <2>2 DEF TodoUnsold
<1>10. SoldAtMostOnce'
  BY <1>5, <1>6 DEF Inv, SoldAtMostOnce
<1> QED BY <1>8, <1>9, <1>10 DEF Inv

LEMMA InvStep ==
    ASSUME Inv, [Next]_vars
    PROVE  Inv'
<1>1. RowsOK'
  BY RowsStep DEF Inv
<1>2. \A p \in Posts : post[p] # Idle => post[p] \in PostRow
  BY DEF Inv, RowsOK
<1> USE <1>1, <1>2, CalmStep
<1>3. ASSUME NEW p \in Posts, NEW b \in Batches, Submit(p, b)
      PROVE  Inv'
  BY <1>3 DEF Inv, RowsOK, Submit, Active
<1>4. ASSUME NEW p \in Posts, RefuseBatch(p)
      PROVE  Inv'
  BY <1>4 DEF Inv, RowsOK, RefuseBatch, Active, Idle
<1>5. ASSUME NEW p \in Posts, StartBatch(p)
      PROVE  Inv'
  BY <1>5 DEF Inv, RowsOK, StartBatch, Active, Idle, PostRow
<1>6. ASSUME NEW p \in Posts, FailAfterSale(p)
      PROVE  Inv'
  BY <1>6 DEF Inv, RowsOK, FailAfterSale, Active, Idle, PostRow
<1>7. ASSUME NEW p \in Posts, RecordApplied(p)
      PROVE  Inv'
  BY <1>7 DEF Inv, RowsOK, RecordApplied, Active, Idle, PostRow
<1>8. ASSUME NEW p \in Posts, RecordRejected(p)
      PROVE  Inv'
  BY <1>8 DEF Inv, RowsOK, RecordRejected, Active, Idle, PostRow
<1>9. ASSUME NEW p \in Posts, FinishBatch(p)
      PROVE  Inv'
  BY <1>9 DEF Inv, RowsOK, FinishBatch, Active, Idle
<1>10. ASSUME NEW p \in Posts, Stop(p)
       PROVE  Inv'
  BY <1>10 DEF Inv, RowsOK, Stop, Active, Idle
<1>11. CASE UNCHANGED vars
  BY <1>11 DEF Inv, RowsOK, Active, vars
<1> QED
  BY <1>3, <1>4, <1>5, <1>6, <1>7, <1>8, <1>9, <1>10, <1>11, CreateStep, ExecuteStep
  DEF Next, Continue

\* Whatever is submitted again, overlaps, fails or is cut short, an operation
\* of the device sells at most once (submit and execute of the sync service).
THEOREM OperationSoldOnce == Spec => []SoldAtMostOnce
<1>1. Inv /\ [Next]_vars => Inv'
  BY InvStep
<1>2. Inv => SoldAtMostOnce
  BY DEF Inv
<1> QED BY InitInv, <1>1, <1>2, PTL DEF Spec

-----------------------------------------------------------------------------
(* What the statuses say.                                                  *)

\* The batches that exist have their operations for themselves.
BatchRows ==
    \A b \in Batches : batch[b] # "NONE" =>
        /\ \A o \in Contents[b] : operation[o] # "NONE"
        /\ \A c \in Batches \ {b} : batch[c] # "NONE" => Contents[b] \cap Contents[c] = {}

\* What a submission that goes on has counted and recorded so far.
ProgressOf(p) ==
    LET r == post[p]
        mine == Contents[r.batch]
    IN
    /\ batch[r.batch] = IF r.stage = "created" THEN "RECEIVED" ELSE "PROCESSING"
    /\ IF r.stage \in {"created", "running"} THEN r.doing = None ELSE r.doing \in mine \ r.todo
    /\ \A o \in mine : operation[o] = "PENDING" <=> o \in r.todo \/ o = r.doing
    /\ r.applied = 0 <=> \A o \in mine : operation[o] # "APPLIED"
    /\ r.rejected = 0 <=> \A o \in mine : operation[o] # "REJECTED"
    /\ r.stage = "sold" => sold[r.doing] = 1
    /\ r.stage = "refused" /\ r.doing \notin disturbed => sold[r.doing] = 0

OutcomeTold(o) ==
    /\ operation[o] = "APPLIED" => sold[o] = 1
    /\ operation[o] = "REJECTED" /\ o \notin disturbed => sold[o] = 0

BatchTold(b) ==
    LET has(status) == \E o \in Contents[b] : operation[o] = status IN
    /\ batch[b] \in Final => \A o \in Contents[b] : operation[o] \in {"APPLIED", "REJECTED"}
    /\ batch[b] = "COMPLETED" => ~has("REJECTED")
    /\ batch[b] = "FAILED" => ~has("APPLIED")
    /\ batch[b] = "PARTIALLY_FAILED" => has("APPLIED") /\ has("REJECTED")
    /\ batch[b] \in {"RECEIVED", "PROCESSING"} =>
          b \in cut \/ \E p \in Posts : Active(p) /\ post[p].batch = b

\* A submission that has not created its rows.
Fresh(p) ==
    /\ post[p].todo = Contents[post[p].batch] /\ post[p].doing = None
    /\ post[p].applied = 0 /\ post[p].rejected = 0

TruthInv ==
    /\ BatchRows
    /\ \A p \in Posts : post[p].stage = "checked" => Fresh(p)
    /\ \A p \in Posts : Active(p) => ProgressOf(p)
    /\ \A o \in Operations : OutcomeTold(o)
    /\ \A b \in Batches : BatchTold(b)

LEMMA InitTruthInv == Init => TruthInv
BY SyncAssumption
DEF Init, TruthInv, BatchRows, Fresh, OutcomeTold, BatchTold, Active, Idle, Final

LEMMA TruthTold == TruthInv => StatusesTellTruth
<1> SUFFICES ASSUME TruthInv, NEW b \in Batches
             PROVE  LET statuses == {operation[o] : o \in Contents[b]} IN
                    /\ batch[b] = "COMPLETED" => statuses = {"APPLIED"}
                    /\ batch[b] = "FAILED" => statuses = {"REJECTED"}
                    /\ batch[b] = "PARTIALLY_FAILED" => statuses = {"APPLIED", "REJECTED"}
                    /\ batch[b] \in {"RECEIVED", "PROCESSING"} =>
                          b \in cut \/ \E p \in Posts : post[p] # Idle /\ post[p].batch = b
  BY DEF TruthInv, StatusesTellTruth, OutcomeTold
<1>1. BatchTold(b) /\ Contents[b] # {}
  BY SyncAssumption DEF TruthInv
<1>2. \A p \in Posts : Active(p) => post[p] # Idle
  BY DEF Active, Idle
<1>3. batch[b] = "COMPLETED" => {operation[o] : o \in Contents[b]} = {"APPLIED"}
  BY <1>1 DEF BatchTold, Final
<1>4. batch[b] = "FAILED" => {operation[o] : o \in Contents[b]} = {"REJECTED"}
  BY <1>1 DEF BatchTold, Final
<1>5. batch[b] = "PARTIALLY_FAILED" =>
        {operation[o] : o \in Contents[b]} = {"APPLIED", "REJECTED"}
  BY <1>1 DEF BatchTold, Final
<1>6. batch[b] \in {"RECEIVED", "PROCESSING"} =>
        b \in cut \/ \E p \in Posts : post[p] # Idle /\ post[p].batch = b
  BY <1>1, <1>2 DEF BatchTold
<1> QED BY <1>3, <1>4, <1>5, <1>6

\* A step that writes only the rows of batch b, and only for submission p,
\* leaves alone what the invariant says of everything else.
LEMMA OwnBatchOnly ==
    ASSUME Inv, Inv', TruthInv, NEW p \in Posts, NEW b \in Batches, post[p].batch = b,
           \A q \in Posts \ {p} : post'[q] = post[q],
           \A q \in Posts \ {p} : Active(q) => Contents[post[q].batch] \cap Contents[b] = {},
           \A c \in Batches \ {b} : batch[c] # "NONE" => Contents[c] \cap Contents[b] = {},
           \A c \in Batches \ {b} : batch'[c] = batch[c],
           \A o \in Operations \ Contents[b] : operation'[o] = operation[o] /\ sold'[o] = sold[o],
           disturbed \subseteq disturbed', disturbed' \subseteq disturbed \cup Contents[b],
           cut \subseteq cut',
           batch'[b] # "NONE", \A o \in Contents[b] : operation'[o] # "NONE",
           post'[p].stage # "checked",
           Active(p)' => ProgressOf(p)',
           \A o \in Contents[b] : OutcomeTold(o)',
           BatchTold(b)'
    PROVE  TruthInv'
<1> USE SyncAssumption
<1>1. \A q \in Posts : Active(q) => post[q].batch \in Batches /\ post[q] \in PostRow
  BY DEF Inv, RowsOK, Active, Idle, PostRow
<1>2. \A c \in Batches : Contents[c] \subseteq Operations
  OBVIOUS
<1>3. BatchRows'
  BY <1>2 DEF TruthInv, BatchRows
<1>4. ASSUME NEW q \in Posts, q # p, Active(q)'
      PROVE  ProgressOf(q)'
  <2> DEFINE c == post[q].batch
  <2>1. Active(q) /\ post'[q] = post[q]
    BY <1>4 DEF Active
  <2>2. c \in Batches /\ Contents[c] \cap Contents[b] = {} /\ c # b
    <3>1. c \in Batches /\ Contents[c] # {}
      BY <1>1, <2>1
    <3>2. Contents[c] \cap Contents[b] = {}
      BY <1>4, <2>1
    <3> QED BY <3>1, <3>2
  <2>3. batch'[c] = batch[c]
    BY <2>2
  <2>4. \A o \in Contents[c] : /\ operation'[o] = operation[o] /\ sold'[o] = sold[o]
                               /\ o \in disturbed' <=> o \in disturbed
    <3> TAKE o \in Contents[c]
    <3>1. o \in Operations \ Contents[b]
      BY <1>2, <2>2
    <3> QED BY <3>1
  <2>5. ProgressOf(q)
    BY <2>1 DEF TruthInv
  <2>6. post[q].stage \in {"sold", "refused"} => post[q].doing \in Contents[c]
    BY <2>5 DEF ProgressOf
  <2> QED BY <2>1, <2>3, <2>4, <2>5, <2>6 DEF ProgressOf
<1>5. ASSUME NEW o \in Operations, o \notin Contents[b]
      PROVE  OutcomeTold(o)'
  BY <1>5 DEF TruthInv, OutcomeTold
<1>6. ASSUME NEW c \in Batches, c # b
      PROVE  BatchTold(c)'
  <2>1. BatchTold(c) /\ batch'[c] = batch[c]
    BY <1>6 DEF TruthInv
  <2>2. batch[c] \in Final => \A o \in Contents[c] : operation'[o] = operation[o]
    BY <1>2, <1>6 DEF Final
  <2>3. \A q \in Posts : Active(q) /\ post[q].batch = c => Active(q)' /\ post'[q].batch = c
    BY <1>6 DEF Active
  <2> QED BY <2>1, <2>2, <2>3 DEF BatchTold, Final
<1>7. ASSUME NEW q \in Posts, post'[q].stage = "checked"
      PROVE  Fresh(q)'
  BY <1>7 DEF TruthInv, Fresh
<1> QED BY <1>3, <1>4, <1>5, <1>6, <1>7 DEF TruthInv

\* A submission that goes on has its batch's rows for itself.
LEMMA OwnBatch ==
    ASSUME Inv, TruthInv, NEW p \in Posts, Active(p)
    PROVE  /\ post[p] \in PostRow /\ post[p].batch \in Batches /\ ProgressOf(p)
           /\ \A q \in Posts \ {p} : Active(q) =>
                 Contents[post[q].batch] \cap Contents[post[p].batch] = {}
           /\ \A c \in Batches \ {post[p].batch} :
                 batch[c] # "NONE" => Contents[c] \cap Contents[post[p].batch] = {}
           /\ \A o \in Contents[post[p].batch] : operation[o] # "NONE" /\ o \in Operations
           /\ batch[post[p].batch] \notin {"NONE"} \cup Final
<1>1. post[p] \in PostRow /\ post[p].batch \in Batches
  BY DEF Inv, RowsOK, Active, Idle, PostRow
<1>2. ProgressOf(p)
  BY DEF TruthInv
<1>3. batch[post[p].batch] \notin {"NONE"} \cup Final
  BY <1>2 DEF ProgressOf, Final
<1> QED BY <1>1, <1>2, <1>3, SyncAssumption DEF Inv, OwnRows, TruthInv, BatchRows

\* The rows are created.
LEMMA CreateTruth ==
    ASSUME Inv, Inv', TruthInv, NEW p \in Posts, CreateBatch(p)
    PROVE  TruthInv'
<1>0. /\ post[p] \in PostRow /\ post[p].batch \in Batches
      /\ post[p].stage = "checked" /\ Fresh(p)
  <2>1. post[p].stage = "checked"
    BY DEF CreateBatch
  <2>2. post[p] \in PostRow
    BY <2>1 DEF Inv, RowsOK, Idle
  <2>3. Fresh(p)
    BY <2>1 DEF TruthInv
  <2> QED BY <2>1, <2>2, <2>3 DEF PostRow
<1> PICK b \in Batches : b = post[p].batch
  BY <1>0
<1>1. Contents[b] \subseteq Operations
  BY SyncAssumption
<1>2. batch[b] = "NONE" /\ \A o \in Contents[b] : operation[o] = "NONE"
  BY DEF CreateBatch, New
<1>3. \A q \in Posts : Active(q) => Contents[post[q].batch] \cap Contents[b] = {}
  BY <1>2 DEF Inv, OwnRows
<1>4. \A c \in Batches \ {b} : batch[c] # "NONE" => Contents[c] \cap Contents[b] = {}
  BY <1>2 DEF TruthInv, BatchRows
<1>5. /\ post'[p] = [post[p] EXCEPT !.stage = "created"]
      /\ post'[p].stage = "created" /\ Active(p)' /\ post'[p].batch = b
      /\ post'[p].todo = Contents[b] /\ post'[p].doing = None
      /\ post'[p].applied = 0 /\ post'[p].rejected = 0
      /\ \A q \in Posts \ {p} : post'[q] = post[q]
  BY <1>0 DEF CreateBatch, Inv, RowsOK, Active, Fresh, PostRow
<1>6. /\ batch'[b] = "RECEIVED" /\ \A c \in Batches \ {b} : batch'[c] = batch[c]
      /\ \A o \in Contents[b] : operation'[o] = "PENDING"
      /\ \A o \in Operations \ Contents[b] : operation'[o] = operation[o]
      /\ UNCHANGED <<sold, disturbed, cut>>
  BY <1>1 DEF CreateBatch, Inv, RowsOK
<1>7. ProgressOf(p)'
  BY <1>5, <1>6, SyncAssumption DEF ProgressOf
<1>8. \A o \in Contents[b] : OutcomeTold(o)'
  BY <1>6 DEF OutcomeTold
<1>9. BatchTold(b)'
  BY <1>5, <1>6 DEF BatchTold, Final
<1> QED BY <1>1, <1>3, <1>4, <1>5, <1>6, <1>7, <1>8, <1>9, OwnBatchOnly

\* A submission that goes on writes its own rows.
LEMMA OwnTruth ==
    ASSUME Inv, Inv', TruthInv, NEW p \in Posts,
           \/ StartBatch(p)
           \/ \E o \in Operations, committed \in BOOLEAN : Execute(p, o, committed)
           \/ RecordApplied(p) \/ RecordRejected(p) \/ FinishBatch(p) \/ FailAfterSale(p)
    PROVE  TruthInv'
<1>1. Active(p)
  BY DEF StartBatch, Execute, RecordApplied, RecordRejected, FinishBatch, FailAfterSale, Active
<1> PICK b \in Batches : b = post[p].batch
  BY <1>1, OwnBatch
<1>2. /\ post[p] \in PostRow /\ b \in Batches /\ ProgressOf(p)
      /\ \A q \in Posts \ {p} : Active(q) => Contents[post[q].batch] \cap Contents[b] = {}
      /\ \A c \in Batches \ {b} : batch[c] # "NONE" => Contents[c] \cap Contents[b] = {}
      /\ \A o \in Contents[b] : operation[o] # "NONE" /\ o \in Operations
      /\ batch[b] \notin {"NONE"} \cup Final
  BY <1>1, OwnBatch
<1>3. \A o \in Operations : OutcomeTold(o)
  BY DEF TruthInv
<1>4. post[p].todo \subseteq Contents[b]
  BY <1>1 DEF Inv, RowsOK, Active, Idle
<1>5. CASE StartBatch(p)
  <2>1. /\ post'[p] = [post[p] EXCEPT !.stage = "running"]
        /\ \A q \in Posts \ {p} : post'[q] = post[q]
        /\ batch'[b] = "PROCESSING" /\ \A c \in Batches \ {b} : batch'[c] = batch[c]
        /\ UNCHANGED <<operation, sold, disturbed, cut>>
        /\ post[p].stage = "created"
    BY <1>2, <1>5 DEF StartBatch, Inv, RowsOK
  <2>2. /\ post'[p].stage = "running" /\ Active(p)' /\ post'[p].batch = b
        /\ post'[p].todo = post[p].todo /\ post'[p].doing = post[p].doing
        /\ post'[p].applied = post[p].applied /\ post'[p].rejected = post[p].rejected
    BY <1>2, <2>1 DEF PostRow, Active
  <2>3. ProgressOf(p)'
    BY <1>2, <2>1, <2>2 DEF ProgressOf
  <2>4. \A o \in Contents[b] : OutcomeTold(o)'
    BY <1>2, <1>3, <2>1 DEF OutcomeTold
  <2>5. BatchTold(b)'
    BY <2>1, <2>2 DEF BatchTold, Final
  <2> QED BY <1>2, <2>1, <2>2, <2>3, <2>4, <2>5, OwnBatchOnly
<1>6. ASSUME NEW x \in Operations, NEW committed \in BOOLEAN, Execute(p, x, committed)
      PROVE  TruthInv'
  <2>1. /\ post'[p] = [post[p] EXCEPT !.doing = x, !.todo = @ \ {x},
                                      !.stage = IF committed THEN "sold" ELSE "refused"]
        /\ \A q \in Posts \ {p} : post'[q] = post[q]
        /\ sold'[x] = IF committed THEN sold[x] + 1 ELSE sold[x]
        /\ \A o \in Operations \ {x} : sold'[o] = sold[o]
        /\ UNCHANGED <<batch, operation, disturbed, cut>>
        /\ post[p].stage = "running" /\ x \in post[p].todo
    BY <1>6 DEF Execute, Inv, RowsOK
  <2>2. /\ post'[p].stage = IF committed THEN "sold" ELSE "refused"
        /\ Active(p)' /\ post'[p].batch = b
        /\ post'[p].todo = post[p].todo \ {x} /\ post'[p].doing = x
        /\ post'[p].applied = post[p].applied /\ post'[p].rejected = post[p].rejected
    BY <1>2, <2>1 DEF PostRow, Active
  <2>3. x \in Contents[b] /\ operation[x] = "PENDING"
    BY <1>2, <1>4, <2>1 DEF ProgressOf
  <2>4. sold[x] = 0
    BY <1>1, <2>1 DEF Inv, TodoUnsold
  <2>5. ProgressOf(p)'
    <3>1. post[p].doing = None /\ None \notin Contents[b]
      BY <1>2, <2>1, SyncAssumption DEF ProgressOf
    <3>2. \A o \in Contents[b] : operation'[o] = "PENDING" <=>
                                    o \in post'[p].todo \/ o = post'[p].doing
      BY <1>2, <2>1, <2>2, <2>3, <3>1 DEF ProgressOf
    <3>3. sold'[x] = IF committed THEN 1 ELSE 0
      BY <2>1, <2>4
    <3> QED BY <1>2, <2>1, <2>2, <2>3, <3>2, <3>3 DEF ProgressOf
  <2>6. \A o \in Contents[b] : OutcomeTold(o)'
    BY <1>2, <1>3, <2>1, <2>3 DEF OutcomeTold
  <2>7. BatchTold(b)'
    BY <1>2, <2>1, <2>2 DEF BatchTold, Final
  <2>8. \A o \in Operations \ Contents[b] : operation'[o] = operation[o] /\ sold'[o] = sold[o]
    BY <2>1, <2>3
  <2> QED BY <1>2, <2>1, <2>2, <2>5, <2>6, <2>7, <2>8, OwnBatchOnly
<1>7. CASE RecordApplied(p) \/ RecordRejected(p)
  <2> DEFINE x == post[p].doing
  <2>1. PICK outcome \in {"APPLIED", "REJECTED"} :
           /\ post[p].stage = IF outcome = "APPLIED" THEN "sold" ELSE "refused"
           /\ operation' = [operation EXCEPT ![x] = outcome]
           /\ post'[p] = IF outcome = "APPLIED"
                THEN [post[p] EXCEPT !.stage = "running", !.doing = None, !.applied = @ + 1]
                ELSE [post[p] EXCEPT !.stage = "running", !.doing = None, !.rejected = @ + 1]
           /\ \A q \in Posts \ {p} : post'[q] = post[q]
           /\ UNCHANGED <<batch, sold, disturbed, cut>>
    BY <1>7 DEF RecordApplied, RecordRejected, CountRejected, Inv, RowsOK
  <2>2. /\ post'[p].stage = "running" /\ Active(p)' /\ post'[p].batch = b
        /\ post'[p].todo = post[p].todo /\ post'[p].doing = None
        /\ post'[p].applied = IF outcome = "APPLIED" THEN post[p].applied + 1 ELSE post[p].applied
        /\ post'[p].rejected =
              IF outcome = "APPLIED" THEN post[p].rejected ELSE post[p].rejected + 1
        /\ post[p].applied \in Nat /\ post[p].rejected \in Nat
    BY <1>2, <2>1 DEF PostRow, Active
  <2>3. x \in Contents[b] \ post[p].todo /\ x \in Operations
    BY <1>2, <2>1 DEF ProgressOf
  <2>4. operation'[x] = outcome /\ \A o \in Operations \ {x} : operation'[o] = operation[o]
    BY <2>1, <2>3 DEF Inv, RowsOK
  <2>5. ProgressOf(p)'
    <3>1. None \notin Contents[b] /\ operation[x] = "PENDING"
      BY <1>2, <2>3, SyncAssumption DEF ProgressOf
    <3>2. \A o \in Contents[b] : operation'[o] = "PENDING" <=>
                                    o \in post'[p].todo \/ o = post'[p].doing
      BY <1>2, <2>2, <2>3, <2>4, <3>1 DEF ProgressOf
    <3>3. post'[p].applied = 0 <=> \A o \in Contents[b] : operation'[o] # "APPLIED"
      BY <1>2, <2>2, <2>3, <2>4, <3>1 DEF ProgressOf
    <3>4. post'[p].rejected = 0 <=> \A o \in Contents[b] : operation'[o] # "REJECTED"
      BY <1>2, <2>2, <2>3, <2>4, <3>1 DEF ProgressOf
    <3> QED BY <1>2, <2>1, <2>2, <3>2, <3>3, <3>4 DEF ProgressOf
  <2>6. \A o \in Contents[b] : OutcomeTold(o)'
    BY <1>2, <1>3, <2>1, <2>3, <2>4 DEF OutcomeTold, ProgressOf
  <2>7. BatchTold(b)'
    BY <1>2, <2>1, <2>2 DEF BatchTold, Final
  <2>8. /\ \A o \in Contents[b] : operation'[o] # "NONE"
        /\ \A o \in Operations \ Contents[b] : operation'[o] = operation[o]
    BY <1>2, <2>3, <2>4
  <2> QED BY <1>2, <2>1, <2>2, <2>5, <2>6, <2>7, <2>8, OwnBatchOnly
<1>8. CASE FinishBatch(p)
  <2>1. /\ batch'[b] = Outcome(post[p].applied, post[p].rejected)
        /\ \A c \in Batches \ {b} : batch'[c] = batch[c]
        /\ post'[p] = Idle /\ \A q \in Posts \ {p} : post'[q] = post[q]
        /\ UNCHANGED <<operation, sold, disturbed, cut>>
        /\ post[p].stage = "running" /\ post[p].todo = {}
    BY <1>2, <1>8 DEF FinishBatch, Finished, Inv, RowsOK
  <2>2. ~Active(p)' /\ post'[p].stage # "checked"
    BY <2>1 DEF Active, Idle
  <2>3. \A o \in Contents[b] : operation[o] \in {"APPLIED", "REJECTED"}
    <3>1. post[p].doing = None /\ None \notin Contents[b]
      BY <1>2, <2>1, SyncAssumption DEF ProgressOf
    <3>2. \A o \in Contents[b] : operation[o] # "PENDING"
      BY <1>2, <2>1, <3>1 DEF ProgressOf
    <3> QED BY <1>2, <3>2 DEF Inv, RowsOK, OperationStatus
  <2>4. BatchTold(b)'
    <3>1. Contents[b] # {}
      BY <1>2, SyncAssumption
    <3>2. /\ post[p].applied = 0 <=> \A o \in Contents[b] : operation[o] # "APPLIED"
          /\ post[p].rejected = 0 <=> \A o \in Contents[b] : operation[o] # "REJECTED"
      BY <1>2 DEF ProgressOf
    <3>3. batch'[b] \notin {"RECEIVED", "PROCESSING"}
      BY <2>1 DEF Outcome
    <3>4. \A o \in Contents[b] : operation'[o] = operation[o]
      BY <2>1
    <3> QED BY <2>1, <2>3, <3>1, <3>2, <3>3, <3>4 DEF BatchTold, Outcome, Final
  <2>5. \A o \in Contents[b] : OutcomeTold(o)'
    BY <1>2, <1>3, <2>1 DEF OutcomeTold
  <2>6. batch'[b] # "NONE"
    BY <2>1 DEF Outcome
  <2> QED BY <1>2, <2>1, <2>2, <2>4, <2>5, <2>6, OwnBatchOnly
<1>9. CASE FailAfterSale(p)
  <2> DEFINE x == post[p].doing
  <2>1. /\ post'[p] = [post[p] EXCEPT !.stage = "refused"]
        /\ \A q \in Posts \ {p} : post'[q] = post[q]
        /\ disturbed' = disturbed \cup {x}
        /\ UNCHANGED <<batch, operation, sold, cut>>
        /\ post[p].stage = "sold"
    BY <1>9 DEF FailAfterSale, Inv, RowsOK
  <2>2. /\ post'[p].stage = "refused" /\ Active(p)' /\ post'[p].batch = b
        /\ post'[p].todo = post[p].todo /\ post'[p].doing = x
        /\ post'[p].applied = post[p].applied /\ post'[p].rejected = post[p].rejected
    BY <1>2, <2>1 DEF PostRow, Active
  <2>3. x \in Contents[b]
    BY <1>2, <2>1 DEF ProgressOf
  <2>4. ProgressOf(p)'
    BY <1>2, <2>1, <2>2 DEF ProgressOf
  <2>5. \A o \in Contents[b] : OutcomeTold(o)'
    BY <1>2, <1>3, <2>1 DEF OutcomeTold
  <2>6. BatchTold(b)'
    BY <1>2, <2>1, <2>2 DEF BatchTold, Final
  <2>7. disturbed \subseteq disturbed' /\ disturbed' \subseteq disturbed \cup Contents[b]
    BY <2>1, <2>3
  <2> QED BY <1>2, <2>1, <2>2, <2>4, <2>5, <2>6, <2>7, OwnBatchOnly
<1> QED BY <1>5, <1>6, <1>7, <1>8, <1>9

LEMMA TruthStep ==
    ASSUME Inv, TruthInv, [Next]_vars
    PROVE  TruthInv'
<1>1. Inv'
  BY InvStep
<1>2. ASSUME NEW p \in Posts, NEW b \in Batches, Submit(p, b)
      PROVE  TruthInv'
  <2>1. /\ post'[p] = [stage |-> "checked", batch |-> b, todo |-> Contents[b],
                       doing |-> None, applied |-> 0, rejected |-> 0]
        /\ \A q \in Posts \ {p} : post'[q] = post[q]
        /\ post[p] = Idle /\ UNCHANGED <<batch, operation, sold, disturbed, cut>>
    BY <1>2 DEF Submit, Inv, RowsOK
  <2>2. \A q \in Posts : Active(q)' => Active(q) /\ q # p
    BY <2>1 DEF Active
  <2>3. \A q \in Posts : Active(q) => Active(q)' /\ post'[q] = post[q]
    BY <2>1 DEF Active, Idle
  <2>4. \A q \in Posts : Active(q)' => ProgressOf(q)'
    BY <2>1, <2>2, <2>3 DEF TruthInv, ProgressOf
  <2>5. \A q \in Posts : post'[q].stage = "checked" => Fresh(q)'
    BY <2>1 DEF TruthInv, Fresh
  <2>6. \A c \in Batches : BatchTold(c)'
    BY <2>1, <2>3 DEF TruthInv, BatchTold
  <2> QED BY <2>1, <2>4, <2>5, <2>6 DEF TruthInv, BatchRows, OutcomeTold
<1>3. ASSUME NEW p \in Posts, RefuseBatch(p)
      PROVE  TruthInv'
  <2>1. /\ post'[p] = Idle /\ \A q \in Posts \ {p} : post'[q] = post[q]
        /\ post[p].stage = "checked" /\ UNCHANGED <<batch, operation, sold, disturbed, cut>>
    BY <1>3 DEF RefuseBatch, Inv, RowsOK
  <2>2. \A q \in Posts : Active(q)' => Active(q) /\ q # p
    BY <2>1 DEF Active, Idle
  <2>3. \A q \in Posts : Active(q) => Active(q)' /\ post'[q] = post[q]
    BY <2>1 DEF Active
  <2>4. \A q \in Posts : Active(q)' => ProgressOf(q)'
    BY <2>1, <2>2, <2>3 DEF TruthInv, ProgressOf
  <2>5. \A q \in Posts : post'[q].stage = "checked" => Fresh(q)'
    BY <2>1 DEF TruthInv, Fresh, Idle
  <2>6. \A c \in Batches : BatchTold(c)'
    BY <2>1, <2>3 DEF TruthInv, BatchTold
  <2> QED BY <2>1, <2>4, <2>5, <2>6 DEF TruthInv, BatchRows, OutcomeTold
<1>4. ASSUME NEW p \in Posts, Stop(p)
      PROVE  TruthInv'
  <2>1. /\ post'[p] = Idle /\ \A q \in Posts \ {p} : post'[q] = post[q]
        /\ UNCHANGED <<batch, operation, sold, disturbed>> /\ cut \subseteq cut'
        /\ Active(p) => post[p].batch \in cut'
    BY <1>4 DEF Stop, Inv, RowsOK, Active
  <2>2. \A q \in Posts : Active(q)' => Active(q) /\ q # p
    BY <2>1 DEF Active, Idle
  <2>3. \A q \in Posts \ {p} : Active(q) => Active(q)' /\ post'[q] = post[q]
    BY <2>1 DEF Active
  <2>4. \A q \in Posts : Active(q)' => ProgressOf(q)'
    BY <2>1, <2>2, <2>3 DEF TruthInv, ProgressOf
  <2>5. \A q \in Posts : post'[q].stage = "checked" => Fresh(q)'
    BY <2>1 DEF TruthInv, Fresh, Idle
  <2>6. \A c \in Batches : BatchTold(c)'
    BY <2>1, <2>3 DEF TruthInv, BatchTold
  <2> QED BY <2>1, <2>4, <2>5, <2>6 DEF TruthInv, BatchRows, OutcomeTold
<1>5. CASE UNCHANGED vars
  BY <1>5 DEF vars, TruthInv, BatchRows, Active, ProgressOf, Fresh, OutcomeTold, BatchTold
<1> QED BY <1>1, <1>2, <1>3, <1>4, <1>5, CreateTruth, OwnTruth DEF Next, Continue

\* The statuses a device reads tell what happened: of a sale, of an operation
\* without one and of a batch, however submissions overlap, fail after a sale
\* or are cut short (the outcomes that submit records and counts).
THEOREM StatusesAreTrue == Spec => []StatusesTellTruth
<1>1. Inv /\ TruthInv /\ [Next]_vars => Inv' /\ TruthInv'
  BY InvStep, TruthStep
<1>2. Init => Inv /\ TruthInv
  BY InitInv, InitTruthInv
<1>3. TruthInv => StatusesTellTruth
  BY TruthTold
<1> QED BY <1>1, <1>2, <1>3, PTL DEF Spec

-----------------------------------------------------------------------------
(* The synchronization implements Settlement.                              *)

\* An operation is disturbed after its sale, and then not called applied.
SlipInv ==
    /\ \A o \in disturbed : o \in Operations /\ sold[o] = 1
    /\ \A p \in Posts : post[p].stage = "sold" => post[p].doing \notin disturbed

LEMMA InitSlipInv == Init => SlipInv
  BY DEF Init, SlipInv, Idle

\* A step that disturbs nothing and takes no sale back, and finds no other sale
\* made than before.
LEMMA UndisturbedStep ==
    ASSUME SlipInv, UNCHANGED <<disturbed, sold>>,
           \A p \in Posts : post'[p].stage = "sold" => post'[p] = post[p]
    PROVE  SlipInv'
  BY DEF SlipInv

LEMMA SlipStep ==
    ASSUME Inv, TruthInv, SlipInv, [Next]_vars
    PROVE  SlipInv'
<1>1. \A p \in Posts : post[p] # Idle => post[p] \in PostRow
  BY DEF Inv, RowsOK
<1>2. ASSUME NEW p \in Posts, NEW b \in Batches, Submit(p, b)
      PROVE  SlipInv'
  BY <1>2, UndisturbedStep DEF Submit, Inv, RowsOK
<1>3. ASSUME NEW p \in Posts, CreateBatch(p)
      PROVE  SlipInv'
  BY <1>1, <1>3, UndisturbedStep DEF CreateBatch, Inv, RowsOK, Idle, PostRow
<1>4. ASSUME NEW p \in Posts, RefuseBatch(p)
      PROVE  SlipInv'
  BY <1>4, UndisturbedStep DEF RefuseBatch, Inv, RowsOK, Idle
<1>5. ASSUME NEW p \in Posts, StartBatch(p)
      PROVE  SlipInv'
  BY <1>1, <1>5, UndisturbedStep DEF StartBatch, Inv, RowsOK, Idle, PostRow
<1>6. ASSUME NEW p \in Posts, NEW o \in Operations, NEW committed \in BOOLEAN,
             Execute(p, o, committed)
      PROVE  SlipInv'
  <2>1. post[p] \in PostRow /\ post[p].stage = "running" /\ o \in post[p].todo
    BY <1>1, <1>6 DEF Execute, Idle
  <2>2. sold[o] = 0
    BY <2>1 DEF Inv, TodoUnsold, Active
  <2>3. o \notin disturbed
    BY <2>2 DEF SlipInv
  <2>4. disturbed' = disturbed /\ \A x \in Operations \ {o} : sold'[x] = sold[x]
    BY <1>6 DEF Execute, Inv, RowsOK
  <2>5. post'[p].doing = o /\ \A q \in Posts \ {p} : post'[q] = post[q]
    BY <1>6, <2>1 DEF Execute, Inv, RowsOK, PostRow
  <2> QED  BY <2>3, <2>4, <2>5 DEF SlipInv
<1>7. ASSUME NEW p \in Posts, FailAfterSale(p)
      PROVE  SlipInv'
  <2>1. post[p] \in PostRow /\ post[p].stage = "sold" /\ Active(p)
    BY <1>1, <1>7 DEF FailAfterSale, Idle, Active
  <2>2. PICK o \in Operations : o = post[p].doing /\ o \in Contents[post[p].batch] /\ sold[o] = 1
    BY <2>1, OwnBatch DEF ProgressOf
  <2>3. disturbed' = disturbed \cup {o} /\ sold' = sold
    BY <1>7, <2>2 DEF FailAfterSale
  <2>4. post'[p].stage = "refused" /\ \A q \in Posts \ {p} : post'[q] = post[q]
    BY <1>7, <2>1 DEF FailAfterSale, Inv, RowsOK, PostRow
  <2>5. ASSUME NEW q \in Posts, post'[q].stage = "sold"
        PROVE  post'[q].doing \notin disturbed'
    <3>1. q # p /\ post'[q] = post[q] /\ Active(q)
      BY <2>4, <2>5 DEF Active
    <3>2. Contents[post[q].batch] \cap Contents[post[p].batch] = {}
      BY <2>1, <3>1, OwnBatch
    <3>3. post[q].doing \in Contents[post[q].batch]
      BY <2>5, <3>1, OwnBatch DEF ProgressOf
    <3>4. post[q].doing # o
      BY <2>2, <3>2, <3>3
    <3> QED  BY <2>3, <2>5, <3>1, <3>4 DEF SlipInv
  <2> QED  BY <2>2, <2>3, <2>5 DEF SlipInv
<1>8. ASSUME NEW p \in Posts, RecordApplied(p) \/ RecordRejected(p)
      PROVE  SlipInv'
  <2>1. post[p] \in PostRow
    BY <1>1, <1>8 DEF RecordApplied, RecordRejected, Idle
  <2>2. post'[p].stage = "running" /\ \A q \in Posts \ {p} : post'[q] = post[q]
    BY <1>8, <2>1 DEF RecordApplied, RecordRejected, Inv, RowsOK, PostRow
  <2> QED  BY <1>8, <2>2, UndisturbedStep DEF RecordApplied, RecordRejected
<1>9. ASSUME NEW p \in Posts, FinishBatch(p) \/ Stop(p)
      PROVE  SlipInv'
  BY <1>9, UndisturbedStep DEF FinishBatch, Stop, Inv, RowsOK, Idle
<1>10. CASE UNCHANGED vars
  BY <1>10 DEF vars, SlipInv
<1> QED
  BY <1>2, <1>3, <1>4, <1>5, <1>6, <1>7, <1>8, <1>9, <1>10 DEF Next, Continue

LEMMA ReceiptOf ==
    /\ Receipt("NONE") = "none" /\ Receipt("RECEIVED") = "open" /\ Receipt("PROCESSING") = "open"
    /\ \A status \in Final : Receipt(status) = status
  BY DEF Receipt, Final

LEMMA SettlementStarts == Init => Settles!SettlementInit
<1> SUFFICES ASSUME Init PROVE Settles!SettlementInit
  OBVIOUS
<1>1. [b \in Batches |-> Receipt(batch[b])] = [b \in Batches |-> "none"]
  BY ReceiptOf DEF Init
<1> QED  BY <1>1 DEF Init, Settles!SettlementInit

\* What a device can tell of a batch after a step that writes its row only.
LEMMA ReceiptWritten ==
    ASSUME RowsOK, NEW b \in Batches, NEW status, batch' = [batch EXCEPT ![b] = status]
    PROVE  [c \in Batches |-> Receipt(batch'[c])]
             = [[c \in Batches |-> Receipt(batch[c])] EXCEPT ![b] = Receipt(status)]
  BY DEF RowsOK

\* A step that changes what a device can tell of no batch.
LEMMA ReceiptsStay ==
    ASSUME RowsOK, NEW b \in Batches, NEW status, batch' = [batch EXCEPT ![b] = status],
           Receipt(status) = Receipt(batch[b])
    PROVE  [c \in Batches |-> Receipt(batch'[c])] = [c \in Batches |-> Receipt(batch[c])]
  BY DEF RowsOK

LEMMA SettlementReceives ==
    ASSUME Inv, NEW p \in Posts, CreateBatch(p)
    PROVE  Settles!SettlementNext
<1>1. PICK b \in Batches : b = post[p].batch
  BY DEF Inv, RowsOK, CreateBatch, Idle, PostRow
<1>2. batch[b] = "NONE" /\ \A o \in Contents[b] : operation[o] = "NONE"
  BY <1>1 DEF CreateBatch, New
<1>3. /\ batch' = [batch EXCEPT ![b] = "RECEIVED"]
      /\ operation' = [o \in Operations |-> IF o \in Contents[b] THEN "PENDING" ELSE operation[o]]
      /\ UNCHANGED <<sold, disturbed>>
  BY <1>1 DEF CreateBatch
<1>4. [c \in Batches |-> Receipt(batch'[c])]
        = [[c \in Batches |-> Receipt(batch[c])] EXCEPT ![b] = "open"]
  <2>1. [c \in Batches |-> Receipt(batch'[c])]
          = [[c \in Batches |-> Receipt(batch[c])] EXCEPT ![b] = Receipt("RECEIVED")]
    BY <1>3, ReceiptWritten DEF Inv
  <2> QED  BY <2>1, ReceiptOf
<1>5. [c \in Batches |-> Receipt(batch[c])][b] = "none"
  BY <1>2, ReceiptOf
<1>6. Settles!Receive(b)
  BY <1>2, <1>3, <1>4, <1>5 DEF Settles!Receive
<1> QED  BY <1>6 DEF Settles!SettlementNext

LEMMA SettlementSells ==
    ASSUME Inv, TruthInv, NEW p \in Posts, NEW o \in Operations, NEW committed \in BOOLEAN,
           Execute(p, o, committed)
    PROVE  Settles!SettlementNext \/ UNCHANGED Settles!settlementVars
<1>1. post[p] \in PostRow /\ Active(p) /\ o \in post[p].todo
  BY DEF Inv, RowsOK, Execute, Idle, Active
<1>2. operation[o] = "PENDING"
  <2>1. o \in Contents[post[p].batch]
    BY <1>1 DEF Inv, RowsOK, Active, Idle
  <2> QED  BY <1>1, <2>1, OwnBatch DEF ProgressOf
<1>3. sold[o] = 0
  BY <1>1 DEF Inv, TodoUnsold
<1>4. UNCHANGED <<batch, operation, disturbed>>
  BY DEF Execute
<1>5. CASE committed
  <2>1. sold' = [sold EXCEPT ![o] = 1]
    BY <1>3, <1>5 DEF Execute, Inv, RowsOK
  <2>2. Settles!Sell(o)
    BY <1>2, <1>3, <1>4, <2>1 DEF Settles!Sell
  <2> QED  BY <2>2 DEF Settles!SettlementNext
<1>6. CASE ~committed
  <2>1. sold' = sold
    BY <1>6 DEF Execute, Inv, RowsOK
  <2> QED  BY <1>4, <2>1 DEF Settles!settlementVars
<1> QED  BY <1>5, <1>6

LEMMA SettlementAnswers ==
    ASSUME Inv, TruthInv, SlipInv, NEW p \in Posts,
           FailAfterSale(p) \/ RecordApplied(p) \/ RecordRejected(p)
    PROVE  Settles!SettlementNext
<1>1. post[p] \in PostRow /\ post[p].stage \in {"sold", "refused"} /\ Active(p)
  BY DEF Inv, RowsOK, FailAfterSale, RecordApplied, RecordRejected, Idle, Active
<1>2. PICK o \in Operations :
         /\ o = post[p].doing /\ o \in Contents[post[p].batch] /\ operation[o] = "PENDING"
         /\ post[p].stage = "sold" => sold[o] = 1
         /\ post[p].stage = "refused" /\ o \notin disturbed => sold[o] = 0
  BY <1>1, OwnBatch DEF ProgressOf
<1>3. CASE FailAfterSale(p)
  <2>1. Settles!Slip(o)
    BY <1>2, <1>3 DEF FailAfterSale, Settles!Slip
  <2> QED  BY <2>1 DEF Settles!SettlementNext
<1>4. CASE RecordApplied(p)
  <2>1. o \notin disturbed
    BY <1>2, <1>4 DEF SlipInv, RecordApplied
  <2>2. Settles!Answer(o, "APPLIED")
    BY <1>2, <1>4, <2>1 DEF RecordApplied, Settles!Answer
  <2> QED  BY <2>2 DEF Settles!SettlementNext
<1>5. CASE RecordRejected(p)
  <2>1. Settles!Answer(o, "REJECTED")
    BY <1>2, <1>5 DEF RecordRejected, Settles!Answer
  <2> QED  BY <2>1 DEF Settles!SettlementNext
<1> QED  BY <1>3, <1>4, <1>5

LEMMA SettlementCloses ==
    ASSUME Inv, TruthInv, NEW p \in Posts, FinishBatch(p)
    PROVE  Settles!SettlementNext
<1>1. Active(p) /\ post[p].stage = "running" /\ post[p].todo = {}
  BY DEF FinishBatch, Finished, Active
<1>2. PICK b \in Batches : b = post[p].batch
  BY <1>1, OwnBatch
<1>3. /\ ProgressOf(p) /\ \A o \in Contents[b] : operation[o] # "NONE" /\ o \in Operations
  BY <1>1, <1>2, OwnBatch
<1> DEFINE status == Outcome(post[p].applied, post[p].rejected)
<1>4. batch' = [batch EXCEPT ![b] = status] /\ UNCHANGED <<operation, sold, disturbed>>
  BY <1>2 DEF FinishBatch
<1>5. batch[b] = "PROCESSING"
  BY <1>1, <1>2, <1>3 DEF ProgressOf
<1>6. {operation[o] : o \in Contents[b]} \subseteq {"APPLIED", "REJECTED"}
  <2>1. post[p].doing = None /\ None \notin Contents[b]
    BY <1>1, <1>3, SyncAssumption DEF ProgressOf
  <2>2. \A o \in Contents[b] : operation[o] # "PENDING"
    BY <1>1, <1>2, <1>3, <2>1 DEF ProgressOf
  <2> QED  BY <1>3, <2>2 DEF Inv, RowsOK, OperationStatus
<1>7. /\ post[p].rejected = 0 <=> "REJECTED" \notin {operation[o] : o \in Contents[b]}
      /\ post[p].applied = 0 <=> "APPLIED" \notin {operation[o] : o \in Contents[b]}
  BY <1>2, <1>3 DEF ProgressOf
<1>8. status \in Final /\ status = Settles!Verdict({operation[o] : o \in Contents[b]})
  BY <1>7 DEF Settles!Verdict, Outcome, Final
<1>9. [c \in Batches |-> Receipt(batch'[c])]
        = [[c \in Batches |-> Receipt(batch[c])] EXCEPT ![b] = status]
  BY <1>4, <1>8, ReceiptOf, ReceiptWritten DEF Inv
<1>10. [c \in Batches |-> Receipt(batch[c])][b] = "open"
  BY <1>5, ReceiptOf
<1>11. Settles!Close(b)
  BY <1>4, <1>6, <1>8, <1>9, <1>10 DEF Settles!Close
<1> QED  BY <1>11 DEF Settles!SettlementNext

LEMMA SettlementStep ==
    ASSUME Inv, TruthInv, SlipInv, [Next]_vars
    PROVE  [Settles!SettlementNext]_Settles!settlementVars
<1>1. ASSUME UNCHANGED <<batch, operation, sold, disturbed>>
      PROVE  UNCHANGED Settles!settlementVars
  BY <1>1 DEF Settles!settlementVars
<1>2. ASSUME NEW p \in Posts, StartBatch(p)
      PROVE  UNCHANGED Settles!settlementVars
  <2>1. Active(p) /\ post[p].stage = "created"
    BY <1>2 DEF StartBatch, Active
  <2>2. post[p].batch \in Batches /\ batch[post[p].batch] = "RECEIVED"
    BY <2>1, OwnBatch DEF ProgressOf
  <2>3. [c \in Batches |-> Receipt(batch'[c])] = [c \in Batches |-> Receipt(batch[c])]
    BY <1>2, <2>2, ReceiptOf, ReceiptsStay DEF StartBatch, Inv
  <2> QED  BY <1>2, <2>3 DEF StartBatch, Settles!settlementVars
<1>3. ASSUME NEW p \in Posts, \/ \E b \in Batches : Submit(p, b)
                              \/ RefuseBatch(p) \/ Stop(p)
      PROVE  UNCHANGED Settles!settlementVars
  BY <1>1, <1>3 DEF Submit, RefuseBatch, Stop
<1>4. CASE UNCHANGED vars
  BY <1>1, <1>4 DEF vars
<1> QED
  BY <1>2, <1>3, <1>4, SettlementReceives, SettlementSells, SettlementAnswers, SettlementCloses
  DEF Next, Continue

\* The synchronization keeps what Settlement promises, whatever is submitted
\* how often and whatever fails: an operation sells between its receipt and its
\* answer, once; an answer tells of the sale unless its record slipped; and no
\* answer or verdict is ever changed (submit and execute of the sync service).
THEOREM SettlementKept == Spec => SettlesAsPromised
<1>1. Init => Inv /\ TruthInv /\ SlipInv
  BY InitInv, InitTruthInv, InitSlipInv
<1>2. Inv /\ TruthInv /\ SlipInv /\ [Next]_vars => Inv' /\ TruthInv' /\ SlipInv'
  BY InvStep, TruthStep, SlipStep
<1>3. Inv /\ TruthInv /\ SlipInv /\ [Next]_vars
        => [Settles!SettlementNext]_Settles!settlementVars
  BY SettlementStep
<1> QED  BY SettlementStarts, <1>1, <1>2, <1>3, PTL
         DEF Spec, SettlesAsPromised, Settles!SettlementSpec

-----------------------------------------------------------------------------
(* Proofs about an answer of the assistant.  The plan is not looked into:  *)
(* whatever tools a question is given, all of them are tried, and a model  *)
(* is called again only after an error that may pass.                      *)

\* The fields of the question being answered.
ChatShape ==
    /\ chat = [at |-> chat.at, permissions |-> chat.permissions, context |-> chat.context,
               branch |-> chat.branch, plan |-> chat.plan, got |-> chat.got,
               calls |-> chat.calls, degraded |-> chat.degraded]
    /\ chat.degraded \in BOOLEAN
    /\ \E returned : chat.got \in Seq(returned)
    /\ chat.calls \in Seq(Outcomes)

\* The calls: every call but the last failed for a time.
CallsInOrder ==
    /\ \A i \in DOMAIN chat.calls : i < Len(chat.calls) => chat.calls[i] = "transient"
    /\ chat.at = "calling" => CallsAgain(chat.calls)
    /\ chat.at = "tools" => chat.calls = <<>>

\* How far the answer is.
Answering ==
    /\ chat.at = "tools" => ~chat.degraded
    /\ chat.at = "calling" => Len(chat.got) = Len(chat.plan) /\ provider.key
                              /\ "ok" \notin ToSet(chat.calls) /\ ~chat.degraded
    /\ chat.at = "answered" /\ chat.plan # <<>> =>
           /\ Len(chat.got) = Len(chat.plan)
           /\ chat.degraded <=> "ok" \notin ToSet(chat.calls)
           /\ chat.degraded /\ provider.key =>
                  Last(chat.calls) = "permanent" \/ Len(chat.calls) = CallsAllowed

ChatInv ==
    /\ provider \in [key : BOOLEAN, fallback : BOOLEAN]
    /\ ChatShape /\ CallsInOrder /\ Answering

\* A question that begins or ends has no results and no calls.
NothingDone ==
    \E at, permissions, context, branch, plan :
        /\ chat = [at |-> at, permissions |-> permissions, context |-> context,
                   branch |-> branch, plan |-> plan, got |-> <<>>, calls |-> <<>>,
                   degraded |-> FALSE]
        /\ at # "calling" /\ (at = "answered" => plan = <<>>)

LEMMA NothingDoneYet ==
    provider \in [key : BOOLEAN, fallback : BOOLEAN] /\ NothingDone => ChatInv
<1> SUFFICES ASSUME provider \in [key : BOOLEAN, fallback : BOOLEAN], NothingDone PROVE ChatInv
  OBVIOUS
<1>0. PICK at, permissions, context, branch, plan :
         /\ chat = [at |-> at, permissions |-> permissions, context |-> context,
                    branch |-> branch, plan |-> plan, got |-> <<>>, calls |-> <<>>,
                    degraded |-> FALSE]
         /\ at # "calling" /\ (at = "answered" => plan = <<>>)
  BY DEF NothingDone
<1>1. ChatShape
  BY <1>0 DEF ChatShape
<1>2. CallsInOrder
  BY <1>0 DEF CallsInOrder
<1>3. Answering
  BY <1>0 DEF Answering
<1> QED  BY <1>1, <1>2, <1>3 DEF ChatInv

LEMMA RunToolStep ==
    ASSUME ChatInv, RunTool
    PROVE  ChatInv'
<1> PICK tool, got : /\ tool = chat.plan[Len(chat.got) + 1]
                     /\ got \in IF MayRun(tool, chat.permissions)
                                THEN MayReturn(tool, chat.context, chat.branch)
                                ELSE {"unauthorized"}
                     /\ chat' = [chat EXCEPT !.got = Append(@, got)]
  BY DEF RunTool
<1>1. /\ chat.at = "tools" /\ Len(chat.got) < Len(chat.plan) /\ provider' = provider
  BY DEF RunTool
<1>2. PICK returned : chat.got \in Seq(returned)
  BY DEF ChatInv, ChatShape
<1>3. /\ chat'.at = chat.at /\ chat'.permissions = chat.permissions
      /\ chat'.plan = chat.plan /\ chat'.calls = chat.calls /\ chat'.degraded = chat.degraded
      /\ chat'.got = Append(chat.got, got)
  BY DEF ChatInv, ChatShape
<1>4. ChatShape'
  <2>1. chat'.got \in Seq(returned \cup {got})
    <3>1. chat.got \in Seq(returned \cup {got})
      BY <1>2
    <3> QED  BY <1>3, <3>1
  <2>2. chat' = [at |-> chat'.at, permissions |-> chat'.permissions, context |-> chat'.context,
                 branch |-> chat'.branch, plan |-> chat'.plan, got |-> chat'.got,
                 calls |-> chat'.calls, degraded |-> chat'.degraded]
    BY DEF ChatInv, ChatShape
  <2> QED  BY <1>3, <2>1, <2>2 DEF ChatInv, ChatShape
<1>5. CallsInOrder'
  BY <1>1, <1>3 DEF ChatInv, CallsInOrder
<1>6. Answering'
  BY <1>1, <1>3 DEF ChatInv, Answering
<1> QED  BY <1>1, <1>4, <1>5, <1>6 DEF ChatInv

\* All tools ran.
LEMMA ToolsDoneStep ==
    ASSUME ChatInv, ToolsDone
    PROVE  ChatInv'
<1>1. /\ chat.at = "tools" /\ Len(chat.got) = Len(chat.plan) /\ provider' = provider
      /\ chat' = IF provider.key
                 THEN [chat EXCEPT !.at = "calling"]
                 ELSE [chat EXCEPT !.at = "answered", !.degraded = TRUE]
  BY DEF ToolsDone
<1>2. /\ chat'.permissions = chat.permissions /\ chat'.plan = chat.plan
      /\ chat'.calls = chat.calls /\ chat'.got = chat.got /\ chat.calls = <<>>
  BY <1>1 DEF ChatInv, ChatShape, CallsInOrder
<1>3. /\ provider.key => chat'.at = "calling" /\ chat'.degraded = FALSE
      /\ ~provider.key => chat'.at = "answered" /\ chat'.degraded = TRUE
  BY <1>1 DEF ChatInv, ChatShape, Answering
<1>4. ChatShape'
  <2>1. chat' = [at |-> chat'.at, permissions |-> chat'.permissions, context |-> chat'.context,
                 branch |-> chat'.branch, plan |-> chat'.plan, got |-> chat'.got,
                 calls |-> chat'.calls, degraded |-> chat'.degraded]
    BY <1>1 DEF ChatInv, ChatShape
  <2> QED  BY <1>2, <1>3, <2>1 DEF ChatInv, ChatShape
<1>5. CallsInOrder'
  <2>1. CallsAgain(<<>>)'
    <3>1. MaxPrimary \in Nat /\ MaxPrimary >= 1 /\ MaxFallback \in Nat
      BY AssistantAssumption
    <3>2. CallsAllowed' > 0
      BY <3>1 DEF CallsAllowed
    <3> QED  BY <3>2 DEF CallsAgain
  <2> QED  BY <1>2, <2>1, <1>3 DEF CallsInOrder, CallsAgain, CallsAllowed
<1>6. Answering'
  <2>1. ToSet(chat'.calls) = {}
    BY <1>2 DEF ToSet
  <2> QED  BY <1>1, <1>2, <1>3, <2>1 DEF Answering
<1> QED  BY <1>1, <1>4, <1>5, <1>6 DEF ChatInv

\* A model is called once more.
LEMMA CallModelStep ==
    ASSUME ChatInv, NEW outcome \in Outcomes, CallModel(outcome)
    PROVE  ChatInv'
<1> PICK calls : calls = Append(chat.calls, outcome)
  OBVIOUS
<1>1. /\ chat.at = "calling" /\ provider' = provider
      /\ chat' = [chat EXCEPT !.calls = calls, !.at = AfterCalls(calls),
                              !.degraded = outcome # "ok" /\ ~CallsAgain(calls)]
  BY DEF CallModel
<1>2. /\ chat'.permissions = chat.permissions /\ chat'.plan = chat.plan /\ chat'.got = chat.got
      /\ chat'.calls = calls /\ chat'.at = AfterCalls(calls)
      /\ chat'.degraded = (outcome # "ok" /\ ~CallsAgain(calls))
  BY <1>1 DEF ChatInv, ChatShape
<1>3. /\ chat.calls \in Seq(Outcomes) /\ calls \in Seq(Outcomes) /\ Len(chat.calls) \in Nat
      /\ Len(calls) = Len(chat.calls) + 1 /\ DOMAIN calls = 1..Len(calls)
      /\ calls[Len(calls)] = outcome
      /\ \A i \in 1..Len(chat.calls) : calls[i] = chat.calls[i]
      /\ DOMAIN chat.calls = 1..Len(chat.calls)
  BY DEF ChatInv, ChatShape
<1>4. /\ Last(calls) = outcome /\ calls # <<>> /\ ToSet(calls) = ToSet(chat.calls) \cup {outcome}
  BY <1>3 DEF Last, ToSet
<1>5. CallsAgain(chat.calls) /\ "ok" \notin ToSet(chat.calls) /\ Len(chat.got) = Len(chat.plan)
  BY <1>1 DEF ChatInv, CallsInOrder, Answering
<1>6. CallsAgain(calls) <=> Len(calls) < CallsAllowed /\ outcome = "transient"
  BY <1>4 DEF CallsAgain, Transient
<1>7. Len(chat.calls) < CallsAllowed /\ CallsAllowed \in Nat
  <2>1. MaxPrimary \in Nat /\ MaxFallback \in Nat
    BY AssistantAssumption
  <2> QED  BY <1>5, <2>1 DEF CallsAgain, CallsAllowed
<1>8. CallsAllowed' = CallsAllowed /\ CallsAgain(calls)' = CallsAgain(calls)
  BY <1>1 DEF CallsAllowed, CallsAgain
<1>9. ChatShape'
  <2>1. chat' = [at |-> chat'.at, permissions |-> chat'.permissions, context |-> chat'.context,
                 branch |-> chat'.branch, plan |-> chat'.plan, got |-> chat'.got,
                 calls |-> chat'.calls, degraded |-> chat'.degraded]
    BY <1>1 DEF ChatInv, ChatShape
  <2>2. chat'.degraded \in BOOLEAN
    BY <1>2
  <2> QED  BY <1>2, <1>3, <2>1, <2>2 DEF ChatInv, ChatShape
<1>10. \A i \in DOMAIN chat.calls : chat.calls[i] = "transient"
  <2> SUFFICES ASSUME NEW i \in DOMAIN chat.calls PROVE chat.calls[i] = "transient"
    OBVIOUS
  <2>1. CASE i < Len(chat.calls)
    BY <2>1 DEF ChatInv, CallsInOrder
  <2>2. CASE i = Len(chat.calls)
    BY <1>3, <1>5, <2>2 DEF CallsAgain, Transient, Last
  <2> QED  BY <1>3, <2>1, <2>2
<1>11. CallsInOrder'
  <2>1. \A i \in DOMAIN calls : i < Len(calls) => calls[i] = "transient"
    BY <1>3, <1>10
  <2>2. chat'.at = "calling" => CallsAgain(calls)'
    BY <1>2, <1>8 DEF AfterCalls
  <2>3. chat'.at # "tools"
    BY <1>2 DEF AfterCalls
  <2> QED  BY <1>2, <2>1, <2>2, <2>3 DEF CallsInOrder, CallsAgain, CallsAllowed
<1>12. Answering'
  <2>1. CASE CallsAgain(calls)
    <3>1. chat'.at = "calling" /\ ~chat'.degraded /\ outcome = "transient"
      BY <1>2, <1>6, <2>1 DEF AfterCalls
    <3>2. "ok" \notin ToSet(calls)
      BY <1>4, <1>5, <3>1
    <3>3. provider'.key
      BY <1>1 DEF ChatInv, Answering
    <3> QED  BY <1>2, <1>5, <3>1, <3>2, <3>3 DEF Answering
  <2>2. CASE ~CallsAgain(calls)
    <3>1. chat'.at = "answered"
      BY <1>2, <2>2 DEF AfterCalls
    <3>2. chat'.degraded <=> outcome # "ok"
      BY <1>2, <2>2
    <3>3. "ok" \in ToSet(calls) <=> outcome = "ok"
      BY <1>4, <1>5
    <3>4. outcome # "ok" => outcome = "permanent" \/ Len(calls) = CallsAllowed
      BY <1>3, <1>6, <1>7, <2>2 DEF Outcomes
    <3>5. chat'.degraded /\ provider'.key
            => Last(chat'.calls) = "permanent" \/ Len(chat'.calls) = CallsAllowed'
      BY <1>2, <1>4, <1>8, <3>2, <3>4
    <3> QED  BY <1>2, <1>5, <3>1, <3>2, <3>3, <3>5 DEF Answering
  <2> QED  BY <2>1, <2>2
<1> QED  BY <1>1, <1>9, <1>11, <1>12 DEF ChatInv

LEMMA ChatInvStep == ChatInv /\ [AssistantNext]_assistantVars => ChatInv'
<1> SUFFICES ASSUME ChatInv, [AssistantNext]_assistantVars PROVE ChatInv'
  OBVIOUS
<1>1. provider' = provider /\ NothingDone' => ChatInv'
  <2>1. (provider \in [key : BOOLEAN, fallback : BOOLEAN] /\ NothingDone => ChatInv)'
    BY NothingDoneYet, PTL
  <2> QED  BY <2>1 DEF ChatInv
<1>2. CASE RefuseChat
  BY <1>1, <1>2 DEF RefuseChat, NoChat, NothingDone
<1>3. CASE TurnDown
  BY <1>1, <1>3 DEF TurnDown, NoChat, NothingDone
<1>4. ASSUME NEW question, NEW permissions, NEW branch, AskAssistant(question, permissions, branch)
      PROVE  ChatInv'
  <2>1. PICK at, context, plan :
           /\ at = "tools"
           /\ chat' = [at |-> at, permissions |-> permissions, context |-> context,
                       branch |-> branch, plan |-> plan, got |-> <<>>, calls |-> <<>>,
                       degraded |-> FALSE]
    BY <1>4 DEF AskAssistant, NoChat
  <2>2. at # "calling" /\ (at = "answered" => plan = <<>>)
    BY <2>1
  <2>3. NothingDone'
    BY <2>1, <2>2 DEF NothingDone
  <2> QED  BY <1>1, <1>4, <2>3 DEF AskAssistant
<1>5. CASE CloseChat
  BY <1>1, <1>5 DEF CloseChat, NoChat, NothingDone
<1>6. CASE AnswerStep
  BY <1>6, RunToolStep, ToolsDoneStep, CallModelStep DEF AnswerStep
<1>7. CASE UNCHANGED assistantVars
  BY <1>7 DEF assistantVars, ChatInv, ChatShape, CallsInOrder, Answering, CallsAgain,
              CallsAllowed
<1> QED  BY <1>2, <1>3, <1>4, <1>5, <1>6, <1>7 DEF AssistantNext

LEMMA ChatInitInv == AssistantInit => ChatInv
  BY NothingDoneYet DEF AssistantInit, NoChat, NothingDone

LEMMA ChatTold == ChatInv => AnswerTellsTruth
  BY DEF ChatInv, CallsInOrder, Answering, AnswerTellsTruth

\* An answer rests on what happened: it is degraded exactly if no model
\* answered, only an error that may pass is followed by another call, and every
\* tool of the plan was tried, for any number of calls (orchestrate of the assistant, generateResponse of the provider).
THEOREM AnswersAreTrue == AssistantSpec => []AnswerTellsTruth
  BY ChatInitInv, ChatInvStep, ChatTold, PTL DEF AssistantSpec

-----------------------------------------------------------------------------
(* The tools of a plan: the one of the first rule that fits, and the last   *)
(* rule fits every question.                                               *)

PlanRule == [fits : BOOLEAN, tools : Seq(Tools)]

LEMMA RuleMade ==
    ASSUME NEW fits \in BOOLEAN, NEW tools \in Seq(Tools)
    PROVE  [fits |-> fits, tools |-> tools] \in PlanRule
  BY DEF PlanRule

LEMMA FiveRules ==
    ASSUME NEW S, NEW a \in S, NEW b \in S, NEW c \in S, NEW d \in S, NEW e \in S
    PROVE  <<a, b, c, d, e>> \in Seq(S) /\ Len(<<a, b, c, d, e>>) = 5
  OBVIOUS

LEMMA ForecastRulesTyped ==
    ASSUME NEW question
    PROVE  ForecastRules(question) \in Seq(PlanRule) /\ Len(ForecastRules(question)) = 5
<1> DEFINE recommend == {"recommend", "together"} \cap question # {}
           f1 == {"demand", "lowStock"} \subseteq question
           f2 == {"salesForecast"} \subseteq question /\ recommend
           f3 == {"demand"} \subseteq question
           f4 == {"salesForecast"} \subseteq question
           r1 == [fits |-> f1, tools |-> <<"DemandForecastTool", "InventoryTool">>]
           r2 == [fits |-> f2, tools |-> <<"SalesForecastTool", "RecommendationTool">>]
           r3 == [fits |-> f3, tools |-> <<"DemandForecastTool">>]
           r4 == [fits |-> f4, tools |-> <<"SalesForecastTool">>]
           r5 == [fits |-> recommend, tools |-> <<"RecommendationTool">>]
<1>1. \A t, u \in Tools : <<t>> \in Seq(Tools) /\ <<t, u>> \in Seq(Tools)
  OBVIOUS
<1>2. {"DemandForecastTool", "InventoryTool", "SalesForecastTool", "RecommendationTool"}
        \subseteq Tools
  BY DEF Tools, StoreTools
<1>3. f1 \in BOOLEAN /\ f2 \in BOOLEAN /\ f3 \in BOOLEAN /\ f4 \in BOOLEAN /\ recommend \in BOOLEAN
  OBVIOUS
<1> HIDE DEF f1, f2, f3, f4, recommend
<1>4. r1 \in PlanRule /\ r2 \in PlanRule /\ r3 \in PlanRule /\ r4 \in PlanRule /\ r5 \in PlanRule
  <2>1. /\ <<"DemandForecastTool", "InventoryTool">> \in Seq(Tools)
        /\ <<"SalesForecastTool", "RecommendationTool">> \in Seq(Tools)
        /\ <<"DemandForecastTool">> \in Seq(Tools)
        /\ <<"SalesForecastTool">> \in Seq(Tools)
        /\ <<"RecommendationTool">> \in Seq(Tools)
    BY <1>1, <1>2
  <2> QED  BY <1>3, <2>1, RuleMade
<1>5. ForecastRules(question) = <<r1, r2, r3, r4, r5>>
  BY Zenon DEF ForecastRules, f1, f2, f3, f4, recommend
<1> HIDE DEF r1, r2, r3, r4, r5
<1> QED  BY <1>4, <1>5, FiveRules

LEMMA SevenRules ==
    ASSUME NEW S, NEW a \in S, NEW b \in S, NEW c \in S, NEW d \in S, NEW e \in S,
           NEW f \in S, NEW g \in S
    PROVE  /\ <<a, b, c, d, e, f, g>> \in Seq(S) /\ Len(<<a, b, c, d, e, f, g>>) = 7
           /\ <<a, b, c, d, e, f, g>>[7] = g
  OBVIOUS

LEMMA StoreRulesTyped ==
    ASSUME NEW question
    PROVE  /\ StoreRules(question) \in Seq(PlanRule)
           /\ Len(StoreRules(question)) = 7 /\ StoreRules(question)[7].fits
<1> DEFINE Speaks(topics) == topics \cap question # {}
           f1 == Speaks({"businessSummary"})
           f2 == Speaks({"customer"})
           f3 == Speaks({"branch"})
           f4 == Speaks({"product"}) /\ ~Speaks({"lowStock", "inventory", "sale", "salesForecast"})
           f5 == Speaks({"sale"})
           f6 == Speaks({"inventory", "lowStock"})
           r1 == [fits |-> f1, tools |-> <<"GeneralBusinessTool">>]
           r2 == [fits |-> f2, tools |-> <<"CustomersTool">>]
           r3 == [fits |-> f3, tools |-> <<"BranchesTool">>]
           r4 == [fits |-> f4, tools |-> <<"ProductsTool">>]
           r5 == [fits |-> f5, tools |-> <<"SalesTool">>]
           r6 == [fits |-> f6, tools |-> <<"InventoryTool">>]
           r7 == [fits |-> TRUE, tools |-> <<"GeneralBusinessTool">>]
<1>1. /\ f1 \in BOOLEAN /\ f2 \in BOOLEAN /\ f3 \in BOOLEAN /\ f4 \in BOOLEAN
      /\ f5 \in BOOLEAN /\ f6 \in BOOLEAN
  OBVIOUS
<1>2. StoreRules(question) = <<r1, r2, r3, r4, r5, r6, r7>>
  BY Zenon DEF StoreRules
<1> HIDE DEF f1, f2, f3, f4, f5, f6
<1>3. /\ r1 \in PlanRule /\ r2 \in PlanRule /\ r3 \in PlanRule /\ r4 \in PlanRule
      /\ r5 \in PlanRule /\ r6 \in PlanRule /\ r7 \in PlanRule
  <2>1. \A tool \in Tools : <<tool>> \in Seq(Tools)
    OBVIOUS
  <2>2. StoreTools \subseteq Tools
    BY DEF Tools
  <2>3. /\ <<"GeneralBusinessTool">> \in Seq(Tools) /\ <<"CustomersTool">> \in Seq(Tools)
        /\ <<"BranchesTool">> \in Seq(Tools) /\ <<"ProductsTool">> \in Seq(Tools)
        /\ <<"SalesTool">> \in Seq(Tools) /\ <<"InventoryTool">> \in Seq(Tools)
    BY <2>1, <2>2 DEF StoreTools
  <2> QED  BY <1>1, <2>3, RuleMade
<1>4. r7.fits
  OBVIOUS
<1> HIDE DEF r1, r2, r3, r4, r5, r6, r7
<1> QED  BY <1>2, <1>3, <1>4, SevenRules

\* Of some numbers up to n one is the least.
LEMMA LeastOf ==
    ASSUME NEW n \in Nat, NEW I \in SUBSET (1..n), I # {}
    PROVE  Min(I) \in I
<1> DEFINE R == StrictSubsetOrdering(1..n)
           T == {1..i : i \in I}
<1>1. IsWellFoundedOn(R, SUBSET (1..n))
  <2>1. IsFiniteSet(1..n)
    BY FS_Interval
  <2> QED  BY <2>1, FS_StrictSubsetOrderingWellFounded, FS_FiniteSubsetsOfFinite
<1>2. T \subseteq SUBSET (1..n) /\ T # {}
  <2>1. \A i \in I : 1..i \subseteq 1..n
    OBVIOUS
  <2> QED  BY <2>1
<1>3. PICK s \in T : \A r \in T : ~(<<r, s>> \in R)
  <2> HIDE DEF R, T
  <2> QED  BY <1>1, <1>2, WFMin
<1>4. PICK least \in I : s = 1..least
  OBVIOUS
<1>5. \A i \in I : least <= i
  <2> SUFFICES ASSUME NEW i \in I, i < least PROVE FALSE
    OBVIOUS
  <2>1. 1..i \in T /\ 1..i \subseteq 1..least /\ least \in (1..least) \ (1..i)
    OBVIOUS
  <2>2. 1..least \subseteq 1..n
    OBVIOUS
  <2>3. <<1..i, 1..least>> \in R
    BY <2>1, <2>2 DEF StrictSubsetOrdering
  <2> QED  BY <1>3, <1>4, <2>1, <2>3
<1> QED  BY <1>5 DEF Min

\* The two lists of rules, one after the other.
LEMMA JoinedRules ==
    ASSUME NEW S, NEW s \in Seq(S), NEW t \in Seq(S), Len(s) = 5, Len(t) = 7,
           NEW r, r = s \o t
    PROVE  /\ Len(r) = 12 /\ r[12] = t[7]
           /\ \A i \in 1..12 : r[i] \in S
<1>1. /\ r \in Seq(S) /\ Len(r) = Len(s) + Len(t)
      /\ \A i \in 1..(Len(s) + Len(t)) : r[i] = IF i <= Len(s) THEN s[i] ELSE t[i - Len(s)]
  BY ConcatProperties
<1>2. Len(s) + Len(t) = 12
  OBVIOUS
<1>3. r[12] = t[7]
  <2>1. 12 \in 1..(Len(s) + Len(t)) /\ ~(12 <= Len(s)) /\ 12 - Len(s) = 7
    OBVIOUS
  <2> QED  BY <2>1, <1>1
<1>4. \A i \in 1..12 : r[i] \in S
  <2>1. r \in Seq(S) /\ Len(r) = 12
    BY <1>1, <1>2
  <2> QED  BY <2>1, ElementOfSeq
<1> QED  BY <1>1, <1>2, <1>3, <1>4

LEMMA PlanTyped ==
    ASSUME NEW question
    PROVE  Plan(question) \in Seq(Tools)
<1>0. PICK rules : rules = ForecastRules(question) \o StoreRules(question)
  OBVIOUS
<1> DEFINE I == {i \in 1..Len(rules) : rules[i].fits}
<1>1. Len(rules) = 12 /\ rules[12].fits /\ \A i \in 1..12 : rules[i] \in PlanRule
  <2>1. PICK s, t : s = ForecastRules(question) /\ t = StoreRules(question)
    OBVIOUS
  <2>2. s \in Seq(PlanRule) /\ t \in Seq(PlanRule) /\ Len(s) = 5 /\ Len(t) = 7
    BY <2>1, ForecastRulesTyped, StoreRulesTyped
  <2>3. t[7].fits
    BY <2>1, StoreRulesTyped
  <2>4. rules = s \o t
    BY <1>0, <2>1
  <2>5. Len(rules) = 12 /\ rules[12] = t[7] /\ \A i \in 1..12 : rules[i] \in PlanRule
    BY <2>2, <2>4, JoinedRules
  <2> QED  BY <2>3, <2>5
<1>2. I # {} /\ I \in SUBSET (1..12)
  BY <1>1
<1>3. Min(I) \in I /\ Min(I) \in 1..12
  BY <1>2, LeastOf
<1>4. SelectInSeq(rules, LAMBDA r : r.fits) = Min(I)
  BY <1>2 DEF SelectInSeq
<1>5. Plan(question) = rules[Min(I)].tools
  BY <1>0, <1>4 DEF Plan
<1> QED  BY <1>1, <1>3, <1>5 DEF PlanRule

\* What the fields of a question may hold.
ChatTyped ==
    /\ chat.at \in {"idle", "refused", "tools", "calling", "answered"}
    /\ chat.permissions \subseteq Permissions
    /\ chat.plan \in Seq(Tools)
    /\ Len(chat.got) <= Len(chat.plan)
    /\ Len(chat.calls) <= CallsAllowed

LEMMA AssistantTyped == ChatInv /\ ChatTyped => AssistantTypeOK
<1> SUFFICES ASSUME ChatInv, ChatTyped PROVE AssistantTypeOK
  OBVIOUS
<1>1. Len(chat.calls) <= MaxPrimary + MaxFallback
  <2>1. MaxPrimary \in Nat /\ MaxFallback \in Nat
    BY AssistantAssumption
  <2>2. chat.calls \in Seq(Outcomes) /\ Len(chat.calls) \in Nat
    BY DEF ChatInv, ChatShape
  <2> QED  BY <2>1, <2>2 DEF ChatTyped, CallsAllowed
<1>2. \A i \in DOMAIN chat.plan : chat.plan[i] \in Tools
  BY DEF ChatTyped
<1> QED  BY <1>1, <1>2 DEF ChatInv, ChatShape, ChatTyped, AssistantTypeOK

\* A question that begins or ends has at most a plan.
LEMMA NewChatTyped ==
    ASSUME NEW at, NEW permissions, NEW context, NEW branch, NEW plan,
           chat = [at |-> at, permissions |-> permissions, context |-> context,
                   branch |-> branch, plan |-> plan, got |-> <<>>, calls |-> <<>>,
                   degraded |-> FALSE],
           at \in {"idle", "refused", "tools", "answered"},
           permissions \subseteq Permissions, plan \in Seq(Tools)
    PROVE  ChatTyped
<1>1. 0 <= CallsAllowed
  <2>1. MaxPrimary \in Nat /\ MaxFallback \in Nat
    BY AssistantAssumption
  <2> QED  BY <2>1 DEF CallsAllowed
<1> QED  BY <1>1 DEF ChatTyped

BareChat ==
    \E at, permissions, context, branch, plan :
        /\ chat = [at |-> at, permissions |-> permissions, context |-> context,
                   branch |-> branch, plan |-> plan, got |-> <<>>, calls |-> <<>>,
                   degraded |-> FALSE]
        /\ at \in {"idle", "refused", "tools", "answered"}
        /\ permissions \subseteq Permissions /\ plan \in Seq(Tools)

LEMMA BareChatTyped == BareChat => ChatTyped
  BY NewChatTyped DEF BareChat

LEMMA NothingPlanned == <<>> \in Seq(Tools)
  OBVIOUS

LEMMA ChatInitTyped == AssistantInit => ChatTyped
<1> SUFFICES ASSUME AssistantInit PROVE BareChat
  BY BareChatTyped
<1> QED  BY NothingPlanned DEF AssistantInit, NoChat, BareChat

LEMMA ChatTypedStep == ChatInv /\ ChatTyped /\ [AssistantNext]_assistantVars => ChatTyped'
<1> SUFFICES ASSUME ChatInv, ChatTyped, [AssistantNext]_assistantVars PROVE ChatTyped'
  OBVIOUS
<1>0. BareChat' => ChatTyped'
  <2>1. (BareChat => ChatTyped)'
    BY BareChatTyped, PTL
  <2> QED  BY <2>1
<1>1. CASE RefuseChat
  BY <1>0, <1>1, NothingPlanned DEF RefuseChat, NoChat, BareChat
<1>2. CASE TurnDown
  BY <1>0, <1>2, NothingPlanned DEF TurnDown, NoChat, BareChat
<1>3. CASE CloseChat
  BY <1>0, <1>3, NothingPlanned DEF CloseChat, NoChat, BareChat
<1>4. ASSUME NEW question, NEW permissions \in SUBSET Permissions, NEW branch,
             AskAssistant(question, permissions, branch)
      PROVE  ChatTyped'
  <2>1. PICK at, context, plan :
           /\ at = "tools" /\ plan = Plan(question)
           /\ chat' = [at |-> at, permissions |-> permissions, context |-> context,
                       branch |-> branch, plan |-> plan, got |-> <<>>, calls |-> <<>>,
                       degraded |-> FALSE]
    BY <1>4 DEF AskAssistant, NoChat
  <2>2. plan \in Seq(Tools)
    BY <2>1, PlanTyped
  <2>3. BareChat'
    BY <2>1, <2>2 DEF BareChat
  <2> QED  BY <1>0, <2>3
<1>5. CASE RunTool
  <2>1. PICK got :
           /\ chat' = [chat EXCEPT !.got = Append(@, got)]
           /\ Len(chat.got) < Len(chat.plan) /\ provider' = provider
    BY <1>5 DEF RunTool
  <2>2. /\ chat'.at = chat.at /\ chat'.permissions = chat.permissions
        /\ chat'.plan = chat.plan /\ chat'.calls = chat.calls
        /\ chat'.got = Append(chat.got, got)
    BY <2>1 DEF ChatInv, ChatShape
  <2>3. Len(chat'.got) = Len(chat.got) + 1 /\ Len(chat.got) \in Nat
    BY <2>2 DEF ChatInv, ChatShape
  <2>4. Len(chat.plan) \in Nat
    BY DEF ChatTyped
  <2> QED  BY <2>1, <2>2, <2>3, <2>4 DEF ChatTyped, CallsAllowed
<1>6. CASE ToolsDone
  <2>1. /\ chat'.permissions = chat.permissions /\ chat'.plan = chat.plan
        /\ chat'.calls = chat.calls /\ chat'.got = chat.got
        /\ chat'.at \in {"calling", "answered"} /\ provider' = provider
    BY <1>6 DEF ToolsDone, ChatInv, ChatShape
  <2> QED  BY <2>1 DEF ChatTyped, CallsAllowed
<1>7. ASSUME NEW outcome \in Outcomes, CallModel(outcome)
      PROVE  ChatTyped'
  <2>1. PICK calls : calls = Append(chat.calls, outcome)
    OBVIOUS
  <2>2. /\ chat'.permissions = chat.permissions /\ chat'.plan = chat.plan
        /\ chat'.calls = calls /\ chat'.got = chat.got /\ chat'.at = AfterCalls(calls)
        /\ provider' = provider /\ chat.at = "calling"
    BY <1>7, <2>1 DEF CallModel, ChatInv, ChatShape
  <2>3. AfterCalls(calls) \in {"calling", "answered"}
    BY DEF AfterCalls
  <2>4. Len(calls) <= CallsAllowed
    <3>1. Len(chat.calls) < CallsAllowed
      BY <2>2 DEF ChatInv, CallsInOrder, CallsAgain
    <3>2. CallsAllowed \in Nat
      BY AssistantAssumption DEF CallsAllowed
    <3>3. Len(calls) = Len(chat.calls) + 1 /\ Len(chat.calls) \in Nat
      BY <2>1 DEF ChatInv, ChatShape
    <3> QED  BY <3>1, <3>2, <3>3
  <2> QED  BY <2>2, <2>3, <2>4 DEF ChatTyped, CallsAllowed
<1>8. CASE UNCHANGED assistantVars
  BY <1>8 DEF assistantVars, ChatTyped, CallsAllowed
<1> QED  BY <1>1, <1>2, <1>3, <1>4, <1>5, <1>6, <1>7, <1>8 DEF AssistantNext, AnswerStep

-----------------------------------------------------------------------------
(* The types of the three services.  For promotions: what the rows hold.   *)

Bargain == [rule : Rules, terms : Nat]
Edit == [op : {"start"}, rule : Rules, value : Starts, since : Starts, read : Nat]
    \cup [op : {"end"}, rule : Rules, value : Ends, since : Starts, read : Nat]
    \cup [op : {"remove"}, rule : Rules, since : Starts]
Announcement == [times : Nat, terms : Nat]

PromotionsTyped ==
    /\ clock \in Starts
    /\ rule \in [Rules -> DiscountRule]
    /\ edit \in [Editors -> {NoEdit} \cup Edit]
    /\ cart \in {NoCart} \cup Bargain
    /\ applications \subseteq Bargain
    /\ toLaunch \subseteq Bargain
    /\ launched \in [Rules -> Announcement]
    /\ moved \in [Rules -> Nat]

\* The worker's round and the histories.
RoundsTyped ==
    /\ phase \in {"idle", "launching", "delivering"}
    /\ tardy \subseteq Rules /\ overlaid \subseteq Rules

LEMMA PromotionsInitTyped == PromotionsInit => PromotionsTyped /\ RoundsTyped
<1> SUFFICES ASSUME PromotionsInit PROVE PromotionsTyped /\ RoundsTyped
  OBVIOUS
<1> USE PromotionsAssumption DEF PromotionsInit
<1>1. \A r \in Rules : rule[r] \in DiscountRule
  <2>1. NoRule \in DiscountRule
    BY DEF DiscountRule, NoRule, Never, Starts, Ends
  <2>2. [NoRule EXCEPT !.there = TRUE, !.status = "ACTIVE"] \in DiscountRule
    BY <2>1 DEF DiscountRule
  <2> QED BY <2>1, <2>2
<1>2. PromotionsTyped
  BY <1>1 DEF PromotionsTyped, Starts, Announcement
<1> QED BY <1>2 DEF RoundsTyped

\* What an edit of a date makes of a rule.
LEMMA EditedRow ==
    ASSUME NEW old \in DiscountRule, NEW e \in Edit, e.op \in {"start", "end"}
    PROVE  /\ Edited(old, e) \in DiscountRule
           /\ Edited(old, e).there = old.there
           /\ Edited(old, e).start = IF e.op = "start" THEN e.value ELSE old.start
           /\ Edited(old, e).end = IF e.op = "end" THEN e.value ELSE old.end
           /\ Edited(old, e).terms = old.terms + 1
<1>1. ASSUME NEW entry \in DiscountRule
      PROVE  [entry EXCEPT !.terms = @ + 1] \in DiscountRule
  BY DEF DiscountRule
<1>2. ASSUME NEW entry \in DiscountRule, NEW b \in BOOLEAN
      PROVE  [entry EXCEPT !.notified = b] \in DiscountRule
  BY DEF DiscountRule
<1>3. CASE e.op = "start"
  <2> DEFINE mark == old.notified /\ FALSE
  <2>1. Edited(old, e) = [old EXCEPT !.start = e.value, !.terms = @ + 1, !.notified = mark]
    BY <1>3 DEF Edited
  <2>2. e.value \in Starts /\ mark \in BOOLEAN
    BY <1>3 DEF Edit
  <2> HIDE DEF mark
  <2>3. ASSUME NEW b \in BOOLEAN
        PROVE  [old EXCEPT !.start = e.value, !.terms = @ + 1, !.notified = b] \in DiscountRule
    <3>1. [old EXCEPT !.start = e.value] \in DiscountRule
      BY <2>2 DEF DiscountRule
    <3> QED BY <3>1, <1>1, <1>2
  <2>4. Edited(old, e) \in DiscountRule
    BY <2>1, <2>2, <2>3
  <2>5. /\ Edited(old, e).there = old.there /\ Edited(old, e).start = e.value
        /\ Edited(old, e).end = old.end /\ Edited(old, e).terms = old.terms + 1
    BY <2>1 DEF DiscountRule
  <2> QED BY <1>3, <2>4, <2>5
<1>4. CASE e.op = "end"
  <2> DEFINE mark == old.notified /\ TRUE
  <2>1. Edited(old, e) = [old EXCEPT !.end = e.value, !.terms = @ + 1, !.notified = mark]
    BY <1>4 DEF Edited
  <2>2. e.value \in Ends /\ mark \in BOOLEAN
    BY <1>4 DEF Edit
  <2> HIDE DEF mark
  <2>3. ASSUME NEW b \in BOOLEAN
        PROVE  [old EXCEPT !.end = e.value, !.terms = @ + 1, !.notified = b] \in DiscountRule
    <3>1. [old EXCEPT !.end = e.value] \in DiscountRule
      BY <2>2 DEF DiscountRule
    <3> QED BY <3>1, <1>1, <1>2
  <2>4. Edited(old, e) \in DiscountRule
    BY <2>1, <2>2, <2>3
  <2>5. /\ Edited(old, e).there = old.there /\ Edited(old, e).end = e.value
        /\ Edited(old, e).start = old.start /\ Edited(old, e).terms = old.terms + 1
    BY <2>1 DEF DiscountRule
  <2> QED BY <1>4, <2>4, <2>5
<1> QED BY <1>3, <1>4

\* The rows of promotions keep their shape.
LEMMA PromotionsTypedStep ==
    ASSUME PromotionsTyped, [PromotionsNext]_promotionVars
    PROVE  PromotionsTyped'
<1> USE PromotionsAssumption DEF PromotionsTyped
<1>1. ASSUME NEW r \in Editable, NEW start \in Starts, NEW end \in Ends,
             CreateRule(r, start, end)
      PROVE  PromotionsTyped'
  BY <1>1 DEF CreateRule, NoRule, DiscountRule, worker, till
<1>2. ASSUME NEW r \in Editable, NEW status \in {"ACTIVE", "INACTIVE"}, SetStatus(r, status)
      PROVE  PromotionsTyped'
  BY <1>2 DEF SetStatus, DiscountRule, worker, till
<1>3. ASSUME NEW k \in Editors, NEW e \in Edit, Note(k, e)
      PROVE  PromotionsTyped'
  BY <1>3 DEF Note, worker, till
<1>4. ASSUME NEW k \in Editors, CommitEdit(k)
      PROVE  PromotionsTyped'
  <2>1. edit[k] \in Edit /\ edit[k].op \in {"start", "end"} /\ edit[k].rule \in Rules
    BY <1>4 DEF CommitEdit, NoEdit, Edit
  <2>2. Edited(rule[edit[k].rule], edit[k]) \in DiscountRule
    BY <2>1, EditedRow
  <2> QED BY <1>4, <2>1, <2>2 DEF CommitEdit, worker, till
<1>5. ASSUME NEW k \in Editors, CommitRemoval(k)
      PROVE  PromotionsTyped'
  BY <1>5 DEF CommitRemoval, DiscountRule, worker, till
<1>6. ASSUME NEW k \in Editors, RefuseEdit(k)
      PROVE  PromotionsTyped'
  BY <1>6 DEF RefuseEdit, worker, till
<1>7. ASSUME NEW r \in Rules, Price(r)
      PROVE  PromotionsTyped'
  BY <1>7 DEF Price, Bargain, DiscountRule, office, worker
<1>8. ASSUME NEW done \in BOOLEAN, Sell(done)
      PROVE  PromotionsTyped'
  BY <1>8 DEF Sell, office, worker
<1>9. CASE StartRound
  BY <1>9 DEF StartRound, Bargain, DiscountRule, office, till
<1>10. ASSUME NEW b \in toLaunch, Launch(b)
       PROVE  PromotionsTyped'
  <2>1. b.rule \in Rules /\ b.terms \in Nat
    BY DEF Bargain
  <2>2. rule' \in [Rules -> DiscountRule]
    <3>1. rule[b.rule] \in DiscountRule
      BY <2>1
    <3>2. [rule[b.rule] EXCEPT !.notified = TRUE] \in DiscountRule
      BY <3>1 DEF DiscountRule
    <3>3. rule' = [rule EXCEPT ![b.rule] = [rule[b.rule] EXCEPT !.notified = TRUE]]
      BY <1>10 DEF Launch
    <3> QED  BY <2>1, <3>2, <3>3
  <2>3. launched' \in [Rules -> Announcement]
    BY <1>10, <2>1 DEF Launch, Announcement
  <2> QED BY <1>10, <2>2, <2>3 DEF Launch, till
<1>11. ASSUME NEW b \in toLaunch, FailLaunch(b)
       PROVE  PromotionsTyped'
  BY <1>11 DEF FailLaunch, office, till
<1>12. CASE Deliver \/ EndRound
  BY <1>12 DEF Deliver, EndRound, office, till
<1>13. CASE Tick
  BY <1>13 DEF Tick, Starts, office, worker, till
<1>14. CASE UNCHANGED promotionVars
  BY <1>14 DEF promotionVars
<1>15. CASE \E k \in Editors, r \in Editable :
               \/ \E start \in Starts : BeginStart(k, r, start)
               \/ \E end \in Ends : BeginEnd(k, r, end)
               \/ BeginRemoval(k, r)
  BY <1>3, <1>15 DEF BeginStart, BeginEnd, BeginRemoval, Edit, DiscountRule
<1> QED
  BY <1>1, <1>2, <1>4, <1>5, <1>6, <1>7, <1>8, <1>9, <1>10, <1>11, <1>12, <1>13, <1>14, <1>15
  DEF PromotionsNext, WorkerStep

LEMMA RoundsTypedStep ==
    ASSUME PromotionsTyped, RoundsTyped, [PromotionsNext]_promotionVars
    PROVE  RoundsTyped'
<1> USE PromotionsAssumption DEF RoundsTyped
<1>1. ASSUME UNCHANGED <<tardy, overlaid>>,
             UNCHANGED worker \/ phase' \in {"idle", "launching", "delivering"}
      PROVE  RoundsTyped'
  BY <1>1 DEF worker
<1>2. ASSUME NEW k \in Editors, CommitEdit(k)
      PROVE  RoundsTyped'
  <2>1. edit[k].rule \in Rules
    BY <1>2 DEF CommitEdit, NoEdit, Edit, PromotionsTyped
  <2> QED  BY <1>2, <2>1 DEF CommitEdit, Written, worker
<1>3. ASSUME NEW k \in Editors, CommitRemoval(k)
      PROVE  RoundsTyped'
  <2>1. edit[k].rule \in Rules
    BY <1>3 DEF CommitRemoval, NoEdit, Edit, PromotionsTyped
  <2> QED  BY <1>3, <2>1 DEF CommitRemoval, Written, worker
<1>4. ASSUME NEW b \in toLaunch, FailLaunch(b)
      PROVE  RoundsTyped'
  BY <1>4 DEF FailLaunch, AfterFailure, office
<1>5. CASE \/ \E r \in Editable, start \in Starts, end \in Ends : CreateRule(r, start, end)
           \/ \E r \in Editable, status \in {"ACTIVE", "INACTIVE"} : SetStatus(r, status)
           \/ \E k \in Editors, r \in Editable :
                 \/ \E start \in Starts : BeginStart(k, r, start)
                 \/ \E end \in Ends : BeginEnd(k, r, end)
                 \/ BeginRemoval(k, r)
           \/ \E k \in Editors : RefuseEdit(k)
           \/ \E r \in Rules : Price(r)
           \/ \E done \in BOOLEAN : Sell(done)
           \/ Tick
  BY <1>1, <1>5 DEF CreateRule, SetStatus, BeginStart, BeginEnd, BeginRemoval, Note, RefuseEdit,
                    Price, Sell, Tick, office
<1>6. CASE StartRound \/ Deliver \/ EndRound \/ \E b \in toLaunch : Launch(b)
  BY <1>1, <1>6 DEF StartRound, Deliver, EndRound, Launch, office
<1>7. CASE UNCHANGED promotionVars
  BY <1>1, <1>7 DEF promotionVars, worker
<1> QED
  BY <1>2, <1>3, <1>4, <1>5, <1>6, <1>7 DEF PromotionsNext, WorkerStep

LEMMA PromotionsTypes == PromotionsTyped /\ RoundsTyped => PromotionsTypeOK
<1> SUFFICES ASSUME PromotionsTyped, RoundsTyped PROVE PromotionsTypeOK
  OBVIOUS
<1>1. \A k \in Editors : EditOK(edit[k])
  BY DEF PromotionsTyped, EditOK, Edit
<1>2. \A r \in Rules : launched[r].times \in Nat /\ launched[r].terms \in Nat
  BY DEF PromotionsTyped, Announcement
<1> QED  BY <1>1, <1>2 DEF PromotionsTyped, RoundsTyped, PromotionsTypeOK, Bargain, Starts

-----------------------------------------------------------------------------
(* For offline sales: what a submission counts are operations of its batch. *)

\* The operations that are counted, to be done or being done are the batch's.
WorkCounted(p) ==
    LET r == post[p] IN
    r.applied + r.rejected + Cardinality(r.todo) + (IF r.stage \in {"sold", "refused"} THEN 1 ELSE 0)
        = Cardinality(Contents[r.batch])

SyncTyped ==
    /\ \A p \in Posts : post[p] # Idle => WorkCounted(p)
    /\ faults \in 0..MaxFaults
    /\ cut \subseteq Batches

LEMMA SyncInitTyped == Init => SyncTyped
  BY SyncAssumption DEF Init, SyncTyped

\* The counts of a submission are numbers.
LEMMA CountsAreNumbers ==
    ASSUME RowsOK, NEW p \in Posts, post[p] # Idle
    PROVE  /\ post[p] \in PostRow /\ post[p].batch \in Batches
           /\ post[p].applied \in Nat /\ post[p].rejected \in Nat
           /\ IsFiniteSet(post[p].todo) /\ Cardinality(post[p].todo) \in Nat
           /\ Cardinality(Contents[post[p].batch]) \in Nat
<1>1. post[p] \in PostRow /\ post[p].batch \in Batches
  BY DEF RowsOK, PostRow
<1>2. post[p].todo \subseteq Contents[post[p].batch] /\ IsFiniteSet(Contents[post[p].batch])
  BY <1>1, SyncAssumption DEF RowsOK
<1>3. IsFiniteSet(post[p].todo)
  BY <1>2, FS_Subset
<1> QED  BY <1>1, <1>2, <1>3, FS_CardinalityType DEF PostRow

\* A submission that keeps its counts, its batch and what it has to do.
LEMMA SyncKeeps ==
    ASSUME SyncTyped, faults' \in 0..MaxFaults, cut' \subseteq Batches,
           \A p \in Posts : post'[p] # Idle =>
               post'[p] = post[p] \/ WorkCounted(p)'
    PROVE  SyncTyped'
  BY DEF SyncTyped, WorkCounted

LEMMA SyncTypedStep ==
    ASSUME RowsOK, RowsOK', SyncTyped, [Next]_vars
    PROVE  SyncTyped'
<1>0. MaxFaults \in Nat
  BY SyncAssumption
<1>1. ASSUME NEW p \in Posts, NEW b \in Batches, Submit(p, b)
      PROVE  SyncTyped'
  <2>1. /\ post'[p].stage = "checked" /\ post'[p].batch = b /\ post'[p].todo = Contents[b]
        /\ post'[p].applied = 0 /\ post'[p].rejected = 0
        /\ \A q \in Posts \ {p} : post'[q] = post[q]
        /\ UNCHANGED <<faults, cut>>
    BY <1>1 DEF Submit, RowsOK
  <2>2. Cardinality(Contents[b]) \in Nat
    BY SyncAssumption, FS_CardinalityType
  <2>3. WorkCounted(p)'
    BY <2>1, <2>2 DEF WorkCounted
  <2> QED  BY <2>1, <2>3, SyncKeeps DEF SyncTyped
<1>2. ASSUME NEW p \in Posts, CreateBatch(p) \/ StartBatch(p) \/ FailAfterSale(p)
      PROVE  SyncTyped'
  <2>1. post[p] # Idle
    BY <1>2 DEF CreateBatch, StartBatch, FailAfterSale, Idle
  <2>2. post[p] \in PostRow /\ WorkCounted(p)
    BY <2>1, CountsAreNumbers DEF SyncTyped
  <2>3. /\ post'[p].batch = post[p].batch /\ post'[p].todo = post[p].todo
        /\ post'[p].applied = post[p].applied /\ post'[p].rejected = post[p].rejected
        /\ post'[p].stage \in {"sold", "refused"} <=> post[p].stage \in {"sold", "refused"}
        /\ \A q \in Posts \ {p} : post'[q] = post[q]
        /\ cut' = cut
    BY <1>2, <2>2 DEF CreateBatch, StartBatch, FailAfterSale, RowsOK, PostRow
  <2>4. faults' \in 0..MaxFaults
    BY <1>0, <1>2 DEF CreateBatch, StartBatch, FailAfterSale, SyncTyped
  <2>5. WorkCounted(p)'
    BY <2>2, <2>3 DEF WorkCounted
  <2> QED  BY <2>3, <2>4, <2>5, SyncKeeps DEF SyncTyped
<1>3. ASSUME NEW p \in Posts, NEW o \in Operations, NEW committed \in BOOLEAN,
             Execute(p, o, committed)
      PROVE  SyncTyped'
  <2>1. post[p] # Idle
    BY <1>3 DEF Execute, Idle
  <2>2. post[p] \in PostRow /\ WorkCounted(p) /\ IsFiniteSet(post[p].todo)
        /\ post[p].applied \in Nat /\ post[p].rejected \in Nat
        /\ Cardinality(post[p].todo) \in Nat
    BY <2>1, CountsAreNumbers DEF SyncTyped
  <2>3. /\ post'[p].batch = post[p].batch /\ post'[p].todo = post[p].todo \ {o}
        /\ post'[p].applied = post[p].applied /\ post'[p].rejected = post[p].rejected
        /\ post'[p].stage \in {"sold", "refused"} /\ post[p].stage = "running"
        /\ \A q \in Posts \ {p} : post'[q] = post[q]
        /\ UNCHANGED <<faults, cut>>
    BY <1>3, <2>2 DEF Execute, RowsOK, PostRow
  <2>4. Cardinality(post'[p].todo) = Cardinality(post[p].todo) - 1
    BY <1>3, <2>2, <2>3, FS_RemoveElement DEF Execute
  <2>5. WorkCounted(p)'
    BY <2>2, <2>3, <2>4 DEF WorkCounted
  <2> QED  BY <2>3, <2>5, SyncKeeps DEF SyncTyped
<1>4. ASSUME NEW p \in Posts, RecordApplied(p) \/ RecordRejected(p)
      PROVE  SyncTyped'
  <2>1. post[p] # Idle
    BY <1>4 DEF RecordApplied, RecordRejected, Idle
  <2>2. post[p] \in PostRow /\ WorkCounted(p)
        /\ post[p].applied \in Nat /\ post[p].rejected \in Nat
        /\ Cardinality(post[p].todo) \in Nat
    BY <2>1, CountsAreNumbers DEF SyncTyped
  <2>3. /\ post'[p].batch = post[p].batch /\ post'[p].todo = post[p].todo
        /\ post'[p].applied + post'[p].rejected = post[p].applied + post[p].rejected + 1
        /\ post'[p].applied \in Nat /\ post'[p].rejected \in Nat
        /\ post'[p].stage = "running" /\ post[p].stage \in {"sold", "refused"}
        /\ \A q \in Posts \ {p} : post'[q] = post[q]
        /\ UNCHANGED <<faults, cut>>
    BY <1>4, <2>2 DEF RecordApplied, RecordRejected, CountRejected, RowsOK, PostRow
  <2>4. WorkCounted(p)'
    BY <2>2, <2>3 DEF WorkCounted
  <2> QED  BY <2>3, <2>4, SyncKeeps DEF SyncTyped
<1>5. ASSUME NEW p \in Posts, RefuseBatch(p) \/ FinishBatch(p)
      PROVE  SyncTyped'
  BY <1>5, SyncKeeps DEF RefuseBatch, FinishBatch, RowsOK, SyncTyped
<1>6. ASSUME NEW p \in Posts, Stop(p)
      PROVE  SyncTyped'
  <2>1. post[p].batch \in Batches
    BY <1>6, CountsAreNumbers DEF Stop
  <2>2. faults' \in 0..MaxFaults /\ cut' \subseteq Batches
    BY <1>0, <1>6, <2>1 DEF Stop, SyncTyped
  <2> QED  BY <1>6, <2>2, SyncKeeps DEF Stop, RowsOK
<1>7. CASE UNCHANGED vars
  BY <1>7, SyncKeeps DEF vars, SyncTyped
<1> QED
  BY <1>1, <1>2, <1>3, <1>4, <1>5, <1>6, <1>7 DEF Next, Continue

LEMMA SyncTypes == RowsOK /\ SlipInv /\ SyncTyped => TypeOK
<1> SUFFICES ASSUME RowsOK, SlipInv, SyncTyped PROVE TypeOK
  OBVIOUS
<1>1. ASSUME NEW p \in Posts, post[p] # Idle
      PROVE  PostOK(post[p])
  <2>1. /\ post[p] \in PostRow
        /\ post[p].applied \in Nat /\ post[p].rejected \in Nat
        /\ Cardinality(post[p].todo) \in Nat /\ Cardinality(Contents[post[p].batch]) \in Nat
    BY <1>1, CountsAreNumbers
  <2>2. post[p].applied + post[p].rejected <= Cardinality(Contents[post[p].batch])
    BY <1>1, <2>1 DEF SyncTyped, WorkCounted
  <2> QED  BY <1>1, <2>1, <2>2 DEF PostOK, PostRow, RowsOK
<1>2. \A p \in Posts : PostOK(post[p])
  BY <1>1 DEF PostOK
<1>3. disturbed \subseteq Operations
  BY DEF SlipInv
<1> QED  BY <1>2, <1>3 DEF RowsOK, SyncTyped, TypeOK

-----------------------------------------------------------------------------
(* The services together.  A step of one is a stutter of the others.       *)

LEMMA ServicesStart == ServicesInit => PromotionsInit /\ Init /\ AssistantInit
  BY DEF ServicesInit

LEMMA ServicesStep ==
    [ServicesNext]_servicesVars =>
        [PromotionsNext]_promotionVars /\ [Next]_vars /\ [AssistantNext]_assistantVars
<1> SUFFICES ASSUME [ServicesNext]_servicesVars
             PROVE  [PromotionsNext]_promotionVars /\ [Next]_vars /\ [AssistantNext]_assistantVars
  OBVIOUS
<1>1. CASE ServicesNext
  BY <1>1 DEF ServicesNext
<1>2. CASE UNCHANGED servicesVars
  BY <1>2 DEF servicesVars
<1> QED  BY <1>1, <1>2

\* What is known of the services' types, one conjunct for each of them.
TypesInv ==
    /\ PromotionsTyped /\ RoundsTyped
    /\ Inv /\ TruthInv /\ SlipInv /\ SyncTyped
    /\ ChatInv /\ ChatTyped

LEMMA TypesStart == ServicesInit => TypesInv
  BY ServicesStart, PromotionsInitTyped, InitInv, InitTruthInv, InitSlipInv, SyncInitTyped,
     ChatInitInv, ChatInitTyped
  DEF TypesInv

LEMMA TypesStep == TypesInv /\ [ServicesNext]_servicesVars => TypesInv'
<1> SUFFICES ASSUME TypesInv, [ServicesNext]_servicesVars PROVE TypesInv'
  OBVIOUS
<1>1. [PromotionsNext]_promotionVars /\ [Next]_vars /\ [AssistantNext]_assistantVars
  BY ServicesStep
<1>2. PromotionsTyped' /\ RoundsTyped'
  BY <1>1, PromotionsTypedStep, RoundsTypedStep DEF TypesInv
<1>3. Inv' /\ TruthInv' /\ SlipInv'
  BY <1>1, InvStep, TruthStep, SlipStep DEF TypesInv
<1>4. SyncTyped'
  BY <1>1, <1>3, SyncTypedStep DEF TypesInv, Inv
<1>5. ChatInv' /\ ChatTyped'
  BY <1>1, ChatInvStep, ChatTypedStep DEF TypesInv
<1> QED  BY <1>2, <1>3, <1>4, <1>5 DEF TypesInv

\* Every row, request, count and question of the services is what its type
\* says, whichever of them is followed; a submission counts no more outcomes
\* than its batch has operations, an answer no more calls than are allowed.
THEOREM ServicesTypeCorrect == ServicesSpec => []ServicesTypeOK
<1>1. TypesInv => ServicesTypeOK
  BY PromotionsTypes, SyncTypes, AssistantTyped DEF TypesInv, Inv, ServicesTypeOK
<1> QED  BY TypesStart, TypesStep, <1>1, PTL DEF ServicesSpec

\* Together, too, the services sell an offline sale once, settle what they
\* received as Settlement promises, say of it what is true and answer
\* truthfully.
THEOREM ServicesAreSafe ==
    ServicesSpec => /\ [](SoldAtMostOnce /\ StatusesTellTruth /\ AnswerTellsTruth)
                    /\ SettlesAsPromised
<1>1. TypesInv => SoldAtMostOnce /\ StatusesTellTruth /\ AnswerTellsTruth
  BY TruthTold, ChatTold DEF Inv, TypesInv
<1>2. ServicesInit => Settles!SettlementInit
  BY ServicesStart, SettlementStarts
<1>3. TypesInv /\ [ServicesNext]_servicesVars => [Settles!SettlementNext]_Settles!settlementVars
  BY ServicesStep, SettlementStep DEF TypesInv
<1> QED  BY TypesStart, TypesStep, <1>1, <1>2, <1>3, PTL
         DEF ServicesSpec, SettlesAsPromised, Settles!SettlementSpec
=============================================================================
