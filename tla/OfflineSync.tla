----------------------------- MODULE OfflineSync -----------------------------
(***************************************************************************)
(* The synchronization of sales made offline (offline-sync.service.ts): a  *)
(* device submits a batch of operations, again when it gets no answer, and *)
(* the same operation may come in another batch.                           *)
(*                                                                         *)
(* submit is not one transaction: the batch row, every sale and every      *)
(* operation's outcome commit on their own, so two submissions interleave  *)
(* and one can be cut short anywhere.                                      *)
(***************************************************************************)
EXTENDS Integers, FiniteSets

CONSTANTS
    Operations,  \* the client's operation identifiers
    Batches,     \* its batch identifiers
    Contents,    \* [Batches -> SUBSET Operations]
    Posts,       \* the submissions served at one time
    None,        \* no operation
    MaxFaults    \* bound: how often something fails that was not refused

ASSUME SyncAssumption ==
    /\ Contents \in [Batches -> SUBSET Operations]
    /\ \A b \in Batches : Contents[b] # {} /\ IsFiniteSet(Contents[b])
    /\ None \notin Operations
    /\ MaxFaults \in Nat

VARIABLES
    batch,      \* OfflineSyncBatch.status
    operation,  \* OfflineSyncOperation.status
    sold,       \* the sales an operation has created
    post,       \* the submission in progress
    faults,     \* how often something failed
    disturbed,  \* history: operations that failed after their sale had committed
    cut         \* history: batches whose submission was cut short

vars == <<batch, operation, sold, post, faults, disturbed, cut>>

Final == {"COMPLETED", "PARTIALLY_FAILED", "FAILED"}
BatchStatus == {"NONE", "RECEIVED", "PROCESSING"} \cup Final
OperationStatus == {"NONE", "PENDING", "APPLIED", "REJECTED"}

Idle == [stage |-> "idle"]
PostOK(p) ==
    \/ p = Idle
    \/ /\ p.stage \in {"checked", "created", "running", "sold", "refused"}
       /\ p.batch \in Batches
       /\ p.todo \subseteq Contents[p.batch]
       /\ p.doing \in Operations \cup {None}
       /\ {p.applied, p.rejected} \subseteq Nat
       /\ p.applied + p.rejected <= Cardinality(Contents[p.batch])

TypeOK ==
    /\ batch \in [Batches -> BatchStatus]
    /\ operation \in [Operations -> OperationStatus]
    /\ sold \in [Operations -> Nat]
    /\ DOMAIN post = Posts /\ \A p \in Posts : PostOK(post[p])
    /\ faults \in 0..MaxFaults
    /\ disturbed \subseteq Operations
    /\ cut \subseteq Batches

Init ==
    /\ batch = [b \in Batches |-> "NONE"]
    /\ operation = [o \in Operations |-> "NONE"]
    /\ sold = [o \in Operations |-> 0]
    /\ post = [p \in Posts |-> Idle]
    /\ faults = 0
    /\ disturbed = {}
    /\ cut = {}

-----------------------------------------------------------------------------

\* Fault: operation identifiers are only unique within a batch.
NewBatch(b) == batch[b] = "NONE"

\* Neither the batch's identifier nor one of its operations' is in use.
New(b) == batch[b] = "NONE" /\ \A o \in Contents[b] : operation[o] = "NONE"

\* A batch that exists is answered with what is stored, which changes nothing.
Submit(p, b) ==
    /\ post[p] = Idle
    /\ New(b)
    /\ post' = [post EXCEPT ![p] = [stage |-> "checked", batch |-> b, todo |-> Contents[b],
                                   doing |-> None, applied |-> 0, rejected |-> 0]]
    /\ UNCHANGED <<batch, operation, sold, faults, disturbed, cut>>

\* The rows are created together; both identifiers are unique.
CreateBatch(p) ==
    LET b == post[p].batch IN
    /\ post[p].stage = "checked"
    /\ New(b)
    /\ batch' = [batch EXCEPT ![b] = "RECEIVED"]
    /\ operation' = [o \in Operations |-> IF o \in Contents[b] THEN "PENDING" ELSE operation[o]]
    /\ post' = [post EXCEPT ![p].stage = "created"]
    /\ UNCHANGED <<sold, faults, disturbed, cut>>

\* P2002: "Batch or operation identifier already exists."
RefuseBatch(p) ==
    /\ post[p].stage = "checked"
    /\ ~New(post[p].batch)
    /\ post' = [post EXCEPT ![p] = Idle]
    /\ UNCHANGED <<batch, operation, sold, faults, disturbed, cut>>

StartBatch(p) ==
    /\ post[p].stage = "created"
    /\ batch' = [batch EXCEPT ![post[p].batch] = "PROCESSING"]
    /\ post' = [post EXCEPT ![p].stage = "running"]
    /\ UNCHANGED <<operation, sold, faults, disturbed, cut>>

\* execute: the sale's transaction commits or the sale is refused.
Execute(p, o, committed) ==
    /\ post[p].stage = "running"
    /\ o \in post[p].todo
    /\ sold' = [sold EXCEPT ![o] = IF committed THEN @ + 1 ELSE @]
    /\ post' = [post EXCEPT ![p].doing = o, ![p].todo = @ \ {o},
                            ![p].stage = IF committed THEN "sold" ELSE "refused"]
    /\ UNCHANGED <<batch, operation, faults, disturbed, cut>>

\* The sale's audit event or the operation's update fails: the handler cannot
\* tell this from a sale that was refused.
FailAfterSale(p) ==
    /\ post[p].stage = "sold"
    /\ faults < MaxFaults
    /\ faults' = faults + 1
    /\ disturbed' = disturbed \cup {post[p].doing}
    /\ post' = [post EXCEPT ![p].stage = "refused"]
    /\ UNCHANGED <<batch, operation, sold, cut>>

RecordApplied(p) ==
    /\ post[p].stage = "sold"
    /\ operation' = [operation EXCEPT ![post[p].doing] = "APPLIED"]
    /\ post' = [post EXCEPT ![p].stage = "running", ![p].doing = None, ![p].applied = @ + 1]
    /\ UNCHANGED <<batch, sold, faults, disturbed, cut>>

\* Fault: the catch clause forgets to count.
Uncounted(rejected) == rejected

\* Fault: it counts what the loop counts again.
CountedTwice(rejected) == rejected + 2

CountRejected(rejected) == rejected + 1

RecordRejected(p) ==
    /\ post[p].stage = "refused"
    /\ operation' = [operation EXCEPT ![post[p].doing] = "REJECTED"]
    /\ post' = [post EXCEPT ![p].stage = "running", ![p].doing = None,
                            ![p].rejected = CountRejected(@)]
    /\ UNCHANGED <<batch, sold, faults, disturbed, cut>>

Outcome(applied, rejected) ==
    IF rejected = 0 THEN "COMPLETED"
    ELSE IF applied = 0 THEN "FAILED"
    ELSE "PARTIALLY_FAILED"

\* Fault: a batch of which something failed is left as it is.
FinishedAll(p) == post[p].todo = {} /\ post[p].rejected = 0

Finished(p) == post[p].todo = {}

FinishBatch(p) ==
    /\ post[p].stage = "running"
    /\ Finished(p)
    /\ batch' = [batch EXCEPT ![post[p].batch] = Outcome(post[p].applied, post[p].rejected)]
    /\ post' = [post EXCEPT ![p] = Idle]
    /\ UNCHANGED <<operation, sold, faults, disturbed, cut>>

\* The process stops, or a statement outside the try fails.
Stop(p) ==
    /\ post[p] # Idle
    /\ faults < MaxFaults
    /\ faults' = faults + 1
    /\ cut' = IF post[p].stage = "checked" THEN cut ELSE cut \cup {post[p].batch}
    /\ post' = [post EXCEPT ![p] = Idle]
    /\ UNCHANGED <<batch, operation, sold, disturbed>>

Continue(p) ==
    \/ CreateBatch(p) \/ RefuseBatch(p) \/ StartBatch(p)
    \/ \E o \in Operations, committed \in BOOLEAN : Execute(p, o, committed)
    \/ RecordApplied(p) \/ RecordRejected(p) \/ FinishBatch(p)

Next == \E p \in Posts :
    \/ \E b \in Batches : Submit(p, b)
    \/ Continue(p) \/ FailAfterSale(p) \/ Stop(p)

\* A submission goes on until it is cut short.  Nothing makes a device submit.
Fairness == \A p \in Posts : WF_vars(Continue(p))

Spec == Init /\ [][Next]_vars /\ Fairness

-----------------------------------------------------------------------------

\* Whatever is submitted again, overlaps or is cut short, an operation sells at
\* most once.
SoldAtMostOnce == \A o \in Operations : sold[o] <= 1

\* The statuses a device can read tell what happened: APPLIED is a sale,
\* REJECTED is none unless it failed after the sale, and a batch's final status
\* follows its operations, all of which have an outcome; an unfinished one is
\* being worked on or was cut short.
StatusesTellTruth ==
    /\ \A o \in Operations :
        /\ operation[o] = "APPLIED" => sold[o] = 1
        /\ operation[o] = "REJECTED" /\ o \notin disturbed => sold[o] = 0
    /\ \A b \in Batches :
        LET statuses == {operation[o] : o \in Contents[b]} IN
        /\ batch[b] = "COMPLETED" => statuses = {"APPLIED"}
        /\ batch[b] = "FAILED" => statuses = {"REJECTED"}
        /\ batch[b] = "PARTIALLY_FAILED" => statuses = {"APPLIED", "REJECTED"}
        /\ batch[b] \in {"RECEIVED", "PROCESSING"} =>
              b \in cut \/ \E p \in Posts : post[p] # Idle /\ post[p].batch = b

\* What a device can tell of a batch: that it was received, and the verdict.
Receipt(status) ==
    CASE status = "NONE" -> "none"
      [] status \in {"RECEIVED", "PROCESSING"} -> "open"
      [] status \in Final -> status

Settles == INSTANCE Settlement WITH
    receipt <- [b \in Batches |-> Receipt(batch[b])],
    answer <- operation,
    sales <- sold,
    slipped <- disturbed

\* Submissions that overlap, repeat each other, fail and are cut short settle
\* batches as Settlement promises it: a sale is made between the receipt of its
\* operation and the answer, once, and what was answered stays so.
SettlesAsPromised == Settles!SettlementSpec

\* A batch that was received is finished, unless its submission is cut short;
\* then no later submission takes it up.
BatchesSettle ==
    \A b \in Batches : batch[b] = "RECEIVED" ~> batch[b] \in Final \/ b \in cut
=============================================================================
