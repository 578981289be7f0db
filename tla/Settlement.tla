----------------------------- MODULE Settlement -----------------------------
(***************************************************************************)
(* What the synchronization of offline sales promises a device: a batch is *)
(* received as a whole or not at all, and its operations are nobody        *)
(* else's; an operation sells only between the receipt and its answer, and *)
(* once; the answer tells whether it sold, except for a sale whose record  *)
(* slipped; answers and verdicts are final.  Who serves a batch, how       *)
(* often it is submitted and where it is cut short is in module            *)
(* OfflineSync, which implements this specification.                       *)
(***************************************************************************)
EXTENDS Integers

CONSTANTS
    Operations,
    Batches,
    Contents    \* the operations of a batch

VARIABLES
    receipt,    \* of a batch: none, open, or its verdict
    answer,     \* of an operation
    sales,      \* the sales an operation has created
    slipped     \* the operations that failed after their sale

settlementVars == <<receipt, answer, sales, slipped>>

SettlementInit ==
    /\ receipt = [b \in Batches |-> "none"]
    /\ answer = [o \in Operations |-> "NONE"]
    /\ sales = [o \in Operations |-> 0]
    /\ slipped = {}

Receive(b) ==
    /\ receipt[b] = "none"
    /\ \A o \in Contents[b] : answer[o] = "NONE"
    /\ receipt' = [receipt EXCEPT ![b] = "open"]
    /\ answer' = [o \in Operations |-> IF o \in Contents[b] THEN "PENDING" ELSE answer[o]]
    /\ UNCHANGED <<sales, slipped>>

Sell(o) ==
    /\ answer[o] = "PENDING"
    /\ sales[o] = 0
    /\ sales' = [sales EXCEPT ![o] = 1]
    /\ UNCHANGED <<receipt, answer, slipped>>

Slip(o) ==
    /\ answer[o] = "PENDING"
    /\ sales[o] = 1
    /\ slipped' = slipped \cup {o}
    /\ UNCHANGED <<receipt, answer, sales>>

Answer(o, outcome) ==
    /\ answer[o] = "PENDING"
    /\ outcome = "APPLIED" => sales[o] = 1 /\ o \notin slipped
    /\ outcome = "REJECTED" => sales[o] = 0 \/ o \in slipped
    /\ answer' = [answer EXCEPT ![o] = outcome]
    /\ UNCHANGED <<receipt, sales, slipped>>

\* What is said of a batch whose operations were answered so.
Verdict(answers) ==
    IF "REJECTED" \notin answers THEN "COMPLETED"
    ELSE IF "APPLIED" \notin answers THEN "FAILED"
    ELSE "PARTIALLY_FAILED"

Close(b) ==
    LET answers == {answer[o] : o \in Contents[b]} IN
    /\ receipt[b] = "open"
    /\ answers \subseteq {"APPLIED", "REJECTED"}
    /\ receipt' = [receipt EXCEPT ![b] = Verdict(answers)]
    /\ UNCHANGED <<answer, sales, slipped>>

SettlementNext ==
    \/ \E b \in Batches : Receive(b) \/ Close(b)
    \/ \E o \in Operations :
        Sell(o) \/ Slip(o) \/ \E outcome \in {"APPLIED", "REJECTED"} : Answer(o, outcome)

SettlementSpec == SettlementInit /\ [][SettlementNext]_settlementVars
=============================================================================
