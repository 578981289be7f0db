----------------------------- MODULE Purchasing -----------------------------
(***************************************************************************)
(* One purchase order: its approval and goods receipts                     *)
(* (purchasing.service.ts) and the supplier's responses and shipments      *)
(* (supplier-portal.service.ts).  Orders do not interact; the stock a      *)
(* receipt brings in is in module StockRoom.                               *)
(*                                                                         *)
(* Every handler checks statuses and quantities it read before its writes, *)
(* and none of the writes checks them again.  `overlapped` remembers that  *)
(* a handler wrote after what it had checked had changed.                  *)
(***************************************************************************)
EXTENDS Integers, Sequences

CONSTANTS
    Items,         \* the lines of the order
    Serialized,    \* the items received one serial number each
    Whole,         \* the quanta of one piece: the columns keep three decimals
    Ordered,       \* [Items -> Nat]: the quantities it is created with
    Proposals,     \* the changes the supplier may propose: [subset of Items -> Nat]
    Clerks,        \* the requests served at one time
    MaxResponses,  \* bound: the responses of the supplier
    MaxShipments   \* bound: its shipments

\* create accepts at least one line, with positive whole quantities; the portal
\* positive ones.
ASSUME PurchasingAssumption ==
    /\ Items # {}
    /\ Serialized \subseteq Items
    /\ Whole \in Nat \ {0}
    /\ Ordered \in [Items -> Nat \ {0}] /\ \A i \in Items : Ordered[i] % Whole = 0
    /\ \A lines \in Proposals :
          DOMAIN lines \subseteq Items /\ lines \in [DOMAIN lines -> Nat \ {0}]
    /\ MaxResponses \in Nat /\ MaxShipments \in Nat

VARIABLES
    order,       \* PurchaseOrder.status; the quantity and receivedQuantity of its items
    responses,   \* the supplier's responses, the latest last
    shipments,   \* the status of each SupplierShipment
    request,     \* the request in progress at each clerk
    applied,     \* history: the responses whose lines were written to the order
    overlapped,  \* history: a handler wrote after what it had checked had changed
    amended      \* history: a review changed quantities after goods had come

purchasingVars == <<order, responses, shipments, request, applied, overlapped, amended>>

OrderRow == [status : {"NONE", "DRAFT", "APPROVED", "PARTIALLY_RECEIVED", "RECEIVED"},
             quantity : [Items -> Nat], received : [Items -> Nat]]
Response == [status : {"ACCEPTED", "CHANGES_PROPOSED", "REJECTED"},
             review : {"NOT_REQUIRED", "PENDING", "APPROVED", "REJECTED"},
             lines : Proposals \cup {<<>>}]
ShipmentStatus == {"PREPARING", "DISPATCHED", "DELIVERED"}

Idle == [op |-> "idle"]
RequestOK(r) ==
    \/ r = Idle
    \/ r.op \in {"approve", "respond", "receive", "counted", "dispatch"} /\ r.seen \in OrderRow
    \/ r.op = "review" /\ r.index \in 1..MaxResponses /\ r.approved \in BOOLEAN

PurchasingTypeOK ==
    /\ order \in OrderRow
    /\ responses \in Seq(Response) /\ Len(responses) <= MaxResponses
    /\ shipments \in Seq(ShipmentStatus) /\ Len(shipments) <= MaxShipments
    /\ DOMAIN request = Clerks /\ \A c \in Clerks : RequestOK(request[c])
    /\ applied \subseteq 1..MaxResponses
    /\ overlapped \in BOOLEAN /\ amended \in BOOLEAN

Nothing == [i \in Items |-> 0]

PurchasingInit ==
    /\ order = [status |-> "NONE", quantity |-> Ordered, received |-> Nothing]
    /\ responses = <<>>
    /\ shipments = <<>>
    /\ request = [c \in Clerks |-> Idle]
    /\ applied = {}
    /\ overlapped = FALSE
    /\ amended = FALSE

-----------------------------------------------------------------------------

Start(c, r) ==
    /\ request[c] = Idle
    /\ request' = [request EXCEPT ![c] = r]
    /\ UNCHANGED <<order, responses, shipments, applied, overlapped, amended>>

\* What the handler checked no longer holds.
Stale(r) ==
    CASE r.op = "review" -> r.seen # responses[r.index]
      [] r.op \in {"receive", "counted"} -> r.seen # order
      [] OTHER -> r.seen.status # order.status

Finish(c) ==
    /\ request' = [request EXCEPT ![c] = Idle]
    /\ overlapped' = (overlapped \/ Stale(request[c]))

-----------------------------------------------------------------------------
(* create and approve.                                                     *)

Create ==
    /\ order.status = "NONE"
    /\ order' = [order EXCEPT !.status = "DRAFT"]
    /\ UNCHANGED <<responses, shipments, request, applied, overlapped, amended>>

\* Fault: an order can be approved again.
AnyStatus(s) == s # "NONE"

Approvable(s) == s = "DRAFT"

BeginApprove(c) ==
    /\ Approvable(order.status)
    /\ Start(c, [op |-> "approve", seen |-> order])

CommitApprove(c) ==
    /\ request[c].op = "approve"
    /\ order' = [order EXCEPT !.status = "APPROVED"]
    /\ Finish(c)
    /\ UNCHANGED <<responses, shipments, applied, amended>>

-----------------------------------------------------------------------------
(* receive: the remaining quantities are computed from the order that was  *)
(* read.  Whether the order is complete is read in the transaction, when   *)
(* the receipt's own lines are written and another receipt's are not       *)
(* visible before it commits.                                              *)

\* Fault: what is left is compared with the whole order.
OrderedQuantity(i) == order.quantity[i]

\* What may be delivered at one time.
Deliveries == [Items -> UNION {0..Ordered[i] : i \in Items}]

Remaining(i) == order.quantity[i] - order.received[i]

BeginReceive(c, goods) ==
    /\ order.status \in {"APPROVED", "PARTIALLY_RECEIVED"}
    /\ goods # Nothing
    /\ \A i \in Items : goods[i] > 0 => goods[i] <= Remaining(i)
    /\ \A i \in Serialized : goods[i] % Whole = 0
    /\ Start(c, [op |-> "receive", goods |-> goods, seen |-> order])

\* Another receipt of one of these items has locked its row.
Blocked(goods) ==
    \E c \in Clerks : request[c].op = "counted" /\
        \E i \in Items : goods[i] > 0 /\ request[c].goods[i] > 0

Together(x, y) == [i \in Items |-> x[i] + y[i]]

\* Fault: one item that is complete is enough.
SomeComplete(received) == \E i \in Items : received[i] >= order.quantity[i]

AllReceived(received) == \A i \in Items : received[i] >= order.quantity[i]

CountReceived(c) ==
    LET r == request[c] IN
    /\ r.op = "receive"
    /\ ~Blocked(r.goods)
    /\ request' = [request EXCEPT ![c] =
          [op |-> "counted", goods |-> r.goods, seen |-> r.seen,
           complete |-> AllReceived(Together(order.received, r.goods))]]
    /\ UNCHANGED <<order, responses, shipments, applied, overlapped, amended>>

\* Fault: shipments are left as they are.
SameShipments(complete) == shipments

\* A complete receipt delivers what was dispatched.
AfterReceipt(complete) ==
    [n \in DOMAIN shipments |->
        IF complete /\ shipments[n] = "DISPATCHED" THEN "DELIVERED" ELSE shipments[n]]

CommitReceive(c) ==
    LET r == request[c] IN
    /\ r.op = "counted"
    /\ order' = [order EXCEPT
          !.status = IF r.complete THEN "RECEIVED" ELSE "PARTIALLY_RECEIVED",
          !.received = Together(@, r.goods)]
    /\ shipments' = AfterReceipt(r.complete)
    /\ Finish(c)
    /\ UNCHANGED <<responses, applied, amended>>

-----------------------------------------------------------------------------
(* The supplier: respond, dispatch; and the review of a proposal.          *)

\* The lines of a response that proposes nothing are never used.
BeginRespond(c, status, lines) ==
    /\ order.status = "APPROVED"
    /\ status = "CHANGES_PROPOSED" <=> lines # <<>>
    /\ Start(c, [op |-> "respond", status |-> status, lines |-> lines, seen |-> order])

CommitRespond(c) ==
    LET r == request[c] IN
    /\ r.op = "respond"
    /\ Len(responses) < MaxResponses
    /\ responses' = Append(responses,
          [status |-> r.status, lines |-> r.lines,
           review |-> IF r.status = "CHANGES_PROPOSED" THEN "PENDING" ELSE "NOT_REQUIRED"])
    /\ Finish(c)
    /\ UNCHANGED <<order, shipments, applied, amended>>

\* Fault: a proposal can be reviewed again.
Proposed(n) == responses[n].status = "CHANGES_PROPOSED"

Reviewable(n) == responses[n].status = "CHANGES_PROPOSED" /\ responses[n].review = "PENDING"

BeginReview(c, n, approved) ==
    /\ n \in DOMAIN responses
    /\ Reviewable(n)
    /\ Start(c, [op |-> "review", index |-> n, approved |-> approved, seen |-> responses[n]])

\* Fault: the lines replace the order's.
OnlyProposed(lines) == lines

\* The quantities with the lines of a proposal written over them.
Amend(lines) ==
    [i \in Items |-> IF i \in DOMAIN lines THEN lines[i] ELSE order.quantity[i]]

\* An approval writes every line of the order, and waits for a receipt that has
\* written one of them.
CommitReview(c) ==
    LET r == request[c]
        lines == responses[r.index].lines
    IN
    /\ r.op = "review"
    /\ r.approved => \A k \in Clerks : request[k].op # "counted"
    /\ order' = IF r.approved THEN [order EXCEPT !.quantity = Amend(lines)] ELSE order
    /\ applied' = IF r.approved THEN applied \cup {r.index} ELSE applied
    /\ amended' = (amended \/ (r.approved /\ order.received # Nothing))
    /\ responses' = [responses EXCEPT ![r.index].review =
          IF r.approved THEN "APPROVED" ELSE "REJECTED"]
    /\ Finish(c)
    /\ UNCHANGED shipments

\* Fault: any response is enough.
AnyResponse == responses # <<>>

\* The latest response accepts the order, or its proposal was approved.
Accepted ==
    /\ responses # <<>>
    /\ LET latest == responses[Len(responses)] IN
       latest.status = "ACCEPTED" \/ latest.review = "APPROVED"

BeginDispatch(c, status) ==
    /\ Accepted
    /\ order.status = "APPROVED"
    /\ Start(c, [op |-> "dispatch", status |-> status, seen |-> order])

CommitDispatch(c) ==
    /\ request[c].op = "dispatch"
    /\ Len(shipments) < MaxShipments
    /\ shipments' = Append(shipments, request[c].status)
    /\ Finish(c)
    /\ UNCHANGED <<order, responses, applied, amended>>

\* The transaction rolls back, a later check fails or the client is gone.
Abandon(c) ==
    /\ request[c] # Idle
    /\ request' = [request EXCEPT ![c] = Idle]
    /\ UNCHANGED <<order, responses, shipments, applied, overlapped, amended>>

PurchasingNext ==
    \/ Create
    \/ \E c \in Clerks :
          \/ BeginApprove(c) \/ CommitApprove(c)
          \/ \E goods \in Deliveries : BeginReceive(c, goods)
          \/ CountReceived(c) \/ CommitReceive(c)
          \/ \E s \in {"ACCEPTED", "CHANGES_PROPOSED", "REJECTED"}, lines \in Proposals \cup {<<>>} :
                BeginRespond(c, s, lines)
          \/ CommitRespond(c)
          \/ \E n \in 1..MaxResponses, approved \in BOOLEAN : BeginReview(c, n, approved)
          \/ CommitReview(c)
          \/ \E s \in ShipmentStatus : BeginDispatch(c, s)
          \/ CommitDispatch(c) \/ Abandon(c)

PurchasingSpec == PurchasingInit /\ [][PurchasingNext]_purchasingVars

-----------------------------------------------------------------------------

Complete == \A i \in Items : order.received[i] >= order.quantity[i]

\* No more is received than was ordered, and the status says how much: nothing
\* before PARTIALLY_RECEIVED, all of it when RECEIVED, and otherwise something
\* is left to receive, so the order is not stuck.
ReceiptsMatch ==
    /\ order.status \in {"NONE", "DRAFT", "APPROVED"} <=> order.received = Nothing
    /\ order.status = "RECEIVED" <=> Complete
    /\ \A i \in Items : order.received[i] <= order.quantity[i]

\* RECEIVED is never premature, whatever overlaps: a receipt may miss what
\* another one has not committed, never count what was not received.  Only an
\* approved proposal can still raise the quantities.
ReceivedIsComplete == order.status = "RECEIVED" /\ applied = {} => Complete

\* The order tells what came and what was agreed.  While no two handlers
\* overlap, receipts match it unless a proposal was approved after goods had
\* come, a proposal's review says whether its lines are in it, and nothing is
\* on its way once everything has come.  In any case RECEIVED is complete, and
\* goods are shipped only after the supplier accepted the order or a proposal
\* was approved (receive, review, dispatch).
OrderTellsTruth ==
    /\ ~overlapped =>
          /\ amended \/ ReceiptsMatch
          /\ order.status = "RECEIVED" => \A n \in DOMAIN shipments : shipments[n] # "DISPATCHED"
          /\ \A n \in DOMAIN responses : responses[n].review = "APPROVED" <=> n \in applied
    /\ ReceivedIsComplete
    /\ shipments # <<>> =>
          applied # {} \/ \E n \in DOMAIN responses : responses[n].status = "ACCEPTED"

Rank(s) == CASE s = "NONE" -> 0 [] s = "DRAFT" -> 1 [] s = "APPROVED" -> 2
             [] s = "PARTIALLY_RECEIVED" -> 3 [] s = "RECEIVED" -> 4

\* An order never goes back to an earlier status, unless the handler that
\* writes it overlapped another one.
StatusMovesOn == [][~overlapped' => Rank(order.status) <= Rank(order'.status)]_purchasingVars
=============================================================================
