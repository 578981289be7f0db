------------------------------- MODULE Outbox -------------------------------
(***************************************************************************)
(* The notification outbox: rows are queued by whoever publishes an event  *)
(* and delivered by scans of processPending, which the worker's timer and  *)
(* an administrator's request start (notifications.service.ts,             *)
(* notification-worker.service.ts).                                        *)
(*                                                                         *)
(* A scan reads a batch, then claims and delivers its rows one by one.     *)
(* Between two of its steps other scans run, and the process may stop.     *)
(***************************************************************************)
EXTENDS Integers, FiniteSets

CONSTANTS
    Rows,         \* the outbox rows that are ever queued, by idempotency key
    Reminders,    \* those the hourly alerts queue, which look for a missing row
    Timer,        \* the worker's scan
    Requests,     \* the scans administrators start
    MaxAttempts,  \* 5 in the code
    MaxStops,     \* bound: how often a publisher or a scan is cut short
    None          \* no row

Scans == {Timer} \cup Requests

ASSUME OutboxAssumption ==
    /\ Reminders \subseteq Rows
    /\ None \notin Rows
    /\ Timer \notin Requests
    /\ MaxAttempts \in Nat \ {0} /\ MaxStops \in Nat

VARIABLES
    event,      \* what became of the domain event of a row
    row,        \* NotificationOutbox
    scan,       \* the scan in progress
    accepted,   \* how often the provider accepted the message
    stops,      \* how often something was cut short
    stranded,   \* history: rows a scan was cut short over
    overtaken   \* history: rows claimed with an attempt count read too early

vars == <<event, row, scan, accepted, stops, stranded, overtaken>>

RowStatus == {"ABSENT", "PENDING", "PROCESSING", "FAILED", "SENT", "DEAD_LETTER"}
OutboxRow == [status : RowStatus, attempts : Nat, due : BOOLEAN]
Idle == [stage |-> "idle"]

\* seen[m] is the attempt count of row m when the batch was read.
ScanRow == [stage : {"claiming", "delivering", "delivered", "failed"},
            batch : SUBSET Rows, seen : [Rows -> Nat], doing : Rows \cup {None}]

TypeOK ==
    /\ event \in [Rows -> {"NONE", "CREATED", "PROCESSED", "LOST"}]
    /\ row \in [Rows -> OutboxRow]
    /\ scan \in [Scans -> {Idle} \cup ScanRow]
    /\ accepted \in [Rows -> Nat]
    /\ stops \in 0..MaxStops
    /\ stranded \subseteq Rows /\ overtaken \subseteq Rows

Init ==
    /\ event = [m \in Rows |-> "NONE"]
    /\ row = [m \in Rows |-> [status |-> "ABSENT", attempts |-> 0, due |-> TRUE]]
    /\ scan = [k \in Scans |-> Idle]
    /\ accepted = [m \in Rows |-> 0]
    /\ stops = 0
    /\ stranded = {}
    /\ overtaken = {}

-----------------------------------------------------------------------------
(* Publishing: the event row and the outbox row are two statements.        *)

CreateEvent(m) ==
    /\ event[m] = "NONE"
    /\ event' = [event EXCEPT ![m] = "CREATED"]
    /\ UNCHANGED <<row, scan, accepted, stops, stranded, overtaken>>

QueueRow(m) ==
    /\ event[m] = "CREATED"
    /\ row' = [row EXCEPT ![m].status = "PENDING"]
    /\ event' = [event EXCEPT ![m] = "PROCESSED"]
    /\ UNCHANGED <<scan, accepted, stops, stranded, overtaken>>

\* Fault: the alerts look for the event of the day instead of its outbox row.
ForgottenEvent(m) == "LOST"

\* The publisher is cut short between the two.  Nobody looks for events without
\* a row, but the hourly alerts publish again what has no row.
EventAfterStop(m) == IF m \in Reminders THEN "NONE" ELSE "LOST"

StopPublisher(m) ==
    /\ event[m] = "CREATED"
    /\ stops < MaxStops
    /\ stops' = stops + 1
    /\ event' = [event EXCEPT ![m] = EventAfterStop(m)]
    /\ UNCHANGED <<row, scan, accepted, stranded, overtaken>>

-----------------------------------------------------------------------------
(* processPending.                                                         *)

Waiting(m) == row[m].status \in {"PENDING", "FAILED"}

\* What the batch query selects.
Selected(m) == Waiting(m) /\ row[m].due /\ row[m].attempts < MaxAttempts

BeginScan(k) ==
    /\ scan[k] = Idle
    /\ \E m \in Rows : Selected(m)
    /\ scan' = [scan EXCEPT ![k] =
          [stage |-> "claiming", batch |-> {m \in Rows : Selected(m)},
           seen |-> [m \in Rows |-> row[m].attempts], doing |-> None]]
    /\ UNCHANGED <<event, row, accepted, stops, stranded, overtaken>>

\* The scan without row m, finished when that was the last one.
Rest(s, m) ==
    IF s.batch = {m} THEN Idle
    ELSE [s EXCEPT !.stage = "claiming", !.batch = @ \ {m}, !.doing = None]

\* Fault: the claim has no condition on the status.
AnyClaim(m) == TRUE

\* updateMany found the row PENDING or FAILED.
Claimable(m) == Waiting(m)

\* The attempt count that was read with the batch has changed since.
Overtakes(k, m) == scan[k].seen[m] # row[m].attempts

Claim(k, m) ==
    /\ scan[k].stage = "claiming"
    /\ m \in scan[k].batch
    /\ Claimable(m)
    /\ row' = [row EXCEPT ![m].status = "PROCESSING"]
    /\ scan' = [scan EXCEPT ![k].stage = "delivering", ![k].doing = m]
    /\ overtaken' = IF Overtakes(k, m) THEN overtaken \cup {m} ELSE overtaken
    /\ UNCHANGED <<event, accepted, stops, stranded>>

Skip(k, m) ==
    /\ scan[k].stage = "claiming"
    /\ m \in scan[k].batch
    /\ ~Claimable(m)
    /\ scan' = [scan EXCEPT ![k] = Rest(scan[k], m)]
    /\ UNCHANGED <<event, row, accepted, stops, stranded, overtaken>>

\* The provider accepts the message or does not; when it does, its answer may
\* still be lost.
Deliver(k, taken, answered) ==
    /\ scan[k].stage = "delivering"
    /\ answered => taken
    /\ accepted' = IF taken THEN [accepted EXCEPT ![scan[k].doing] = @ + 1] ELSE accepted
    /\ scan' = [scan EXCEPT ![k].stage = IF answered THEN "delivered" ELSE "failed"]
    /\ UNCHANGED <<event, row, stops, stranded, overtaken>>

\* Fault: the count goes down.
Rewound(m) == [row[m] EXCEPT !.status = "SENT", !.attempts = @ - 1]

\* Fault: a delivery is only counted when it failed.
SameAttempts(m) == [row[m] EXCEPT !.status = "SENT"]

Sent(m) == [row[m] EXCEPT !.status = "SENT", !.attempts = @ + 1]

RecordSent(k) ==
    LET m == scan[k].doing IN
    /\ scan[k].stage = "delivered"
    /\ row' = [row EXCEPT ![m] = Sent(m)]
    /\ scan' = [scan EXCEPT ![k] = Rest(scan[k], m)]
    /\ UNCHANGED <<event, accepted, stops, stranded, overtaken>>

\* The transaction that records the success fails inside the same try.
SentNotRecorded(k) ==
    /\ scan[k].stage = "delivered"
    /\ stops < MaxStops
    /\ stops' = stops + 1
    /\ scan' = [scan EXCEPT ![k].stage = "failed"]
    /\ UNCHANGED <<event, row, accepted, stranded, overtaken>>

\* Fault: one attempt too many.
OneMoreAttempt(m, seen) ==
    [status |-> IF seen + 1 > MaxAttempts THEN "DEAD_LETTER" ELSE "FAILED",
     attempts |-> row[m].attempts + 1, due |-> FALSE]

\* The status follows the count that was read with the batch, the count itself
\* is incremented.
Failed(m, seen) ==
    [status |-> IF seen + 1 >= MaxAttempts THEN "DEAD_LETTER" ELSE "FAILED",
     attempts |-> row[m].attempts + 1, due |-> FALSE]

RecordFailed(k) ==
    LET m == scan[k].doing IN
    /\ scan[k].stage = "failed"
    /\ row' = [row EXCEPT ![m] = Failed(m, scan[k].seen[m])]
    /\ scan' = [scan EXCEPT ![k] = Rest(scan[k], m)]
    /\ UNCHANGED <<event, accepted, stops, stranded, overtaken>>

\* The process stops, or recording the failure throws: the scan ends and the
\* row it was at keeps its status.
StopScan(k) ==
    /\ scan[k] # Idle
    /\ stops < MaxStops
    /\ stops' = stops + 1
    /\ stranded' = stranded \cup ({scan[k].doing} \ {None})
    /\ scan' = [scan EXCEPT ![k] = Idle]
    /\ UNCHANGED <<event, row, accepted, overtaken>>

\* nextAttemptAt has come.
BecomeDue(m) ==
    /\ ~row[m].due
    /\ row' = [row EXCEPT ![m].due = TRUE]
    /\ UNCHANGED <<event, scan, accepted, stops, stranded, overtaken>>

-----------------------------------------------------------------------------

ScanStep(k) ==
    \/ \E m \in Rows : Claim(k, m) \/ Skip(k, m)
    \/ \E taken, answered \in BOOLEAN : Deliver(k, taken, answered)
    \/ RecordSent(k) \/ RecordFailed(k)

Next ==
    \/ \E m \in Rows : CreateEvent(m) \/ QueueRow(m) \/ StopPublisher(m) \/ BecomeDue(m)
    \/ \E k \in Scans : BeginScan(k) \/ ScanStep(k) \/ SentNotRecorded(k) \/ StopScan(k)

\* A publisher and a scan go on until they are cut short; the timer starts a
\* scan every 30 seconds and the alerts run every hour.  Nothing makes an
\* administrator start one.
Fairness ==
    /\ \A m \in Rows : WF_vars(QueueRow(m)) /\ WF_vars(BecomeDue(m))
    /\ \A m \in Reminders : WF_vars(CreateEvent(m))
    /\ WF_vars(BeginScan(Timer))
    /\ \A k \in Scans : WF_vars(ScanStep(k))

Spec == Init /\ [][Next]_vars /\ Fairness

-----------------------------------------------------------------------------

Doing(k, m) == scan[k] # Idle /\ scan[k].doing = m

\* A row is worked on by one scan at a time, and exactly while it is
\* PROCESSING; only a scan that was cut short leaves one PROCESSING.
OneOwner ==
    \A m \in Rows :
        /\ row[m].status = "PROCESSING" <=> m \in stranded \/ \E k \in Scans : Doing(k, m)
        /\ \A k1, k2 \in Scans : Doing(k1, m) /\ Doing(k2, m) => k1 = k2

\* No row is given up in silence: one that will not be tried again is SENT or a
\* DEAD_LETTER, unless a scan was cut short over it or overtook another scan,
\* which judges it by the attempts it read before.
NoSilentGiveUp ==
    \A m \in Rows \ (stranded \cup overtaken) :
        Waiting(m) => row[m].attempts < MaxAttempts

\* Every row has somebody to work on it, and never two.
RowsLookedAfter == OneOwner /\ NoSilentGiveUp

\* Where a row of each status is, for whoever waits for the message.
Place(status) ==
    CASE status = "ABSENT" -> "unwritten"
      [] status \in {"PENDING", "FAILED"} -> "waiting"
      [] status = "PROCESSING" -> "tried"
      [] status = "SENT" -> "delivered"
      [] status = "DEAD_LETTER" -> "given up"

\* What the outbox promises, read off its rows: it hands a message over at most
\* once per attempt, calls it SENT only when the provider took it, makes it a
\* DEAD_LETTER only after MaxAttempts, and never claims it again after either.
Promise == INSTANCE Delivery WITH
    Letters <- Rows,
    MaxTries <- MaxAttempts,
    place <- [m \in Rows |-> Place(row[m].status)],
    tries <- [m \in Rows |-> row[m].attempts],
    handed <- accepted

DeliversAsPromised == Promise!DeliverySpec

\* Every queued message is delivered or becomes a dead letter, whatever the
\* provider answers, unless a scan is cut short over it or overtakes another.
EventuallySettled ==
    \A m \in Rows : row[m].status = "PENDING" ~>
        row[m].status \in {"SENT", "DEAD_LETTER"} \/ m \in stranded \cup overtaken

\* A reminder whose publisher is cut short is queued by a later run.
RemindersQueued == \A m \in Reminders : <>(row[m].status # "ABSENT")

\* No message is forgotten: reminders get into the outbox, and what is in it
\* gets out of it.
NothingForgotten == EventuallySettled /\ RemindersQueued
=============================================================================
