---------------------------- MODULE OutboxProofs ----------------------------
(***************************************************************************)
(* The outbox keeps the promise of module Delivery, for any messages,      *)
(* scans, attempts and stops, and every row is looked after.  What makes   *)
(* it so is who owns a row (Owned), and how far what the provider took and *)
(* what a scan has read may be from the attempts on record (Counted).      *)
(***************************************************************************)
EXTENDS Outbox, TLAPS

\* A scan works on a row from the claim on; the row is PROCESSING then, and
\* one that was left PROCESSING belongs to nobody.
Owned ==
    /\ \A k \in Scans : scan[k] # Idle =>
          (scan[k].stage = "claiming" <=> scan[k].doing = None)
    /\ OneOwner
    /\ \A m \in stranded, k \in Scans : ~Doing(k, m)

\* A row that is not written yet has an event at most.
Written ==
    \A m \in Rows :
        /\ event[m] \in {"NONE", "CREATED"} => row[m].status = "ABSENT"
        /\ row[m].status = "ABSENT" => row[m].attempts = 0

\* Each attempt on record stands for one that the provider took at most, and
\* the attempt in progress for one more.
Counted ==
    /\ \A m \in Rows : row[m].status # "PROCESSING" => accepted[m] <= row[m].attempts
    /\ \A k \in Scans, m \in Rows : Doing(k, m) =>
          /\ scan[k].stage = "delivering" => accepted[m] <= row[m].attempts
          /\ accepted[m] <= row[m].attempts + 1
          /\ scan[k].stage = "delivered" => accepted[m] > 0
          /\ m \notin overtaken => scan[k].seen[m] = row[m].attempts
    /\ \A k \in Scans, m \in Rows : scan[k] # Idle => scan[k].seen[m] <= row[m].attempts

Inv == TypeOK /\ Owned /\ Written /\ Counted /\ NoSilentGiveUp

-----------------------------------------------------------------------------

LEMMA InitInv == Init => Inv
<1> USE OutboxAssumption DEF Init, Idle
<1> SUFFICES ASSUME Init PROVE Inv
  OBVIOUS
<1>1. TypeOK
  BY DEF TypeOK, OutboxRow, RowStatus
<1>2. Owned
  BY DEF Owned, OneOwner, Doing
<1>3. Written /\ Counted /\ NoSilentGiveUp
  BY DEF Written, Counted, NoSilentGiveUp, Doing, Waiting
<1> QED BY <1>1, <1>2, <1>3 DEF Inv

\* What a scan goes on with.
LEMMA RestLemma ==
    ASSUME NEW s \in ScanRow, NEW m \in Rows
    PROVE  /\ Rest(s, m) \in {Idle} \cup ScanRow
           /\ Rest(s, m) # Idle =>
                 /\ Rest(s, m).stage = "claiming" /\ Rest(s, m).doing = None
                 /\ Rest(s, m).seen = s.seen
BY DEF Rest, ScanRow, Idle

\* What a row becomes when the outcome is recorded.
LEMMA SentLemma ==
    ASSUME NEW m \in Rows, row[m] \in OutboxRow
    PROVE  /\ Sent(m) \in OutboxRow
           /\ Sent(m).status = "SENT"
           /\ Sent(m).attempts = row[m].attempts + 1
<1> DEFINE sent == [row[m] EXCEPT !.status = "SENT"]
<1>1. sent \in OutboxRow /\ sent.status = "SENT" /\ sent.attempts = row[m].attempts
  BY DEF OutboxRow, RowStatus
<1>2. Sent(m) = [sent EXCEPT !.attempts = row[m].attempts + 1]
  BY DEF Sent
<1> HIDE DEF sent
<1> QED BY <1>1, <1>2 DEF OutboxRow

LEMMA FailedLemma ==
    ASSUME NEW m \in Rows, row[m] \in OutboxRow, NEW n \in Nat
    PROVE  /\ Failed(m, n) \in OutboxRow
           /\ Failed(m, n).status = IF n + 1 >= MaxAttempts THEN "DEAD_LETTER" ELSE "FAILED"
           /\ Failed(m, n).attempts = row[m].attempts + 1
BY DEF Failed, OutboxRow, RowStatus

LEMMA TypeStep ==
    ASSUME TypeOK, Owned, [Next]_vars
    PROVE  TypeOK'
<1> USE OutboxAssumption DEF TypeOK
<1>1. ASSUME NEW m \in Rows, CreateEvent(m) \/ StopPublisher(m)
      PROVE  TypeOK'
  BY <1>1 DEF CreateEvent, StopPublisher, EventAfterStop
<1>10. ASSUME NEW m \in Rows, QueueRow(m) \/ BecomeDue(m)
       PROVE  TypeOK'
  <2>1. event' \in [Rows -> {"NONE", "CREATED", "PROCESSED", "LOST"}]
    BY <1>10 DEF QueueRow, BecomeDue
  <2>2. row' \in [Rows -> OutboxRow]
    <3>1. CASE QueueRow(m)
      BY <3>1 DEF QueueRow, OutboxRow, RowStatus
    <3>2. CASE BecomeDue(m)
      BY <3>2 DEF BecomeDue, OutboxRow
    <3> QED BY <1>10, <3>1, <3>2
  <2> QED BY <1>10, <2>1, <2>2 DEF QueueRow, BecomeDue
<1>2. ASSUME NEW k \in Scans, BeginScan(k)
      PROVE  TypeOK'
  <2> DEFINE new == [stage |-> "claiming", batch |-> {m \in Rows : Selected(m)},
                     seen |-> [m \in Rows |-> row[m].attempts], doing |-> None]
  <2>1. new \in ScanRow
    BY DEF ScanRow, OutboxRow
  <2>2. scan' = [scan EXCEPT ![k] = new]
    BY <1>2 DEF BeginScan
  <2> HIDE DEF new
  <2> QED BY <1>2, <2>1, <2>2 DEF BeginScan
<1>3. ASSUME NEW k \in Scans, NEW m \in Rows, Claim(k, m)
      PROVE  TypeOK'
  <2>1. scan[k] \in ScanRow
    BY <1>3 DEF Claim, Idle
  <2>2. scan' \in [Scans -> {Idle} \cup ScanRow]
    BY <1>3, <2>1 DEF Claim, ScanRow
  <2>3. row' \in [Rows -> OutboxRow] /\ overtaken' \subseteq Rows
    BY <1>3 DEF Claim, OutboxRow, RowStatus
  <2> QED BY <1>3, <2>2, <2>3 DEF Claim
<1>4. ASSUME NEW k \in Scans, NEW m \in Rows, Skip(k, m)
      PROVE  TypeOK'
  <2>1. scan[k] \in ScanRow
    BY <1>4 DEF Skip, Idle
  <2> QED BY <1>4, <2>1, RestLemma DEF Skip
<1>5. ASSUME NEW k \in Scans, NEW taken \in BOOLEAN, NEW answered \in BOOLEAN,
             Deliver(k, taken, answered)
      PROVE  TypeOK'
  <2>1. scan[k] \in ScanRow
    BY <1>5 DEF Deliver, Idle
  <2>2. scan' \in [Scans -> {Idle} \cup ScanRow]
    BY <1>5, <2>1 DEF Deliver, ScanRow
  <2>3. scan[k].doing \in Rows
    BY <1>5, <2>1 DEF Deliver, Owned, ScanRow, Idle
  <2>4. accepted' \in [Rows -> Nat]
    BY <1>5, <2>3 DEF Deliver
  <2> QED BY <1>5, <2>2, <2>4 DEF Deliver
<1>6. ASSUME NEW k \in Scans, SentNotRecorded(k)
      PROVE  TypeOK'
  <2>1. scan[k] \in ScanRow
    BY <1>6 DEF SentNotRecorded, Idle
  <2>2. scan' \in [Scans -> {Idle} \cup ScanRow]
    BY <1>6, <2>1 DEF SentNotRecorded, ScanRow
  <2>3. stops' \in 0..MaxStops
    BY <1>6 DEF SentNotRecorded
  <2> QED BY <1>6, <2>2, <2>3 DEF SentNotRecorded
<1>7. ASSUME NEW k \in Scans, RecordSent(k) \/ RecordFailed(k)
      PROVE  TypeOK'
  <2>1. scan[k] \in ScanRow /\ scan[k].doing \in Rows
    BY <1>7 DEF RecordSent, RecordFailed, Idle, Owned, ScanRow
  <2>2. row' \in [Rows -> OutboxRow]
    <3> DEFINE m == scan[k].doing
    <3>1. CASE RecordSent(k)
      <4>1. row[m] \in OutboxRow
        BY <2>1
      <4>2. Sent(m) \in OutboxRow
        BY <2>1, <4>1, SentLemma
      <4> QED BY <2>1, <3>1, <4>2 DEF RecordSent
    <3>2. CASE RecordFailed(k)
      <4>1. row[m] \in OutboxRow /\ scan[k].seen[m] \in Nat
        BY <2>1 DEF ScanRow
      <4>2. Failed(m, scan[k].seen[m]) \in OutboxRow
        BY <2>1, <4>1, FailedLemma
      <4> QED BY <2>1, <3>2, <4>2 DEF RecordFailed
    <3> QED BY <1>7, <3>1, <3>2
  <2>3. scan' \in [Scans -> {Idle} \cup ScanRow]
    BY <1>7, <2>1, RestLemma DEF RecordSent, RecordFailed
  <2> QED BY <1>7, <2>2, <2>3 DEF RecordSent, RecordFailed
<1>8. ASSUME NEW k \in Scans, StopScan(k)
      PROVE  TypeOK'
  <2>1. scan[k] \in ScanRow
    BY <1>8 DEF StopScan
  <2>2. stranded' \subseteq Rows /\ stops' \in 0..MaxStops
    BY <1>8, <2>1 DEF StopScan, ScanRow
  <2> QED BY <1>8, <2>2 DEF StopScan
<1>9. CASE UNCHANGED vars
  BY <1>9 DEF vars
<1> HIDE DEF TypeOK
<1> QED BY <1>1, <1>2, <1>3, <1>4, <1>5, <1>6, <1>7, <1>8, <1>9, <1>10 DEF Next, ScanStep

\* A row changes hands only between nobody and one scan.
LEMMA OwnedStep ==
    ASSUME TypeOK, Owned, Written, [Next]_vars
    PROVE  Owned'
<1> USE OutboxAssumption DEF TypeOK, Owned, OneOwner, Doing
<1>1. ASSUME NEW m \in Rows, CreateEvent(m) \/ StopPublisher(m)
      PROVE  Owned'
  BY <1>1 DEF CreateEvent, StopPublisher
<1>2. ASSUME NEW m \in Rows, QueueRow(m) \/ BecomeDue(m)
      PROVE  Owned'
  <2>1. ASSUME QueueRow(m)
        PROVE  \A n \in Rows : row'[n].status = "PROCESSING" <=> row[n].status = "PROCESSING"
    <3>1. row[m].status # "PROCESSING"
      BY <2>1 DEF QueueRow, Written
    <3>2. row[m] \in OutboxRow /\ row' = [row EXCEPT ![m] = [row[m] EXCEPT !.status = "PENDING"]]
      BY <2>1 DEF QueueRow
    <3>3. [row[m] EXCEPT !.status = "PENDING"].status = "PENDING"
      BY <3>2 DEF OutboxRow
    <3> QED BY <3>1, <3>2, <3>3
  <2>2. ASSUME BecomeDue(m)
        PROVE  \A n \in Rows : row'[n].status = "PROCESSING" <=> row[n].status = "PROCESSING"
    <3>1. row[m] \in OutboxRow /\ row' = [row EXCEPT ![m] = [row[m] EXCEPT !.due = TRUE]]
      BY <2>2 DEF BecomeDue
    <3>2. [row[m] EXCEPT !.due = TRUE].status = row[m].status
      BY <3>1 DEF OutboxRow
    <3> QED BY <3>1, <3>2
  <2>3. \A n \in Rows : row'[n].status = "PROCESSING" <=> row[n].status = "PROCESSING"
    BY <1>2, <2>1, <2>2
  <2> QED BY <1>2, <2>3 DEF QueueRow, BecomeDue
<1>3. ASSUME NEW k \in Scans, BeginScan(k)
      PROVE  Owned'
  <2>1. \A j \in Scans, n \in Rows : Doing(j, n)' <=> Doing(j, n)
    BY <1>3 DEF BeginScan
  <2>2. \A j \in Scans : scan'[j] # Idle => (scan'[j].stage = "claiming" <=> scan'[j].doing = None)
    BY <1>3 DEF BeginScan
  <2>3. row' = row /\ stranded' = stranded
    BY <1>3 DEF BeginScan
  <2> QED BY <2>1, <2>2, <2>3
<1>4. ASSUME NEW k \in Scans, NEW m \in Rows, Claim(k, m)
      PROVE  Owned'
  <2>1. scan[k] \in ScanRow
    BY <1>4 DEF Claim, Idle
  <2>2. /\ scan'[k] # Idle /\ scan'[k].stage = "delivering" /\ scan'[k].doing = m
        /\ \A j \in Scans \ {k} : scan'[j] = scan[j]
    BY <1>4, <2>1 DEF Claim, ScanRow, Idle
  <2>3. \A n \in Rows : row'[n].status = "PROCESSING" <=> row[n].status = "PROCESSING" \/ n = m
    BY <1>4 DEF Claim, OutboxRow
  <2>4. \A n \in Rows : ~Doing(k, n)
    BY <1>4 DEF Claim
  <2>5. m \notin stranded /\ \A j \in Scans : ~Doing(j, m)
    BY <1>4 DEF Claim, Claimable, Waiting
  <2>6. stranded' = stranded
    BY <1>4 DEF Claim
  <2> HIDE DEF Doing
  <2>7. \A j \in Scans, n \in Rows : Doing(j, n)' <=> IF j = k THEN n = m ELSE Doing(j, n)
    BY <2>2 DEF Doing
  <2>8. OneOwner'
    BY <2>3, <2>4, <2>5, <2>6, <2>7
  <2>9. \A n \in stranded', j \in Scans : ~Doing(j, n)'
    BY <2>5, <2>6, <2>7
  <2> QED BY <2>2, <2>8, <2>9
<1>5. ASSUME NEW k \in Scans, NEW m \in Rows, Skip(k, m)
      PROVE  Owned'
  <2>1. scan[k] \in ScanRow
    BY <1>5 DEF Skip, Idle
  <2>2. scan'[k] = Rest(scan[k], m) /\ \A j \in Scans \ {k} : scan'[j] = scan[j]
    BY <1>5 DEF Skip
  <2>3. \A j \in Scans, n \in Rows : Doing(j, n)' <=> Doing(j, n)
    BY <1>5, <2>1, <2>2, RestLemma DEF Skip
  <2>4. row' = row /\ stranded' = stranded
    BY <1>5 DEF Skip
  <2> QED BY <2>1, <2>2, <2>3, <2>4, RestLemma
<1>6. ASSUME NEW k \in Scans, NEW taken \in BOOLEAN, NEW answered \in BOOLEAN,
             Deliver(k, taken, answered) \/ SentNotRecorded(k)
      PROVE  Owned'
  <2>1. scan[k] \in ScanRow /\ scan[k] # Idle
    BY <1>6 DEF Deliver, SentNotRecorded, Idle
  <2>2. /\ scan'[k] # Idle /\ scan'[k].stage # "claiming" /\ scan'[k].doing = scan[k].doing
        /\ \A j \in Scans \ {k} : scan'[j] = scan[j]
    BY <1>6, <2>1 DEF Deliver, SentNotRecorded, ScanRow, Idle
  <2>3. scan[k].stage # "claiming"
    BY <1>6 DEF Deliver, SentNotRecorded
  <2>4. \A j \in Scans, n \in Rows : Doing(j, n)' <=> Doing(j, n)
    BY <2>1, <2>2
  <2>5. row' = row /\ stranded' = stranded
    BY <1>6 DEF Deliver, SentNotRecorded
  <2> QED BY <2>1, <2>2, <2>3, <2>4, <2>5
<1>7. ASSUME NEW k \in Scans, RecordSent(k) \/ RecordFailed(k)
      PROVE  Owned'
  <2> DEFINE m == scan[k].doing
  <2>1. scan[k] \in ScanRow /\ m \in Rows /\ Doing(k, m)
    BY <1>7 DEF RecordSent, RecordFailed, Idle, ScanRow
  <2>2. scan'[k] = Rest(scan[k], m) /\ \A j \in Scans \ {k} : scan'[j] = scan[j]
    BY <1>7 DEF RecordSent, RecordFailed
  <2>3. /\ row'[m].status # "PROCESSING"
        /\ \A n \in Rows \ {m} : row'[n] = row[n]
    <3>1. CASE RecordSent(k)
      <4>1. row[m] \in OutboxRow /\ row' = [row EXCEPT ![m] = Sent(m)]
        BY <2>1, <3>1 DEF RecordSent
      <4>2. Sent(m).status = "SENT"
        BY <4>1 DEF Sent, OutboxRow
      <4> QED BY <4>1, <4>2, <2>1
    <3>2. CASE RecordFailed(k)
      <4>1. row' = [row EXCEPT ![m] = Failed(m, scan[k].seen[m])]
        BY <2>1, <3>2 DEF RecordFailed
      <4>2. Failed(m, scan[k].seen[m]).status # "PROCESSING"
        BY DEF Failed
      <4> HIDE DEF m
      <4> QED BY <4>1, <4>2, <2>1
    <3> QED BY <1>7, <3>1, <3>2
  <2>4. stranded' = stranded
    BY <1>7 DEF RecordSent, RecordFailed
  <2>5. /\ \A n \in Rows : ~Doing(k, n)'
        /\ scan'[k] # Idle => scan'[k].stage = "claiming" /\ scan'[k].doing = None
    BY <2>1, <2>2, RestLemma
  <2>6. \A n \in Rows \ {m} : ~Doing(k, n)
    BY <2>1
  <2>7. m \notin stranded /\ \A j \in Scans \ {k} : ~Doing(j, m)
    BY <2>1
  <2> HIDE DEF m, Doing
  <2>8. \A j \in Scans \ {k}, n \in Rows : Doing(j, n)' <=> Doing(j, n)
    BY <2>2 DEF Doing
  <2>9. OneOwner'
    BY <2>1, <2>3, <2>4, <2>5, <2>6, <2>7, <2>8
  <2>10. \A n \in stranded', j \in Scans : ~Doing(j, n)'
    BY <2>4, <2>5, <2>8
  <2> QED BY <2>2, <2>5, <2>9, <2>10
<1>8. ASSUME NEW k \in Scans, StopScan(k)
      PROVE  Owned'
  <2> DEFINE m == scan[k].doing
  <2>1. scan[k] # Idle /\ scan[k] \in ScanRow
    BY <1>8 DEF StopScan
  <2>2. \A n \in Rows : ~Doing(k, n)'
    BY <1>8 DEF StopScan
  <2>3. \A j \in Scans \ {k} : scan'[j] = scan[j]
    BY <1>8 DEF StopScan
  <2>4. row' = row /\ stranded' = stranded \cup ({m} \ {None})
    BY <1>8 DEF StopScan
  <2>5. \A n \in Rows : Doing(k, n) <=> n = m
    BY <2>1
  <2>6. m \in Rows \/ m = None
    BY <2>1 DEF ScanRow
  <2>7. scan'[k] = Idle
    BY <1>8 DEF StopScan
  <2> HIDE DEF m, Doing
  <2>8. \A j \in Scans \ {k}, n \in Rows : Doing(j, n)' <=> Doing(j, n)
    BY <2>3 DEF Doing
  <2>9. OneOwner'
    BY <2>2, <2>4, <2>5, <2>6, <2>8
  <2>10. \A n \in stranded', j \in Scans : ~Doing(j, n)'
    BY <2>2, <2>4, <2>5, <2>6, <2>8
  <2> QED BY <2>3, <2>7, <2>9, <2>10
<1>9. CASE UNCHANGED vars
  BY <1>9 DEF vars
<1> HIDE DEF TypeOK, Owned
<1> QED BY <1>1, <1>2, <1>3, <1>4, <1>5, <1>6, <1>7, <1>8, <1>9 DEF Next, ScanStep

-----------------------------------------------------------------------------
(* What the steps of a scan do, row by row and scan by scan.               *)

LEMMA ClaimEffect ==
    ASSUME TypeOK, NEW k \in Scans, NEW m \in Rows, Claim(k, m)
    PROVE  /\ row'[m].status = "PROCESSING" /\ row'[m].attempts = row[m].attempts
           /\ \A n \in Rows \ {m} : row'[n] = row[n]
           /\ scan'[k] # Idle /\ scan'[k].stage = "delivering" /\ scan'[k].doing = m
           /\ scan[k] # Idle /\ scan'[k].seen = scan[k].seen
           /\ \A j \in Scans \ {k} : scan'[j] = scan[j]
<1>1. scan[k] \in ScanRow
  BY DEF TypeOK, Claim, Idle
<1>2. /\ scan'[k] # Idle /\ scan'[k].stage = "delivering" /\ scan'[k].doing = m
      /\ scan[k] # Idle /\ scan'[k].seen = scan[k].seen
      /\ \A j \in Scans \ {k} : scan'[j] = scan[j]
  <2> DEFINE new == [scan[k] EXCEPT !.stage = "delivering", !.doing = m]
  <2>1. scan' = [scan EXCEPT ![k] = new]
    BY DEF Claim
  <2>2. new.stage = "delivering" /\ new.doing = m /\ new.seen = scan[k].seen /\ new # Idle
    BY <1>1 DEF ScanRow, Idle
  <2>3. scan'[k] = new /\ \A j \in Scans \ {k} : scan'[j] = scan[j]
    BY <2>1 DEF TypeOK
  <2>4. scan[k] # Idle
    BY DEF Claim, Idle
  <2> QED BY <2>2, <2>3, <2>4
<1>3. row[m] \in OutboxRow /\ row' = [row EXCEPT ![m] = [row[m] EXCEPT !.status = "PROCESSING"]]
  BY DEF TypeOK, Claim
<1>4. row'[m] = [row[m] EXCEPT !.status = "PROCESSING"] /\ \A n \in Rows \ {m} : row'[n] = row[n]
  BY <1>3 DEF TypeOK
<1> QED BY <1>2, <1>3, <1>4 DEF OutboxRow

LEMMA RecordEffect ==
    ASSUME TypeOK, Owned, NEW k \in Scans, RecordSent(k) \/ RecordFailed(k),
           NEW m, m = scan[k].doing
    PROVE  /\ m \in Rows /\ Doing(k, m) /\ row[m].status = "PROCESSING"
           /\ row'[m].attempts = row[m].attempts + 1
           /\ row'[m].status \notin {"ABSENT", "PROCESSING"}
           /\ \A n \in Rows \ {m} : row'[n] = row[n]
           /\ \A n \in Rows : ~Doing(k, n)'
           /\ scan[k] # Idle /\ (scan'[k] # Idle => scan'[k].seen = scan[k].seen)
           /\ \A j \in Scans \ {k} : scan'[j] = scan[j]
<1>1. scan[k] \in ScanRow /\ m \in Rows /\ Doing(k, m)
  BY DEF TypeOK, Owned, OneOwner, Doing, RecordSent, RecordFailed, Idle, ScanRow
<1>2. row[m].status = "PROCESSING" /\ row[m] \in OutboxRow /\ scan[k].seen[m] \in Nat
  BY <1>1 DEF TypeOK, Owned, OneOwner, ScanRow
<1>3. scan' = [scan EXCEPT ![k] = Rest(scan[k], m)]
  BY DEF RecordSent, RecordFailed
<1>4. scan'[k] = Rest(scan[k], m) /\ \A j \in Scans \ {k} : scan'[j] = scan[j]
  BY <1>3 DEF TypeOK
<1>5. \A n \in Rows : ~Doing(k, n)'
  BY <1>1, <1>4, RestLemma, OutboxAssumption DEF Doing
<1>6. PICK new : /\ row' = [row EXCEPT ![m] = new]
                 /\ new.attempts = row[m].attempts + 1
                 /\ new.status \notin {"ABSENT", "PROCESSING"}
  <2>1. CASE RecordSent(k)
    BY <1>1, <1>2, <2>1, SentLemma DEF RecordSent
  <2>2. CASE RecordFailed(k)
    BY <1>1, <1>2, <2>2, FailedLemma DEF RecordFailed
  <2> QED BY <2>1, <2>2
<1>7. row'[m] = new /\ \A n \in Rows \ {m} : row'[n] = row[n]
  BY <1>1, <1>6 DEF TypeOK
<1> QED BY <1>1, <1>2, <1>4, <1>5, <1>6, <1>7, RestLemma DEF Doing

LEMMA PublishEffect ==
    ASSUME TypeOK, NEW m \in Rows, QueueRow(m) \/ BecomeDue(m)
    PROVE  /\ row'[m].attempts = row[m].attempts
           /\ row'[m].status = IF QueueRow(m) THEN "PENDING" ELSE row[m].status
           /\ \A n \in Rows \ {m} : row'[n] = row[n]
<1>1. row[m] \in OutboxRow
  BY DEF TypeOK
<1>2. CASE QueueRow(m)
  <2>1. row' = [row EXCEPT ![m] = [row[m] EXCEPT !.status = "PENDING"]]
    BY <1>2 DEF QueueRow
  <2>2. row'[m] = [row[m] EXCEPT !.status = "PENDING"] /\ \A n \in Rows \ {m} : row'[n] = row[n]
    BY <2>1 DEF TypeOK
  <2> QED BY <1>1, <1>2, <2>2 DEF OutboxRow
<1>3. CASE BecomeDue(m) /\ ~QueueRow(m)
  <2>1. row' = [row EXCEPT ![m] = [row[m] EXCEPT !.due = TRUE]]
    BY <1>3 DEF BecomeDue
  <2>2. row'[m] = [row[m] EXCEPT !.due = TRUE] /\ \A n \in Rows \ {m} : row'[n] = row[n]
    BY <2>1 DEF TypeOK
  <2> QED BY <1>1, <1>3, <2>2 DEF OutboxRow
<1> QED BY <1>2, <1>3

LEMMA WrittenStep ==
    ASSUME TypeOK, Owned, Written, [Next]_vars
    PROVE  Written'
<1> USE DEF Written
<1>1. ASSUME NEW m \in Rows, CreateEvent(m) \/ StopPublisher(m)
      PROVE  Written'
  BY <1>1 DEF CreateEvent, StopPublisher, TypeOK
<1>2. ASSUME NEW m \in Rows, QueueRow(m)
      PROVE  Written'
  <2>1. \A n \in Rows \ {m} : event'[n] = event[n] /\ row'[n] = row[n]
    BY <1>2, PublishEffect DEF QueueRow, TypeOK
  <2>2. event'[m] = "PROCESSED" /\ row'[m].status = "PENDING"
    BY <1>2, PublishEffect DEF QueueRow, TypeOK
  <2> QED BY <2>1, <2>2
<1>3. ASSUME NEW m \in Rows, BecomeDue(m), ~QueueRow(m)
      PROVE  Written'
  <2>1. event' = event /\ \A n \in Rows \ {m} : row'[n] = row[n]
    BY <1>3, PublishEffect DEF BecomeDue
  <2>2. row'[m].attempts = row[m].attempts /\ row'[m].status = row[m].status
    BY <1>3, PublishEffect
  <2> QED BY <2>1, <2>2
<1>4. ASSUME NEW k \in Scans, NEW m \in Rows, Claim(k, m)
      PROVE  Written'
  BY <1>4, ClaimEffect DEF Claim, Claimable, Waiting
<1>5. ASSUME NEW k \in Scans, RecordSent(k) \/ RecordFailed(k)
      PROVE  Written'
  <2> DEFINE m == scan[k].doing
  <2>1. event' = event
    BY <1>5 DEF RecordSent, RecordFailed
  <2>2. /\ m \in Rows /\ row[m].status = "PROCESSING"
        /\ row'[m].status # "ABSENT" /\ \A n \in Rows \ {m} : row'[n] = row[n]
    BY <1>5, RecordEffect
  <2> HIDE DEF m
  <2> QED BY <2>1, <2>2
<1>6. ASSUME event' = event, row' = row
      PROVE  Written'
  BY <1>6
<1>7. ASSUME NEW k \in Scans, NEW m \in Rows, Skip(k, m)
      PROVE  Written'
  BY <1>6, <1>7 DEF Skip
<1>8. ASSUME NEW k \in Scans, NEW taken \in BOOLEAN, NEW answered \in BOOLEAN,
             Deliver(k, taken, answered)
      PROVE  Written'
  BY <1>6, <1>8 DEF Deliver
<1>9. ASSUME NEW k \in Scans, BeginScan(k) \/ SentNotRecorded(k) \/ StopScan(k)
      PROVE  Written'
  BY <1>6, <1>9 DEF BeginScan, SentNotRecorded, StopScan
<1>10. CASE UNCHANGED vars
  BY <1>6, <1>10 DEF vars
<1> HIDE DEF Written
<1> QED BY <1>1, <1>2, <1>3, <1>4, <1>5, <1>7, <1>8, <1>9, <1>10 DEF Next, ScanStep

\* Whatever happens, what a scan has read stays behind the attempts on record.
LEMMA CountedStep ==
    ASSUME TypeOK, Owned, Written, Counted, [Next]_vars
    PROVE  Counted'
<1>1. ASSUME NEW m \in Rows, CreateEvent(m) \/ StopPublisher(m)
      PROVE  Counted'
  BY <1>1 DEF CreateEvent, StopPublisher, Counted, Doing
<1>2. ASSUME NEW m \in Rows, QueueRow(m) \/ BecomeDue(m)
      PROVE  Counted'
  <2>1. \A n \in Rows : row'[n].attempts = row[n].attempts
    BY <1>2, PublishEffect
  <2>2. \A n \in Rows : row'[n].status # "PROCESSING" => row[n].status # "PROCESSING"
    BY <1>2, PublishEffect DEF QueueRow, Written
  <2>3. scan' = scan /\ accepted' = accepted /\ overtaken' = overtaken
    BY <1>2 DEF QueueRow, BecomeDue
  <2> QED BY <2>1, <2>2, <2>3 DEF Counted, Doing
<1>3. ASSUME NEW k \in Scans, BeginScan(k)
      PROVE  Counted'
  <2>1. /\ scan'[k].doing = None /\ \A m \in Rows : scan'[k].seen[m] = row[m].attempts
        /\ \A j \in Scans \ {k} : scan'[j] = scan[j]
    BY <1>3 DEF BeginScan, TypeOK
  <2>2. row' = row /\ accepted' = accepted /\ overtaken' = overtaken
    BY <1>3 DEF BeginScan
  <2>3. \A m \in Rows : ~Doing(k, m)'
    BY <2>1, OutboxAssumption DEF Doing
  <2>4. \A m \in Rows : row[m].attempts \in Nat
    BY DEF TypeOK, OutboxRow
  <2> QED BY <2>1, <2>2, <2>3, <2>4 DEF Counted, Doing
<1>4. ASSUME NEW k \in Scans, NEW m \in Rows, Claim(k, m)
      PROVE  Counted'
  <2>1. accepted' = accepted /\ accepted[m] <= row[m].attempts
    BY <1>4 DEF Claim, Claimable, Waiting, Counted
  <2>2. /\ \A n \in Rows : row'[n].attempts = row[n].attempts
        /\ \A n \in Rows : row'[n].status # "PROCESSING" => row[n].status # "PROCESSING"
    BY <1>4, ClaimEffect
  <2>3. overtaken \subseteq overtaken' /\ (m \notin overtaken' => scan[k].seen[m] = row[m].attempts)
    BY <1>4 DEF Claim, Overtakes
  <2>4. accepted[m] \in Nat /\ row[m].attempts \in Nat
    BY DEF TypeOK, OutboxRow
  <2>5. /\ scan'[k].stage = "delivering" /\ scan'[k].doing = m
        /\ scan[k] # Idle /\ scan'[k].seen = scan[k].seen
        /\ \A j \in Scans \ {k} : scan'[j] = scan[j]
    BY <1>4, ClaimEffect
  <2>6. \A n \in Rows : row'[n].status # "PROCESSING" => accepted'[n] <= row'[n].attempts
    BY <2>1, <2>2 DEF Counted
  <2>7. \A j \in Scans, n \in Rows : scan'[j] # Idle => scan'[j].seen[n] <= row'[n].attempts
    BY <2>2, <2>5 DEF Counted
  <2>8. ASSUME NEW j \in Scans \ {k}, NEW n \in Rows, Doing(j, n)'
        PROVE  /\ scan'[j].stage = "delivering" => accepted'[n] <= row'[n].attempts
               /\ accepted'[n] <= row'[n].attempts + 1
               /\ scan'[j].stage = "delivered" => accepted'[n] > 0
               /\ n \notin overtaken' => scan'[j].seen[n] = row'[n].attempts
    BY <2>1, <2>2, <2>3, <2>5, <2>8 DEF Counted, Doing
  <2>9. ASSUME NEW n \in Rows, Doing(k, n)'
        PROVE  /\ scan'[k].stage = "delivering" => accepted'[n] <= row'[n].attempts
               /\ accepted'[n] <= row'[n].attempts + 1
               /\ scan'[k].stage = "delivered" => accepted'[n] > 0
               /\ n \notin overtaken' => scan'[k].seen[n] = row'[n].attempts
    <3>1. n = m
      BY <2>5, <2>9 DEF Doing
    <3> QED BY <2>1, <2>2, <2>3, <2>4, <2>5, <3>1
  <2> QED BY <2>6, <2>7, <2>8, <2>9 DEF Counted
<1>5. ASSUME NEW k \in Scans, NEW m \in Rows, Skip(k, m)
      PROVE  Counted'
  <2>1. scan[k] \in ScanRow /\ scan[k] # Idle
    BY <1>5 DEF Skip, TypeOK, Idle
  <2>2. scan'[k] = Rest(scan[k], m) /\ \A j \in Scans \ {k} : scan'[j] = scan[j]
    BY <1>5 DEF Skip, TypeOK
  <2>3. \A n \in Rows : ~Doing(k, n)'
    BY <2>1, <2>2, RestLemma, OutboxAssumption DEF Doing
  <2>4. row' = row /\ accepted' = accepted /\ overtaken' = overtaken
    BY <1>5 DEF Skip
  <2> QED BY <2>1, <2>2, <2>3, <2>4, RestLemma DEF Counted, Doing
<1>6. ASSUME NEW k \in Scans, NEW taken \in BOOLEAN, NEW answered \in BOOLEAN,
             Deliver(k, taken, answered)
      PROVE  Counted'
  <2> DEFINE m == scan[k].doing
  <2>1. m \in Rows /\ Doing(k, m) /\ scan[k] # Idle
    BY <1>6 DEF Deliver, TypeOK, Owned, ScanRow, Idle, Doing
  <2>2. accepted[m] <= row[m].attempts /\ accepted[m] \in Nat /\ row[m].attempts \in Nat
    BY <1>6, <2>1 DEF Deliver, Counted, TypeOK, OutboxRow
  <2>3. /\ scan'[k].stage = IF answered THEN "delivered" ELSE "failed"
        /\ scan'[k].doing = m /\ scan'[k].seen = scan[k].seen
        /\ \A j \in Scans \ {k} : scan'[j] = scan[j]
    <3>1. scan[k] \in ScanRow
      BY <2>1 DEF TypeOK
    <3>2. scan' = [scan EXCEPT ![k] = [scan[k] EXCEPT !.stage = IF answered THEN "delivered" ELSE "failed"]]
      BY <1>6 DEF Deliver
    <3>3. /\ scan'[k] = [scan[k] EXCEPT !.stage = IF answered THEN "delivered" ELSE "failed"]
          /\ \A j \in Scans \ {k} : scan'[j] = scan[j]
      BY <3>2 DEF TypeOK
    <3> QED BY <3>1, <3>3 DEF ScanRow
  <2>4. /\ accepted'[m] = IF taken THEN accepted[m] + 1 ELSE accepted[m]
        /\ \A n \in Rows \ {m} : accepted'[n] = accepted[n]
        /\ answered => taken
    BY <1>6, <2>1 DEF Deliver, TypeOK
  <2>5. row' = row /\ overtaken' = overtaken
    BY <1>6 DEF Deliver
  <2>6. row[m].status = "PROCESSING" /\ \A j \in Scans \ {k} : ~Doing(j, m)
    BY <2>1 DEF Owned, OneOwner
  <2> HIDE DEF m
  <2>7. \A n \in Rows : row'[n].status # "PROCESSING" => accepted'[n] <= row'[n].attempts
    BY <2>4, <2>5, <2>6 DEF Counted
  <2>8. \A j \in Scans, n \in Rows : scan'[j] # Idle => scan'[j].seen[n] <= row'[n].attempts
    BY <2>1, <2>3, <2>5 DEF Counted
  <2>9. ASSUME NEW j \in Scans \ {k}, NEW n \in Rows, Doing(j, n)'
        PROVE  /\ scan'[j].stage = "delivering" => accepted'[n] <= row'[n].attempts
               /\ accepted'[n] <= row'[n].attempts + 1
               /\ scan'[j].stage = "delivered" => accepted'[n] > 0
               /\ n \notin overtaken' => scan'[j].seen[n] = row'[n].attempts
    <3>1. Doing(j, n) /\ n # m
      BY <2>3, <2>6, <2>9 DEF Doing
    <3> QED BY <2>3, <2>4, <2>5, <3>1 DEF Counted
  <2>10. ASSUME NEW n \in Rows, Doing(k, n)'
         PROVE  /\ scan'[k].stage = "delivering" => accepted'[n] <= row'[n].attempts
                /\ accepted'[n] <= row'[n].attempts + 1
                /\ scan'[k].stage = "delivered" => accepted'[n] > 0
                /\ n \notin overtaken' => scan'[k].seen[n] = row'[n].attempts
    <3>1. n = m
      BY <2>3, <2>10 DEF Doing
    <3>2. m \notin overtaken => scan[k].seen[m] = row[m].attempts
      BY <2>1 DEF Counted
    <3> QED BY <2>2, <2>3, <2>4, <2>5, <3>1, <3>2
  <2> QED BY <2>7, <2>8, <2>9, <2>10 DEF Counted
<1>7. ASSUME NEW k \in Scans, SentNotRecorded(k)
      PROVE  Counted'
  <2>1. scan[k] \in ScanRow /\ scan[k] # Idle
    BY <1>7 DEF SentNotRecorded, TypeOK, Idle
  <2>2. scan' = [scan EXCEPT ![k] = [scan[k] EXCEPT !.stage = "failed"]]
    BY <1>7 DEF SentNotRecorded
  <2>3. /\ scan'[k] = [scan[k] EXCEPT !.stage = "failed"]
        /\ \A j \in Scans \ {k} : scan'[j] = scan[j]
    BY <2>2 DEF TypeOK
  <2>4. scan'[k].stage = "failed" /\ scan'[k].doing = scan[k].doing /\ scan'[k].seen = scan[k].seen
    BY <2>1, <2>3 DEF ScanRow
  <2>5. row' = row /\ accepted' = accepted /\ overtaken' = overtaken
    BY <1>7 DEF SentNotRecorded
  <2>6. \A j \in Scans : scan'[j] # Idle =>
           /\ scan[j] # Idle /\ scan'[j].seen = scan[j].seen
           /\ scan'[j].doing = scan[j].doing
           /\ scan'[j].stage \in {scan[j].stage, "failed"}
    BY <2>1, <2>3, <2>4
  <2>7. \A j \in Scans, n \in Rows : Doing(j, n)' => Doing(j, n)
    BY <2>6 DEF Doing
  <2> QED BY <2>5, <2>6, <2>7 DEF Counted, Doing
<1>8. ASSUME NEW k \in Scans, RecordSent(k) \/ RecordFailed(k)
      PROVE  Counted'
  <2> DEFINE m == scan[k].doing
  <2>1. /\ m \in Rows /\ Doing(k, m) /\ row[m].status = "PROCESSING"
        /\ row'[m].attempts = row[m].attempts + 1
        /\ \A n \in Rows \ {m} : row'[n] = row[n]
        /\ \A n \in Rows : ~Doing(k, n)'
        /\ scan[k] # Idle /\ (scan'[k] # Idle => scan'[k].seen = scan[k].seen)
        /\ \A j \in Scans \ {k} : scan'[j] = scan[j]
    BY <1>8, RecordEffect
  <2>2. accepted' = accepted /\ overtaken' = overtaken
    BY <1>8 DEF RecordSent, RecordFailed
  <2>3. accepted[m] <= row[m].attempts + 1 /\ accepted[m] \in Nat /\ row[m].attempts \in Nat
    BY <2>1 DEF Counted, TypeOK, OutboxRow
  <2>4. \A j \in Scans \ {k} : ~Doing(j, m)
    BY <2>1 DEF Owned, OneOwner
  <2>5. \A j \in Scans : scan[j] # Idle => scan[j].seen[m] \in Nat
    BY <2>1 DEF TypeOK, ScanRow
  <2> HIDE DEF m
  <2>6. \A n \in Rows : row'[n].status # "PROCESSING" => accepted'[n] <= row'[n].attempts
    BY <2>1, <2>2, <2>3 DEF Counted
  <2>7. ASSUME NEW j \in Scans, NEW n \in Rows, scan'[j] # Idle
        PROVE  scan'[j].seen[n] <= row'[n].attempts
    <3>1. scan[j] # Idle /\ scan'[j].seen = scan[j].seen
      BY <2>1, <2>7
    <3>2. scan[j].seen[n] <= row[n].attempts
      BY <3>1 DEF Counted
    <3>3. CASE n = m
      BY <2>1, <2>3, <2>5, <3>1, <3>2, <3>3
    <3> QED BY <2>1, <3>1, <3>2, <3>3
  <2>8. ASSUME NEW j \in Scans, NEW n \in Rows, Doing(j, n)'
        PROVE  /\ scan'[j].stage = "delivering" => accepted'[n] <= row'[n].attempts
               /\ accepted'[n] <= row'[n].attempts + 1
               /\ scan'[j].stage = "delivered" => accepted'[n] > 0
               /\ n \notin overtaken' => scan'[j].seen[n] = row'[n].attempts
    <3>1. j # k
      BY <2>1, <2>8
    <3>2. Doing(j, n) /\ n # m
      BY <2>1, <2>4, <2>8, <3>1 DEF Doing
    <3>3. scan'[j] = scan[j] /\ row'[n] = row[n] /\ accepted'[n] = accepted[n]
      BY <2>1, <2>2, <3>1, <3>2
    <3> QED BY <2>2, <3>2, <3>3 DEF Counted
  <2> QED BY <2>6, <2>7, <2>8 DEF Counted
<1>9. ASSUME NEW k \in Scans, StopScan(k)
      PROVE  Counted'
  <2>1. scan'[k] = Idle /\ \A j \in Scans \ {k} : scan'[j] = scan[j]
    BY <1>9 DEF StopScan, TypeOK
  <2>2. row' = row /\ accepted' = accepted /\ overtaken' = overtaken
    BY <1>9 DEF StopScan
  <2> QED BY <2>1, <2>2 DEF Counted, Doing
<1>10. CASE UNCHANGED vars
  BY <1>10 DEF vars, Counted, Doing
<1> QED BY <1>1, <1>2, <1>3, <1>4, <1>5, <1>6, <1>7, <1>8, <1>9, <1>10 DEF Next, ScanStep

LEMMA GivenUpStep ==
    ASSUME TypeOK, Owned, Written, Counted, NoSilentGiveUp, [Next]_vars
    PROVE  NoSilentGiveUp'
<1> USE DEF NoSilentGiveUp, Waiting
<1>1. ASSUME row' = row, stranded \subseteq stranded', overtaken' = overtaken
      PROVE  NoSilentGiveUp'
  BY <1>1
<1>2. ASSUME NEW m \in Rows, CreateEvent(m) \/ StopPublisher(m)
      PROVE  NoSilentGiveUp'
  BY <1>1, <1>2 DEF CreateEvent, StopPublisher
<1>3. ASSUME NEW m \in Rows, QueueRow(m) \/ BecomeDue(m)
      PROVE  NoSilentGiveUp'
  <2>1. stranded' = stranded /\ overtaken' = overtaken
    BY <1>3 DEF QueueRow, BecomeDue
  <2>2. \A n \in Rows : row'[n].attempts = row[n].attempts
    BY <1>3, PublishEffect
  <2>3. \A n \in Rows \ {m} : row'[n] = row[n]
    BY <1>3, PublishEffect
  <2>4. QueueRow(m) => row[m].attempts = 0
    BY DEF QueueRow, Written
  <2>5. ~QueueRow(m) => row'[m].status = row[m].status
    BY <1>3, PublishEffect
  <2> QED BY <2>1, <2>2, <2>3, <2>4, <2>5, OutboxAssumption
<1>4. ASSUME NEW k \in Scans, NEW m \in Rows, Claim(k, m)
      PROVE  NoSilentGiveUp'
  <2>1. stranded' = stranded /\ overtaken \subseteq overtaken'
    BY <1>4 DEF Claim
  <2>2. row'[m].status = "PROCESSING" /\ \A n \in Rows \ {m} : row'[n] = row[n]
    BY <1>4, ClaimEffect
  <2> QED BY <2>1, <2>2
<1>5. ASSUME NEW k \in Scans, NEW m \in Rows, Skip(k, m)
      PROVE  NoSilentGiveUp'
  BY <1>1, <1>5 DEF Skip
<1>6. ASSUME NEW k \in Scans, NEW taken \in BOOLEAN, NEW answered \in BOOLEAN,
             Deliver(k, taken, answered)
      PROVE  NoSilentGiveUp'
  BY <1>1, <1>6 DEF Deliver
<1>7. ASSUME NEW k \in Scans, BeginScan(k) \/ SentNotRecorded(k) \/ StopScan(k)
      PROVE  NoSilentGiveUp'
  BY <1>1, <1>7 DEF BeginScan, SentNotRecorded, StopScan
<1>8. ASSUME NEW k \in Scans, RecordSent(k) \/ RecordFailed(k)
      PROVE  NoSilentGiveUp'
  <2> DEFINE m == scan[k].doing
  <2>1. stranded' = stranded /\ overtaken' = overtaken
    BY <1>8 DEF RecordSent, RecordFailed
  <2>2. /\ m \in Rows /\ Doing(k, m) /\ scan[k] # Idle
        /\ row'[m].attempts = row[m].attempts + 1
        /\ \A n \in Rows \ {m} : row'[n] = row[n]
    BY <1>8, RecordEffect
  <2>3. m \notin overtaken => scan[k].seen[m] = row[m].attempts
    BY <2>2 DEF Counted
  <2>4. row[m] \in OutboxRow /\ scan[k].seen[m] \in Nat
    BY <2>2 DEF TypeOK, ScanRow
  <2>5. row'[m].status \in {"PENDING", "FAILED"} => scan[k].seen[m] + 1 < MaxAttempts
    <3>1. CASE RecordSent(k)
      <4>1. row'[m] = Sent(m)
        BY <2>2, <3>1 DEF RecordSent, TypeOK
      <4> QED BY <2>2, <2>4, <4>1, SentLemma
    <3>2. CASE RecordFailed(k)
      <4>1. row'[m] = Failed(m, scan[k].seen[m])
        BY <2>2, <3>2 DEF RecordFailed, TypeOK
      <4> QED BY <2>2, <2>4, <4>1, FailedLemma, OutboxAssumption
    <3> QED BY <1>8, <3>1, <3>2
  <2> HIDE DEF m
  <2> QED BY <2>1, <2>2, <2>3, <2>5
<1>9. CASE UNCHANGED vars
  BY <1>1, <1>9 DEF vars
<1> HIDE DEF NoSilentGiveUp
<1> QED BY <1>2, <1>3, <1>4, <1>5, <1>6, <1>7, <1>8, <1>9 DEF Next, ScanStep

LEMMA InvStep == Inv /\ [Next]_vars => Inv'
BY TypeStep, OwnedStep, WrittenStep, CountedStep, GivenUpStep DEF Inv

LEMMA Invariant == Spec => []Inv
BY InitInv, InvStep, PTL DEF Spec

-----------------------------------------------------------------------------

\* The rows, the scans and what is kept about them are always well formed, for
\* any rows, scans, attempts and stops (notifications.service.ts).
THEOREM OutboxTypeCorrect == Spec => []TypeOK
<1>1. Inv => TypeOK
  BY DEF Inv
<1> QED BY <1>1, Invariant, PTL

\* A row is PROCESSING exactly while one scan works on it, or was cut short over
\* it, and no row that waits has used up its attempts, however many scans of
\* processPending overlap.
THEOREM RowsStayLookedAfter == Spec => []RowsLookedAfter
<1>1. Inv => RowsLookedAfter
  BY DEF Inv, Owned, RowsLookedAfter
<1> QED BY <1>1, Invariant, PTL

-----------------------------------------------------------------------------
(* The refinement.                                                         *)

LEMMA MoveLemma ==
    ASSUME NEW m \in Rows, NEW from, NEW to,
           Place(row[m].status) = from, Place(row'[m].status) = to,
           \A n \in Rows \ {m} : row'[n] = row[n]
    PROVE  Promise!Move(m, from, to)
BY DEF Promise!Move

\* What is not told apart by the promise.
LEMMA Stutter ==
    ASSUME accepted' = accepted,
           \A n \in Rows : /\ row'[n].attempts = row[n].attempts
                           /\ Place(row'[n].status) = Place(row[n].status)
    PROVE  UNCHANGED Promise!deliveryVars
BY DEF Promise!deliveryVars

LEMMA EndLemma ==
    ASSUME Inv, NEW k \in Scans, RecordSent(k) \/ RecordFailed(k)
    PROVE  Promise!DeliveryNext
<1> USE DEF Inv
<1>1. PICK m \in Rows : m = scan[k].doing
  BY RecordEffect
<1>2. /\ Doing(k, m) /\ row[m].status = "PROCESSING"
      /\ row'[m].attempts = row[m].attempts + 1
      /\ \A n \in Rows \ {m} : row'[n] = row[n]
  BY <1>1, RecordEffect
<1>3. row[m] \in OutboxRow /\ scan[k].seen[m] \in Nat
  BY <1>2 DEF TypeOK, Doing, ScanRow
<1>4. PICK to \in {"waiting", "delivered", "given up"} :
        /\ to = Place(row'[m].status)
        /\ to = "delivered" => accepted[m] > 0
        /\ to = "given up" => row[m].attempts + 1 >= MaxAttempts
  <2>1. CASE RecordSent(k)
    <3>1. row'[m] = Sent(m) /\ scan[k].stage = "delivered"
      BY <1>1, <2>1 DEF RecordSent, TypeOK
    <3>2. Place(row'[m].status) = "delivered"
      BY <1>3, <3>1, SentLemma DEF Place
    <3> QED BY <1>2, <3>1, <3>2 DEF Counted
  <2>2. CASE RecordFailed(k)
    <3>1. row'[m] = Failed(m, scan[k].seen[m])
      BY <1>1, <2>2 DEF RecordFailed, TypeOK
    <3>2. row'[m].status = IF scan[k].seen[m] + 1 >= MaxAttempts THEN "DEAD_LETTER" ELSE "FAILED"
      BY <1>3, <3>1, FailedLemma
    <3>3. Place(row'[m].status) = IF scan[k].seen[m] + 1 >= MaxAttempts THEN "given up" ELSE "waiting"
      BY <3>2 DEF Place
    <3>4. scan[k].seen[m] <= row[m].attempts /\ row[m].attempts \in Nat
      BY <1>2, <1>3 DEF Counted, Doing, OutboxRow
    <3>5. CASE scan[k].seen[m] + 1 >= MaxAttempts
      <4>1. row[m].attempts + 1 >= MaxAttempts
        BY <1>3, <3>4, <3>5, OutboxAssumption
      <4> QED BY <3>3, <3>5, <4>1
    <3>6. CASE ~(scan[k].seen[m] + 1 >= MaxAttempts)
      BY <3>3, <3>6
    <3> QED BY <3>5, <3>6
  <2> QED BY <2>1, <2>2
<1>5. Promise!Move(m, "tried", to)
  <2>1. Place(row[m].status) = "tried"
    BY <1>2 DEF Place
  <2> QED BY <1>2, <1>4, <2>1, MoveLemma
<1>6. [n \in Rows |-> row[n].attempts]' = [[n \in Rows |-> row[n].attempts] EXCEPT ![m] = @ + 1]
  BY <1>2
<1>7. accepted' = accepted
  BY DEF RecordSent, RecordFailed
<1>8. Promise!EndTry(m, to)
  BY <1>2, <1>4, <1>5, <1>6, <1>7 DEF Promise!EndTry
<1> QED BY <1>8 DEF Promise!DeliveryNext

LEMMA PromiseStep ==
    ASSUME Inv, [Next]_vars
    PROVE  [Promise!DeliveryNext]_Promise!deliveryVars
<1> USE DEF Inv
<1>1. ASSUME row' = row, accepted' = accepted
      PROVE  UNCHANGED Promise!deliveryVars
  BY <1>1, Stutter
<1>2. ASSUME NEW m \in Rows, QueueRow(m)
      PROVE  Promise!DeliveryNext
  <2>1. /\ row[m].status = "ABSENT" /\ row'[m].status = "PENDING"
        /\ \A n \in Rows \ {m} : row'[n] = row[n]
        /\ \A n \in Rows : row'[n].attempts = row[n].attempts
    BY <1>2, PublishEffect DEF QueueRow, Written
  <2>2. Place(row[m].status) = "unwritten" /\ Place(row'[m].status) = "waiting"
    BY <2>1 DEF Place
  <2>3. Promise!Move(m, "unwritten", "waiting")
    BY <2>1, <2>2, MoveLemma
  <2>4. accepted' = accepted
    BY <1>2 DEF QueueRow
  <2>5. Promise!Post(m)
    BY <2>1, <2>3, <2>4 DEF Promise!Post
  <2> QED BY <2>5 DEF Promise!DeliveryNext
<1>3. ASSUME NEW m \in Rows, BecomeDue(m), ~QueueRow(m)
      PROVE  UNCHANGED Promise!deliveryVars
  <2>1. accepted' = accepted
    BY <1>3 DEF BecomeDue
  <2>2. /\ row'[m].attempts = row[m].attempts /\ row'[m].status = row[m].status
        /\ \A n \in Rows \ {m} : row'[n] = row[n]
    BY <1>3, PublishEffect
  <2> QED BY <2>1, <2>2, Stutter
<1>4. ASSUME NEW k \in Scans, NEW m \in Rows, Claim(k, m)
      PROVE  Promise!DeliveryNext
  <2>1. /\ row'[m].status = "PROCESSING" /\ row'[m].attempts = row[m].attempts
        /\ \A n \in Rows \ {m} : row'[n] = row[n]
    BY <1>4, ClaimEffect
  <2>2. row[m].status \in {"PENDING", "FAILED"} /\ accepted' = accepted
    BY <1>4 DEF Claim, Claimable, Waiting
  <2>3. Place(row[m].status) = "waiting" /\ Place(row'[m].status) = "tried"
    BY <2>1, <2>2 DEF Place
  <2>4. Promise!Move(m, "waiting", "tried")
    BY <2>1, <2>3, MoveLemma
  <2>5. Promise!Try(m)
    BY <2>1, <2>2, <2>4 DEF Promise!Try
  <2> QED BY <2>5 DEF Promise!DeliveryNext
<1>5. ASSUME NEW k \in Scans, NEW taken \in BOOLEAN, NEW answered \in BOOLEAN,
             Deliver(k, taken, answered), taken
      PROVE  Promise!DeliveryNext
  <2> DEFINE m == scan[k].doing
  <2>1. m \in Rows /\ Doing(k, m) /\ scan[k].stage = "delivering" /\ row' = row
    BY <1>5 DEF Deliver, TypeOK, Owned, ScanRow, Idle, Doing
  <2>2. accepted' = [accepted EXCEPT ![m] = @ + 1]
    BY <1>5 DEF Deliver
  <2>3. accepted[m] <= row[m].attempts /\ row[m].status = "PROCESSING"
    BY <2>1 DEF Counted, Owned, OneOwner
  <2>4. Place(row[m].status) = "tried"
    BY <2>3 DEF Place
  <2> HIDE DEF m
  <2>5. Promise!Hand(m)
    BY <2>1, <2>2, <2>3, <2>4 DEF Promise!Hand
  <2> QED BY <2>1, <2>5 DEF Promise!DeliveryNext
<1>6. ASSUME NEW k \in Scans, NEW taken \in BOOLEAN, NEW answered \in BOOLEAN,
             Deliver(k, taken, answered), ~taken
      PROVE  UNCHANGED Promise!deliveryVars
  BY <1>1, <1>6 DEF Deliver
<1>7. ASSUME NEW k \in Scans, NEW m \in Rows, Skip(k, m)
      PROVE  UNCHANGED Promise!deliveryVars
  BY <1>1, <1>7 DEF Skip
<1>8. ASSUME NEW m \in Rows, CreateEvent(m) \/ StopPublisher(m)
      PROVE  UNCHANGED Promise!deliveryVars
  BY <1>1, <1>8 DEF CreateEvent, StopPublisher
<1>9. ASSUME NEW k \in Scans, BeginScan(k) \/ SentNotRecorded(k) \/ StopScan(k)
      PROVE  UNCHANGED Promise!deliveryVars
  BY <1>1, <1>9 DEF BeginScan, SentNotRecorded, StopScan
<1>10. CASE UNCHANGED vars
  BY <1>1, <1>10 DEF vars
<1> HIDE DEF Inv
<1> QED BY <1>2, <1>3, <1>4, <1>5, <1>6, <1>7, <1>8, <1>9, <1>10, EndLemma DEF Next, ScanStep

\* The outbox does what it promises: every step of a publisher or a scan is a
\* step of module Delivery or leaves the promise alone.
THEOREM PromiseKept == Spec => DeliversAsPromised
<1>1. Init => Promise!DeliveryInit
  BY DEF Init, Place, Promise!DeliveryInit
<1>2. Inv /\ [Next]_vars => [Promise!DeliveryNext]_Promise!deliveryVars
  BY PromiseStep
<1> QED BY <1>1, <1>2, Invariant, PTL DEF Spec, DeliversAsPromised, Promise!DeliverySpec
=============================================================================
