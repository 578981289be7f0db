----------------------------- MODULE Promotions -----------------------------
(***************************************************************************)
(* Discount rules from their creation to their announcement and their use: *)
(* src/modules/discounts/discounts.service.ts, the launches of             *)
(* src/modules/notifications/notification-worker.service.ts and the prices *)
(* of src/modules/sales/sales.service.ts.                                  *)
(*                                                                         *)
(* A date that is not given is an end of time: 0 for a rule that has       *)
(* always started, Never for one that does not end.  What the rule grants  *)
(* is the number of times its configuration was edited.                    *)
(***************************************************************************)
EXTENDS Integers, FiniteSets

CONSTANTS
    Rules,         \* the discount rules of one product
    Priority,      \* [Rules -> Nat], distinct
    Editors,       \* the requests served at one time
    Editable,      \* bound: the rules made and edited; the others are there from the start
    MaxClock,      \* bound: the last moment
    MaxEdits       \* bound: a rule edited so often is not edited again

ASSUME PromotionsAssumption ==
    /\ Priority \in [Rules -> Nat]
    /\ \A r, s \in Rules : Priority[r] = Priority[s] => r = s
    /\ Editable \subseteq Rules
    /\ MaxClock \in Nat \ {0} /\ MaxEdits \in Nat

VARIABLES
    clock,
    rule,      \* DiscountRule
    edit,      \* an edit or removal in progress
    cart,      \* the checkout in progress: the rule it was priced with
    applications,   \* DiscountApplication
    phase,     \* the round of the worker; "idle": not running
    toLaunch,     \* the rules it has yet to launch, as it read them
    launched,  \* [Rules -> the terms announced, launch by launch]
    tardy,     \* history: rules that started between the moment a statement
               \* compared with and its write
    moved,     \* history: [Rules -> how many of those writes set the start]
    overlaid   \* history: rules edited while they were being edited

promotionVars == <<clock, rule, edit, cart, applications, phase, toLaunch, launched, tardy, moved, overlaid>>

Never == MaxClock + 1
Starts == 0..MaxClock
Ends == 1..Never

DiscountRule == [there : BOOLEAN, status : {"ACTIVE", "INACTIVE"}, start : Starts, end : Ends,
                 notified : BOOLEAN, terms : Nat]
NoRule == [there |-> FALSE, status |-> "INACTIVE", start |-> 0, end |-> Never,
           notified |-> FALSE, terms |-> 0]
NoEdit == [op |-> "none"]
NoCart == [rule |-> "none"]

EditOK(e) ==
    \/ e = NoEdit
    \/ e \in [op : {"start"}, rule : Rules, value : Starts, since : Starts, read : Nat]
    \/ e \in [op : {"end"}, rule : Rules, value : Ends, since : Starts, read : Nat]
    \/ e \in [op : {"remove"}, rule : Rules, since : Starts]

PromotionsTypeOK ==
    /\ clock \in 0..MaxClock
    /\ rule \in [Rules -> DiscountRule]
    /\ DOMAIN edit = Editors /\ \A k \in Editors : EditOK(edit[k])
    /\ cart = NoCart \/ cart \in [rule : Rules, terms : Nat]
    /\ applications \subseteq [rule : Rules, terms : Nat]
    /\ phase \in {"idle", "launching", "delivering"}
    /\ toLaunch \subseteq [rule : Rules, terms : Nat]
    /\ \A r \in Rules : launched[r].times \in Nat /\ launched[r].terms \in Nat
    /\ tardy \subseteq Rules /\ moved \in [Rules -> Nat] /\ overlaid \subseteq Rules

PromotionsInit ==
    /\ clock = 0
    /\ rule = [r \in Rules |-> IF r \in Editable THEN NoRule
                 ELSE [NoRule EXCEPT !.there = TRUE, !.status = "ACTIVE"]]
    /\ edit = [k \in Editors |-> NoEdit]
    /\ cart = NoCart /\ applications = {}
    /\ phase = "idle" /\ toLaunch = {}
    /\ launched = [r \in Rules |-> [times |-> 0, terms |-> 0]]
    /\ tardy = {} /\ moved = [r \in Rules |-> 0] /\ overlaid = {}

office == <<rule, edit, tardy, moved, overlaid>>
worker == <<phase, toLaunch, launched>>
till == <<cart, applications>>

-----------------------------------------------------------------------------
(* The discounts service.  The price, the quantities and the texts of a    *)
(* rule are edited under the same conditions as its end, the channels it   *)
(* is announced on under those of its start, which they leave as it is.    *)

\* validate, as far as it is about dates.
EndsLater(start, end) == start > 0 /\ end < Never => start < end

\* A row is created once: a rule that was removed does not come back.
CreateRule(r, start, end) ==
    /\ rule[r] = NoRule
    /\ EndsLater(start, end)
    /\ rule' = [rule EXCEPT ![r] = [NoRule EXCEPT !.there = TRUE, !.status = "ACTIVE",
                                                  !.start = start, !.end = end]]
    /\ UNCHANGED <<clock, edit, tardy, moved, overlaid, worker, till>>

\* update of the status alone, which still validates the dates there are.
SetStatus(r, status) ==
    /\ rule[r].there /\ EndsLater(rule[r].start, rule[r].end)
    /\ rule' = [rule EXCEPT ![r].status = status]
    /\ UNCHANGED <<clock, edit, tardy, moved, overlaid, worker, till>>

Note(k, e) ==
    /\ edit[k] = NoEdit
    /\ edit' = [edit EXCEPT ![k] = e]
    /\ UNCHANGED <<clock, rule, tardy, moved, overlaid, worker, till>>

Ahead(r, now) == rule[r].there /\ rule[r].start > now

\* Fault: a start that comes alone is not validated.
AnyStart(k, r, start) ==
    /\ Ahead(r, clock) /\ start > 0 /\ rule[r].terms < MaxEdits
    /\ Note(k, [op |-> "start", rule |-> r, value |-> start, since |-> clock,
                read |-> rule[r].terms])

\* update of one date; the other one is taken from the rule as it was read.
BeginStart(k, r, start) ==
    /\ Ahead(r, clock) /\ start > 0 /\ rule[r].terms < MaxEdits
    /\ EndsLater(start, rule[r].end)
    /\ Note(k, [op |-> "start", rule |-> r, value |-> start, since |-> clock,
                read |-> rule[r].terms])

BeginEnd(k, r, end) ==
    /\ Ahead(r, clock) /\ end < Never /\ rule[r].terms < MaxEdits
    /\ EndsLater(rule[r].start, end)
    /\ Note(k, [op |-> "end", rule |-> r, value |-> end, since |-> clock,
                read |-> rule[r].terms])

BeginRemoval(k, r) ==
    /\ rule[r].there
    /\ Note(k, [op |-> "remove", rule |-> r, since |-> clock])

\* Fault: every edit has the rule announced again.
Unreset(old, e) == [old EXCEPT ![e.op] = e.value, !.terms = @ + 1, !.notified = FALSE]

Edited(old, e) ==
    [old EXCEPT ![e.op] = e.value, !.terms = @ + 1, !.notified = @ /\ e.op # "start"]

\* The rule starts after the moment `now` that the statement compares with and
\* before it is written.
Overtaken(r, now) == now < rule[r].start /\ rule[r].start <= clock

Written(r, now) == tardy' = IF Overtaken(r, now) THEN tardy \cup {r} ELSE tardy

\* Fault: the statement does not look whether the rule has started.
AnyWrite(r, now) == rule[r].there

Writable(r, now) == Ahead(r, now)

\* The moment that the statement compares with is read before it is run.
CommitEdit(k) ==
    LET e == edit[k]
        r == e.rule
    IN
    /\ e.op \in {"start", "end"}
    /\ \E now \in e.since..clock :
          /\ Writable(r, now)
          /\ Written(r, now)
          /\ moved' = IF e.op = "start" /\ Overtaken(r, now) THEN [moved EXCEPT ![r] = @ + 1]
                      ELSE moved
    /\ rule' = [rule EXCEPT ![r] = Edited(@, e)]
    /\ overlaid' = IF rule[r].terms # e.read THEN overlaid \cup {r} ELSE overlaid
    /\ edit' = [edit EXCEPT ![k] = NoEdit]
    /\ UNCHANGED <<clock, worker, till>>

\* Fault: a rule that has started is removed.
NotApplied(r, now) == rule[r].there /\ \A a \in applications : a.rule # r

Removable(r, now) == Ahead(r, now) /\ \A a \in applications : a.rule # r

CommitRemoval(k) ==
    LET r == edit[k].rule IN
    /\ edit[k].op = "remove"
    /\ \E now \in edit[k].since..clock : Removable(r, now) /\ Written(r, now)
    /\ rule' = [rule EXCEPT ![r].there = FALSE]
    /\ edit' = [edit EXCEPT ![k] = NoEdit]
    /\ UNCHANGED <<clock, moved, overlaid, worker, till>>

\* The statement finds no row, or fails.
RefuseEdit(k) ==
    /\ edit[k] # NoEdit
    /\ edit' = [edit EXCEPT ![k] = NoEdit]
    /\ UNCHANGED <<clock, rule, tardy, moved, overlaid, worker, till>>

-----------------------------------------------------------------------------
(* create and quote of the sales service: the rule of the highest priority *)
(* that applies now prices the line; the application is written later.     *)

\* Fault: a rule applies before it has started.
Unended(r) == rule[r].there /\ rule[r].status = "ACTIVE" /\ clock <= rule[r].end

Eligible(r) ==
    /\ rule[r].there /\ rule[r].status = "ACTIVE"
    /\ rule[r].start <= clock /\ clock <= rule[r].end

Price(r) ==
    /\ cart = NoCart
    /\ Eligible(r) /\ \A s \in Rules : Eligible(s) => Priority[s] <= Priority[r]
    /\ cart' = [rule |-> r, terms |-> rule[r].terms]
    /\ UNCHANGED <<clock, office, worker, applications>>

\* The sale is not written if the rule it applies has gone.
Sell(done) ==
    /\ cart # NoCart
    /\ done => rule[cart.rule].there
    /\ applications' = IF done THEN applications \cup {cart} ELSE applications
    /\ cart' = NoCart
    /\ UNCHANGED <<clock, office, worker>>

-----------------------------------------------------------------------------
(* process and promotionLaunches of the worker.                            *)

\* Fault: a launch does not look whether the rule was launched.
AnyDue(r) == Eligible(r)

Due(r) == Eligible(r) /\ ~rule[r].notified

StartRound ==
    /\ phase = "idle"
    /\ phase' = "launching"
    /\ toLaunch' = {[rule |-> r, terms |-> rule[r].terms] : r \in {s \in Rules : Due(s)}}
    /\ UNCHANGED <<clock, office, launched, till>>

\* One transaction: the event, the messages, and the rule as notified.
Launch(b) ==
    /\ phase = "launching" /\ b \in toLaunch
    /\ rule[b.rule].there
    /\ rule' = [rule EXCEPT ![b.rule].notified = TRUE]
    /\ launched' = [launched EXCEPT ![b.rule] = [times |-> @.times + 1, terms |-> b.terms]]
    /\ toLaunch' = toLaunch \ {b}
    /\ UNCHANGED <<clock, edit, tardy, moved, overlaid, phase, till>>

\* Fault: the flag stays set when a launch throws.
Stuck == "failed"

AfterFailure == "idle"

\* A launch throws, as that of a rule that has gone always does: the round is
\* over, and nothing was delivered in it.
FailLaunch(b) ==
    /\ phase = "launching" /\ b \in toLaunch
    /\ phase' = AfterFailure
    /\ toLaunch' = {}
    /\ UNCHANGED <<clock, office, launched, till>>

Deliver ==
    /\ phase = "launching" /\ toLaunch = {}
    /\ phase' = "delivering"
    /\ UNCHANGED <<clock, office, toLaunch, launched, till>>

EndRound ==
    /\ phase = "delivering"
    /\ phase' = "idle"
    /\ UNCHANGED <<clock, office, toLaunch, launched, till>>

Tick ==
    /\ clock < MaxClock
    /\ clock' = clock + 1
    /\ UNCHANGED <<office, worker, till>>

WorkerStep ==
    \/ StartRound
    \/ \E b \in toLaunch : Launch(b) \/ FailLaunch(b)
    \/ Deliver
    \/ EndRound

PromotionsNext ==
    \/ \E r \in Editable, start \in Starts, end \in Ends : CreateRule(r, start, end)
    \/ \E r \in Editable, status \in {"ACTIVE", "INACTIVE"} : SetStatus(r, status)
    \/ \E k \in Editors, r \in Editable :
          \/ \E start \in Starts : BeginStart(k, r, start)
          \/ \E end \in Ends : BeginEnd(k, r, end)
          \/ BeginRemoval(k, r)
    \/ \E k \in Editors : CommitEdit(k) \/ CommitRemoval(k) \/ RefuseEdit(k)
    \/ \E r \in Rules : Price(r)
    \/ \E done \in BOOLEAN : Sell(done)
    \/ WorkerStep
    \/ Tick

\* The timer starts a round every thirty seconds and a round runs to its end;
\* nothing makes time pass or a request arrive.
PromotionsFairness == WF_promotionVars(WorkerStep)

PromotionsSpec == PromotionsInit /\ [][PromotionsNext]_promotionVars /\ PromotionsFairness

-----------------------------------------------------------------------------

\* A rule is announced once, and once more for every write of its start that it
\* overtook, however often it was edited before and whatever failed; what was
\* announced is what it grants, unless it overtook a write.
AnnouncedOnce ==
    /\ \A r \in Rules : launched[r].times <= 1 + moved[r]
    /\ \A r \in Rules \ tardy :
          launched[r].times > 0 => rule[r].there /\ launched[r].terms = rule[r].terms

\* A discount that a sale was given stays on record, and with the terms it was
\* given on, unless the rule started while a statement was under way that had
\* compared its start with an earlier moment: any other write that the start
\* should have stopped is one too many.
AppliedAsAgreed ==
    \A a \in applications :
        rule[a.rule].there /\ (a.rule \notin tardy => a.terms = rule[a.rule].terms)

\* A rule ends after it starts, unless it was edited while it was being
\* edited: each of the two takes the other date from what it read.
EndsAfterStart == \A r \in Rules \ overlaid : EndsLater(rule[r].start, rule[r].end)

\* The terms of a rule, its dates and what it grants, are those agreed on.
TermsHold == AppliedAsAgreed /\ EndsAfterStart

\* A rule in its period is announced, or paused, or over, in the end.
EventuallyLaunched ==
    \A r \in Rules : Due(r) ~> (rule[r].notified \/ ~Eligible(r))

\* Launches that fail do not stop the deliveries: a round gets to them again.
RoundsDeliver == []<>(phase = "delivering")

\* A launch fails although its rule is there.
LaunchBreaks == \E b \in toLaunch : rule[b.rule].there /\ FailLaunch(b)

\* The worker never gets stuck, with what it launches or what it delivers,
\* unless launches fail again and again: a promotion whose launch throws each
\* time has every round end before the deliveries, and the promotions read
\* after it are not launched either.  Rules that go away while they are
\* launched do not stop the worker for good.
WorkerGoesOn == (EventuallyLaunched /\ RoundsDeliver) \/ []<><<LaunchBreaks>>_promotionVars
=============================================================================
