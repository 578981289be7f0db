----------------------------- MODULE Warranties -----------------------------
(***************************************************************************)
(* Warranty policies and the warranties of serialized units:               *)
(* src/modules/warranties/warranties.service.ts, the warranty a sale       *)
(* starts, with sales/warranty-period.ts, and the one a return voids.      *)
(*                                                                         *)
(* Months are counted from January of a leap year.  No code of the         *)
(* repository issues a link or leaves a warranty pending, but activate     *)
(* serves both: they are rows that were there before.                      *)
(***************************************************************************)
EXTENDS Integers, FiniteSets

CONSTANTS
    Policies,  \* the policies of one product
    Units,     \* its serialized units
    Links,     \* the units sold with a pending warranty and a link
    Desks,     \* the requests served at one time
    Moments,   \* the <<month, day>> at which goods are sold and links opened
    Duration   \* the months of every policy

ASSUME WarrantiesAssumption ==
    /\ Links \subseteq Units /\ Duration \in Nat \ {0}
    /\ Moments \subseteq (0..11) \X (1..31)

VARIABLES
    policy,    \* WarrantyPolicy: its status, or "none"
    policyWork,\* a creation or activation of a policy in progress
    doubled,   \* history: two of them overlapped
    goods,     \* where a unit is
    warranty,  \* Warranty: status, start and end
    link,      \* QrAccessGrant
    opened,    \* an activation in progress: its unit
    crossed    \* history: units returned while their link was being opened

warrantyVars == <<policy, policyWork, doubled, goods, warranty, link, opened, crossed>>
policyVars == <<policy, policyWork, doubled>>
goodsVars == <<goods, warranty, link, opened, crossed>>

Days(month) ==
    CASE month % 12 = 1 -> 28 + (IF month < 12 THEN 1 ELSE 0)
      [] month % 12 \in {3, 5, 8, 10} -> 30
      [] OTHER -> 31

Free == [op |-> "free"]
NoWarranty == [status |-> "none"]
Dates == (0..(11 + Duration + 1)) \X (1..31)

WarrantiesTypeOK ==
    /\ policy \in [Policies -> {"none", "ACTIVE", "INACTIVE"}]
    /\ \A k \in Desks : policyWork[k] \in {Free} \cup [op : {"activate"}, policy : Policies]
    /\ goods \in [Units -> {"stock", "sold", "returned"}]
    /\ \A u \in Units : warranty[u] = NoWarranty
                     \/ warranty[u] \in [status : {"PENDING"}]
                     \/ warranty[u] \in [status : {"ACTIVE", "VOIDED"}, start : Dates, end : Dates,
                                         by : {"sale", "link"}]
                     \/ warranty[u] \in [status : {"VOIDED"}]
    /\ link \in [Links -> {"open", "used"}]
    /\ \A k \in Desks : opened[k] \in {Free} \cup [op : {"open"}, unit : Links, at : Moments]
    /\ doubled \in BOOLEAN /\ crossed \subseteq Links

WarrantiesInit ==
    /\ policy = [p \in Policies |-> "none"]
    /\ policyWork = [k \in Desks |-> Free] /\ doubled = FALSE
    /\ goods = [u \in Units |-> IF u \in Links THEN "sold" ELSE "stock"]
    /\ warranty = [u \in Units |-> IF u \in Links THEN [status |-> "PENDING"] ELSE NoWarranty]
    /\ link = [u \in Links |-> "open"]
    /\ opened = [k \in Desks |-> Free] /\ crossed = {}

Valid == {p \in Policies : policy[p] = "ACTIVE"}

\* createPolicy, and updatePolicy to ACTIVE: refused if another one is active.
BeginPolicy(k, p) ==
    /\ policyWork[k] = Free /\ policy[p] # "ACTIVE" /\ Valid = {}
    /\ policyWork' = [policyWork EXCEPT ![k] = [op |-> "activate", policy |-> p]]
    /\ UNCHANGED <<policy, doubled, goodsVars>>

CommitPolicy(k) ==
    /\ policyWork[k] # Free
    /\ policy' = [policy EXCEPT ![policyWork[k].policy] = "ACTIVE"]
    /\ doubled' = (doubled \/ Valid # {})
    /\ policyWork' = [policyWork EXCEPT ![k] = Free]
    /\ UNCHANGED goodsVars

EndPolicy(p) ==
    /\ policy[p] = "ACTIVE"
    /\ policy' = [policy EXCEPT ![p] = "INACTIVE"]
    /\ UNCHANGED <<policyWork, doubled, goodsVars>>

\* The day that setMonth of a Date gives: a day the month lacks runs over.
RolledOver(at, months) ==
    LET month == at[1] + months IN
    IF at[2] <= Days(month) THEN <<month, at[2]>> ELSE <<month + 1, at[2] - Days(month)>>

calculateWarrantyEndDate(at, months) ==
    LET month == at[1] + months IN
    <<month, IF at[2] <= Days(month) THEN at[2] ELSE Days(month)>>

\* The sale of a unit starts its warranty if the product has a policy.
SellUnit(u, at) ==
    /\ goods[u] = "stock"
    /\ goods' = [goods EXCEPT ![u] = "sold"]
    /\ warranty' = IF Valid = {} THEN warranty
                   ELSE [warranty EXCEPT ![u] =
                           [status |-> "ACTIVE", start |-> at, by |-> "sale",
                            end |-> calculateWarrantyEndDate(at, Duration)]]
    /\ UNCHANGED <<policyVars, link, opened, crossed>>

\* Fault: only an active warranty is voided.
VoidedIfActive(w) == IF w.status = "ACTIVE" THEN [w EXCEPT !.status = "VOIDED"] ELSE w

Voided(w) == IF w = NoWarranty THEN w ELSE [w EXCEPT !.status = "VOIDED"]

ReturnUnit(u) ==
    /\ goods[u] = "sold"
    /\ goods' = [goods EXCEPT ![u] = "returned"]
    /\ warranty' = [warranty EXCEPT ![u] = Voided(@)]
    /\ crossed' = IF \E k \in Desks : opened[k] # Free /\ opened[k].unit = u
                    THEN crossed \cup {u} ELSE crossed
    /\ UNCHANGED <<policyVars, link, opened>>

\* activate: the link and the warranty are read, then both are written on the
\* condition that the link is unused.
BeginActivation(k, u, at) ==
    /\ opened[k] = Free
    /\ link[u] = "open" /\ warranty[u].status = "PENDING"
    /\ opened' = [opened EXCEPT ![k] = [op |-> "open", unit |-> u, at |-> at]]
    /\ UNCHANGED <<policyVars, goods, warranty, link, crossed>>

CommitActivation(k) ==
    LET u == opened[k].unit
        at == opened[k].at
        won == link[u] = "open"
    IN
    /\ opened[k] # Free
    /\ link' = [link EXCEPT ![u] = "used"]
    /\ warranty' = IF won THEN [warranty EXCEPT ![u] =
                                  [status |-> "ACTIVE", start |-> at, by |-> "link",
                                   end |-> RolledOver(at, Duration)]]
                          ELSE warranty
    /\ opened' = [opened EXCEPT ![k] = Free]
    /\ UNCHANGED <<policyVars, goods, crossed>>

WarrantiesNext ==
    \/ \E k \in Desks, p \in Policies : BeginPolicy(k, p)
    \/ \E k \in Desks : CommitPolicy(k) \/ CommitActivation(k)
    \/ \E p \in Policies : EndPolicy(p)
    \/ \E u \in Units : ReturnUnit(u) \/ \E at \in Moments : SellUnit(u, at)
    \/ \E k \in Desks, u \in Links, at \in Moments : BeginActivation(k, u, at)

WarrantiesSpec == WarrantiesInit /\ [][WarrantiesNext]_warrantyVars

-----------------------------------------------------------------------------

\* The warranty of goods that came back is void, unless they came back while
\* its link was being opened; a product has one active policy, unless two were
\* made active at once; and a warranty that a sale starts ends in the month it
\* was promised to, whatever days that month has.
WarrantiesKept ==
    /\ \A u \in Units \ crossed :
          goods[u] = "returned" => warranty[u].status \in {"none", "VOIDED"}
    /\ doubled \/ Cardinality(Valid) <= 1
    /\ \A u \in Units : warranty[u].status = "ACTIVE" /\ warranty[u].by = "sale" =>
          warranty[u].end[1] = warranty[u].start[1] + Duration
=============================================================================
