-------------------------- MODULE BackOfficeProofs --------------------------
(***************************************************************************)
(* Proofs about the services of the back office, each under its own        *)
(* specification, for any value of the constants and any number of requests*)
(* at one time.                                                            *)
(***************************************************************************)
EXTENDS BackOffice, Sums, TLAPS

-----------------------------------------------------------------------------
(* Proofs about who may be given which role.  What a request asks for was  *)
(* checked when it was let through; the roles may have other permissions   *)
(* by the time it is written, but only if they were replaced meanwhile.    *)

AllRoles == Roles \cup {Super}

Creation == [op : {"create", "mail"}, target : Employees, roles : SUBSET AllRoles,
             super : BOOLEAN]
Update == [op : {"update"}, target : Employees, status : {"ACTIVE", "INACTIVE", "same"},
           roles : SUBSET AllRoles, keep : BOOLEAN, super : BOOLEAN]
Removal == [op : {"remove"}, target : Employees]
StaffRequest == {Rest} \cup Creation \cup Update \cup Removal

StaffTyped ==
    /\ grants \in [Roles -> Grants]
    /\ asked \in [StaffRequests -> StaffRequest]
    /\ lent \subseteq Employees \X AllRoles

\* A role that a manager may give, as far as nobody replaced its permissions.
Harmless(r) == r # Super /\ (r \notin regranted => AdminKey \notin grants[r])

\* What a manager has asked for and was not written yet.
AskedHarmless ==
    \A k \in StaffRequests :
        asked[k].op = "create" \/ (asked[k].op = "update" /\ ~asked[k].keep) =>
            asked[k].super \/ \A r \in asked[k].roles : Harmless(r)

StaffInv == StaffTyped /\ AskedHarmless /\ NoEscalation

-----------------------------------------------------------------------------

\* At the start nothing was asked for or given.
LEMMA StaffInitInv == StaffInit => StaffInv
BY StaffAssumption
DEF StaffInit, StaffInv, StaffTyped, AskedHarmless, NoEscalation, Rest, StaffRequest

\* A request is taken in.
LEMMA AskInv ==
    ASSUME StaffInv, NEW k \in StaffRequests, NEW r, Ask(k, r),
           r \in StaffRequest,
           r.op = "create" \/ (r.op = "update" /\ ~r.keep) =>
               r.super \/ \A q \in r.roles : Harmless(q)
    PROVE  StaffInv'
<1>1. asked' = [asked EXCEPT ![k] = r] /\ UNCHANGED <<grants, lent, regranted>>
  BY DEF Ask
<1>2. StaffTyped'
  BY <1>1 DEF StaffInv, StaffTyped
<1>3. AskedHarmless'
  BY <1>1 DEF StaffInv, StaffTyped, AskedHarmless, Harmless
<1>4. NoEscalation'
  BY <1>1 DEF StaffInv, NoEscalation
<1> QED BY <1>2, <1>3, <1>4 DEF StaffInv

\* A request is written, dropped, or goes on to its mail: what it gives was
\* asked for.
LEMMA WriteInv ==
    ASSUME StaffInv, NEW k \in StaffRequests,
           \/ asked' = [asked EXCEPT ![k] = Rest]
           \/ asked[k].op = "create" /\ asked' = [asked EXCEPT ![k].op = "mail"],
           UNCHANGED <<grants, regranted>>,
           lent' \subseteq Employees \X AllRoles,
           \A p \in lent' : p \in lent \/ Harmless(p[2])
    PROVE  StaffInv'
<1>1. NoEscalation'
  BY DEF StaffInv, NoEscalation, Harmless
<1>2. CASE asked' = [asked EXCEPT ![k] = Rest]
  <2>1. StaffTyped'
    BY <1>2 DEF StaffInv, StaffTyped, StaffRequest
  <2>2. AskedHarmless'
    BY <1>2 DEF StaffInv, StaffTyped, AskedHarmless, Harmless, Rest
  <2> QED BY <1>1, <2>1, <2>2 DEF StaffInv
<1>3. CASE asked[k].op = "create" /\ asked' = [asked EXCEPT ![k].op = "mail"]
  <2>1. asked[k] \in Creation
    BY <1>3 DEF StaffInv, StaffTyped, StaffRequest, Rest, Creation, Update, Removal
  <2>2. asked'[k] \in Creation /\ asked'[k].op = "mail"
    BY <1>3, <2>1 DEF StaffInv, StaffTyped, Creation
  <2>3. \A j \in StaffRequests : j # k => asked'[j] = asked[j]
    BY <1>3 DEF StaffInv, StaffTyped
  <2>4. StaffTyped'
    BY <1>3, <2>2, <2>3 DEF StaffInv, StaffTyped, StaffRequest
  <2>5. AskedHarmless'
    BY <2>2, <2>3 DEF StaffInv, StaffTyped, AskedHarmless, Harmless
  <2> QED BY <1>1, <2>4, <2>5 DEF StaffInv
<1> QED BY <1>2, <1>3

\* What a written request lends is what it asked for, or nothing.
LEMMA LendingHarmless ==
    ASSUME StaffInv, NEW k \in StaffRequests,
           asked[k].op = "create" \/ (asked[k].op = "update" /\ ~asked[k].keep),
           Lending(k, asked[k].target, asked[k].roles)
    PROVE  /\ lent' \subseteq Employees \X AllRoles
           /\ \A p \in lent' : p \in lent \/ Harmless(p[2])
<1>1. asked[k].target \in Employees /\ asked[k].roles \subseteq AllRoles
  BY DEF StaffInv, StaffTyped, StaffRequest, Rest, Creation, Update, Removal
<1>2. ASSUME NEW p \in lent'
      PROVE  p \in Employees \X AllRoles /\ (p \in lent \/ Harmless(p[2]))
  <2>1. CASE p \in lent
    BY <2>1 DEF StaffInv, StaffTyped
  <2>2. CASE p \notin lent
    <3>1. p \in {asked[k].target} \X asked[k].roles /\ ~asked[k].super
      BY <1>2, <2>2 DEF Lending
    <3> QED BY <1>1, <3>1 DEF StaffInv, AskedHarmless
  <2> QED BY <2>1, <2>2
<1> QED BY <1>2

\* Permissions are replaced.
LEMMA UpdateRoleInv ==
    ASSUME StaffInv, NEW a \in Employees, NEW r \in Roles, NEW g \in Grants, UpdateRole(a, r, g)
    PROVE  StaffInv'
<1>1. \A q \in AllRoles : Harmless(q) => Harmless(q)'
  BY DEF UpdateRole, Harmless, StaffInv, StaffTyped, AllRoles
<1>2. StaffTyped'
  BY DEF UpdateRole, StaffInv, StaffTyped
<1>3. AskedHarmless'
  <2>1. \A k \in StaffRequests :
           asked[k].op \in {"create", "update"} => asked[k].roles \subseteq AllRoles
    BY DEF StaffInv, StaffTyped, StaffRequest, Rest, Creation, Update, Removal
  <2>2. UNCHANGED asked
    BY DEF UpdateRole
  <2> QED BY <1>1, <2>1, <2>2 DEF StaffInv, AskedHarmless
<1>4. NoEscalation'
  <2>1. \A p \in lent : p[2] \in AllRoles /\ Harmless(p[2])
    BY DEF StaffInv, StaffTyped, NoEscalation, Harmless
  <2> QED BY <1>1, <2>1 DEF UpdateRole, NoEscalation, Harmless
<1> QED BY <1>2, <1>3, <1>4 DEF StaffInv

\* Every step keeps the invariant.
LEMMA StaffInvStep ==
    ASSUME StaffInv, [StaffNext]_staffVars
    PROVE  StaffInv'
<1> USE StaffAssumption
<1>1. ASSUME NEW k \in StaffRequests, NEW a \in Employees, NEW u \in Employees,
             NEW rs \in RoleSets, BeginCreate(k, a, u, rs)
      PROVE  StaffInv'
  <2> DEFINE r == [op |-> "create", target |-> u, roles |-> rs, super |-> IsSuper(a)]
  <2>1. r \in StaffRequest
    BY DEF StaffRequest, Creation, IsSuper, AllRoles
  <2>2. IsSuper(a) \/ \A q \in rs : Harmless(q)
    BY <1>1 DEF BeginCreate, MayAssign, Harmless
  <2>3. Ask(k, r)
    BY <1>1 DEF BeginCreate
  <2> QED BY <2>1, <2>2, <2>3, AskInv
<1>2. ASSUME NEW k \in StaffRequests, NEW a \in Employees, NEW u \in Employees,
             NEW status \in {"ACTIVE", "INACTIVE", "same"},
             NEW rs \in RoleSets \cup {{}}, NEW keep \in BOOLEAN,
             BeginUpdateAccess(k, a, u, status, rs, keep)
      PROVE  StaffInv'
  <2> DEFINE r == [op |-> "update", target |-> u, status |-> status, roles |-> rs,
                   keep |-> keep, super |-> IsSuper(a)]
  <2>1. r \in StaffRequest
    BY DEF StaffRequest, Update, IsSuper, AllRoles
  <2>2. keep \/ IsSuper(a) \/ \A q \in rs : Harmless(q)
    BY <1>2 DEF BeginUpdateAccess, MayAssign, Harmless
  <2>3. Ask(k, r)
    BY <1>2 DEF BeginUpdateAccess
  <2> QED BY <2>1, <2>2, <2>3, AskInv
<1>3. ASSUME NEW k \in StaffRequests, NEW a \in Employees, NEW u \in Employees,
             BeginRemove(k, a, u)
      PROVE  StaffInv'
  BY <1>3, AskInv DEF BeginRemove, StaffRequest, Removal
<1>4. ASSUME NEW k \in StaffRequests, CommitCreate(k)
      PROVE  StaffInv'
  BY <1>4, WriteInv, LendingHarmless DEF CommitCreate
<1>5. ASSUME NEW k \in StaffRequests, CommitUpdateAccess(k)
      PROVE  StaffInv'
  <2>1. CASE asked[k].keep
    BY <1>5, <2>1, WriteInv DEF CommitUpdateAccess, Reply, StaffInv, StaffTyped
  <2>2. CASE ~asked[k].keep
    BY <1>5, <2>2, WriteInv, LendingHarmless DEF CommitUpdateAccess, Reply
  <2> QED BY <2>1, <2>2
<1>6. ASSUME NEW k \in StaffRequests, CommitRemove(k) \/ Refuse(k)
      PROVE  StaffInv'
  BY <1>6, WriteInv DEF CommitRemove, Refuse, Reply, StaffInv, StaffTyped
<1>7. ASSUME NEW k \in StaffRequests, NEW sent \in BOOLEAN, Mail(k, sent)
      PROVE  StaffInv'
  BY <1>7, WriteInv DEF Mail, Reply, StaffInv, StaffTyped
<1>8. CASE UNCHANGED staffVars
  BY <1>8 DEF staffVars, StaffInv, StaffTyped, AskedHarmless, NoEscalation, Harmless
<1>9. CASE \E k \in StaffRequests, a \in Employees, u \in Employees :
              \/ \E rs \in RoleSets : BeginCreate(k, a, u, rs)
              \/ \E status \in {"ACTIVE", "INACTIVE"} :
                    BeginUpdateAccess(k, a, u, status, {}, TRUE)
              \/ \E rs \in RoleSets : BeginUpdateAccess(k, a, u, "same", rs, FALSE)
              \/ BeginRemove(k, a, u)
  <2>1. PICK k \in StaffRequests, a \in Employees, u \in Employees :
              \/ \E rs \in RoleSets : BeginCreate(k, a, u, rs)
              \/ \E status \in {"ACTIVE", "INACTIVE"} :
                    BeginUpdateAccess(k, a, u, status, {}, TRUE)
              \/ \E rs \in RoleSets : BeginUpdateAccess(k, a, u, "same", rs, FALSE)
              \/ BeginRemove(k, a, u)
    BY <1>9
  <2>2. ASSUME NEW status \in {"ACTIVE", "INACTIVE"},
               BeginUpdateAccess(k, a, u, status, {}, TRUE)
        PROVE  StaffInv'
    BY <1>2, <2>2
  <2>3. ASSUME NEW rs \in RoleSets, BeginUpdateAccess(k, a, u, "same", rs, FALSE)
        PROVE  StaffInv'
    BY <1>2, <2>3
  <2> QED BY <1>1, <1>3, <2>1, <2>2, <2>3
<1>10. CASE \E k \in StaffRequests :
               CommitCreate(k) \/ CommitUpdateAccess(k) \/ CommitRemove(k) \/ Refuse(k)
  BY <1>4, <1>5, <1>6, <1>10
<1> QED BY <1>7, <1>8, <1>9, <1>10, UpdateRoleInv DEF StaffNext

\* However requests of managers overlap with each other and with changes of
\* roles, no manager ever makes somebody else administer users (the checks of
\* validateAssignments, which the write does not repeat).
THEOREM ManagersLendNoPower == StaffSpec => []NoEscalation
<1>1. StaffInv /\ [StaffNext]_staffVars => StaffInv'
  BY StaffInvStep
<1>2. StaffInv => NoEscalation
  BY DEF StaffInv
<1> QED BY StaffInitInv, <1>1, <1>2, PTL DEF StaffSpec

-----------------------------------------------------------------------------
(* The super administrators.                                               *)

StaffRows == employee \in [Employees -> AdminUser]

SuperInv == StaffRows /\ SuperAdminStays

LEMMA SuperInitInv == StaffInit => SuperInv
<1> SUFFICES ASSUME StaffInit PROVE SuperInv
  OBVIOUS
<1> USE StaffAssumption DEF StaffInit
<1>1. StaffRows
  BY DEF StaffRows, AdminUser
<1>2. PICK u \in Founders : u \in Employees
  OBVIOUS
<1>3. employee[u] = [status |-> "ACTIVE", roles |-> {Super}]
  BY <1>2
<1>4. u \in ActiveSupers
  BY <1>2, <1>3 DEF ActiveSupers, IsSuper
<1> QED BY <1>1, <1>4 DEF SuperInv, SuperAdminStays

\* A step that writes one entry leaves the other super administrators, and
\* removes the last one only when it says so.
LEMMA OneRowWritten ==
    ASSUME SuperInv, NEW u \in Employees, NEW entry \in AdminUser,
           employee' = [employee EXCEPT ![u] = entry],
           demoted => demoted', outdated => outdated',
           \/ entry.status = "ACTIVE" /\ Super \in entry.roles
           \/ u \notin ActiveSupers
           \/ demoted'
           \/ ActiveSupers = {u} => outdated'
    PROVE  SuperInv'
<1>1. StaffRows'
  BY DEF SuperInv, StaffRows
<1>2. employee'[u] = entry /\ \A v \in Employees \ {u} : employee'[v] = employee[v]
  BY DEF SuperInv, StaffRows
<1>3. \A v \in Employees \ {u} : v \in ActiveSupers => v \in ActiveSupers'
  BY <1>2 DEF ActiveSupers, IsSuper
<1>4. entry.status = "ACTIVE" /\ Super \in entry.roles => u \in ActiveSupers'
  BY <1>2 DEF ActiveSupers, IsSuper
<1>5. ActiveSupers \subseteq Employees
  BY DEF ActiveSupers
<1>6. SuperAdminStays'
  <2> SUFFICES ASSUME ~demoted', ~outdated' PROVE ActiveSupers' # {}
    BY DEF SuperAdminStays
  <2>1. ActiveSupers # {}
    BY DEF SuperInv, SuperAdminStays
  <2>2. CASE ActiveSupers \ {u} # {}
    BY <2>2, <1>3, <1>5
  <2>3. CASE ActiveSupers \ {u} = {}
    BY <2>1, <2>3, <1>4
  <2> QED BY <2>2, <2>3
<1> QED BY <1>1, <1>6 DEF SuperInv

LEMMA SuperStep ==
    ASSUME StaffInv, SuperInv, [StaffNext]_staffVars
    PROVE  SuperInv'
<1>1. ASSUME UNCHANGED <<employee, demoted, outdated>>
      PROVE  SuperInv'
  BY <1>1 DEF SuperInv, StaffRows, SuperAdminStays, ActiveSupers, IsSuper
<1>2. \A k \in StaffRequests : Open(k) => asked[k].target \in Employees
  BY DEF StaffInv, StaffTyped, StaffRequest, Rest, Creation, Update, Removal, Open
<1>3. [status |-> "none", roles |-> {}] \in AdminUser
  BY DEF AdminUser
<1>4. ASSUME NEW k \in StaffRequests, CommitCreate(k)
      PROVE  SuperInv'
  <2> DEFINE u == asked[k].target
             entry == [employee[u] EXCEPT !.status = "ACTIVE", !.roles = asked[k].roles]
  <2>1. u \in Employees /\ asked[k].roles \subseteq Roles \cup {Super}
    BY <1>4 DEF CommitCreate, StaffInv, StaffTyped, StaffRequest, Rest, Creation, Update,
                Removal, AllRoles
  <2>2. employee[u] \in AdminUser /\ u \notin ActiveSupers
    BY <1>4, <2>1 DEF CommitCreate, Hired, ActiveSupers, SuperInv, StaffRows
  <2>3. entry \in AdminUser
    BY <2>1, <2>2 DEF AdminUser
  <2>4. employee' = [employee EXCEPT ![u] = entry] /\ UNCHANGED <<demoted, outdated>>
    BY <1>4 DEF CommitCreate
  <2> HIDE DEF entry
  <2> QED BY <2>1, <2>2, <2>3, <2>4, OneRowWritten
<1>5. ASSUME NEW k \in StaffRequests, CommitUpdateAccess(k)
      PROVE  SuperInv'
  <2> DEFINE r == asked[k]
             u == r.target
             entry == [status |-> IF r.status = "same" THEN employee[u].status ELSE r.status,
                     roles |-> IF r.keep THEN employee[u].roles ELSE r.roles]
  <2>1. r \in Update
    BY <1>5 DEF CommitUpdateAccess, StaffInv, StaffTyped, StaffRequest, Rest, Creation, Update,
                Removal
  <2>2. /\ u \in Employees /\ employee[u] \in AdminUser
        /\ r.status \in {"ACTIVE", "INACTIVE", "same"}
        /\ r.roles \subseteq Roles \cup {Super} /\ r.keep \in BOOLEAN
    BY <2>1 DEF Update, SuperInv, StaffRows, AllRoles
  <2>3. entry \in AdminUser
    BY <2>2 DEF AdminUser
  <2>4. employee' = [employee EXCEPT ![u] = entry]
    BY <1>5 DEF CommitUpdateAccess, Changed
  <2>5. /\ demoted' = (demoted \/ (~r.keep /\ IsSuper(u) /\ Super \notin r.roles))
        /\ outdated' = (outdated \/ (r.status = "INACTIVE" /\ ActiveSupers = {u}))
    BY <1>5 DEF CommitUpdateAccess
  <2>6. \/ entry.status = "ACTIVE" /\ Super \in entry.roles
        \/ u \notin ActiveSupers
        \/ demoted'
        \/ ActiveSupers = {u} => outdated'
    <3> SUFFICES ASSUME u \in ActiveSupers, ~demoted', r.status # "INACTIVE"
                 PROVE  entry.status = "ACTIVE" /\ Super \in entry.roles
      BY <2>5
    <3>1. employee[u].status = "ACTIVE" /\ Super \in employee[u].roles
      BY DEF ActiveSupers, IsSuper
    <3>2. entry.status = "ACTIVE"
      BY <2>2, <3>1
    <3>3. Super \in entry.roles
      BY <2>2, <2>5, <3>1 DEF IsSuper
    <3> QED BY <3>2, <3>3
  <2> HIDE DEF entry
  <2> QED BY <2>2, <2>3, <2>4, <2>5, <2>6, OneRowWritten
<1>6. ASSUME NEW k \in StaffRequests, CommitRemove(k)
      PROVE  SuperInv'
  BY <1>2, <1>3, <1>6, OneRowWritten DEF CommitRemove, Gone, Open
<1>7. ASSUME NEW k \in StaffRequests, NEW sent \in BOOLEAN, Mail(k, sent)
      PROVE  SuperInv'
  <2>1. CASE sent
    BY <1>7, <2>1 DEF Mail, SuperInv, StaffRows, SuperAdminStays, ActiveSupers, IsSuper
  <2>2. CASE ~sent
    <3>1. employee' = Gone(asked[k].target) /\ UNCHANGED demoted
          /\ outdated' = (outdated \/ ActiveSupers = {asked[k].target})
      BY <1>7, <2>2 DEF Mail
    <3>2. asked[k].target \in Employees
      BY <1>2, <1>7 DEF Mail, Open
    <3> QED BY <1>3, <3>1, <3>2, OneRowWritten DEF Gone
  <2> QED BY <2>1, <2>2
<1> QED
  BY <1>1, <1>4, <1>5, <1>6, <1>7
  DEF StaffNext, staffVars, BeginCreate, BeginUpdateAccess, BeginRemove, Ask, Refuse, UpdateRole

\* The organization keeps an active super administrator through every series
\* of removals, deactivations and mails that fail (assertNotLastSuperAdmin
\* counts before the write), unless one was demoted or a check was outdated.
THEOREM SuperAdminRemains == StaffSpec => []SuperAdminStays
<1>1. StaffInv /\ SuperInv /\ [StaffNext]_staffVars => StaffInv' /\ SuperInv'
  BY StaffInvStep, SuperStep
<1>2. StaffInit => StaffInv /\ SuperInv
  BY StaffInitInv, SuperInitInv
<1>3. SuperInv => SuperAdminStays
  BY DEF SuperInv
<1> QED BY <1>1, <1>2, <1>3, PTL DEF StaffSpec

-----------------------------------------------------------------------------
(* Proofs about what a promotion announces and what a sale is given.  The  *)
(* argument is the clock: a rule is announced or applied only once it has  *)
(* started, and a statement that compares with its own moment finds no     *)
(* rule that has started (`Fixed`); one that the start overtakes is in     *)
(* `tardy`, and announces a rule again once (`LaunchedOnce`).              *)

Bargain == [rule : Rules, terms : Nat]
Edit == [op : {"start"}, rule : Rules, value : Starts, since : Starts, read : Nat]
    \cup [op : {"end"}, rule : Rules, value : Ends, since : Starts, read : Nat]
    \cup [op : {"remove"}, rule : Rules, since : Starts]
Announcement == [times : Nat, terms : Nat]

PromotionsTyped ==
    /\ clock \in Starts
    /\ rule \in [Rules -> DiscountRule]
    /\ edit \in [Editors -> {NoEdit} \cup Edit]
    /\ cart \in {NoCart} \cup Bargain
    /\ applications \subseteq Bargain
    /\ toLaunch \subseteq Bargain
    /\ launched \in [Rules -> Announcement]
    /\ moved \in [Rules -> Nat]

\* The terms were read when the rule had started, and are its terms unless it
\* was written after its start.
Fixed(r, terms) ==
    r \notin tardy => rule[r].there /\ rule[r].start <= clock /\ terms = rule[r].terms

\* What was launched, is to be launched, is in the cart or was sold.
AllFixed ==
    /\ \A r \in Rules : launched[r].times > 0 => Fixed(r, launched[r].terms)
    /\ \A b \in toLaunch : Fixed(b.rule, b.terms)
    /\ cart # NoCart => Fixed(cart.rule, cart.terms)
    /\ \A a \in applications : Fixed(a.rule, a.terms)

\* A rule is launched once and then marked, and a write that overtook its start
\* takes the mark away once.
Launches(r) == launched[r].times <= moved[r] + (IF rule[r].notified THEN 1 ELSE 0)

\* What has yet to start was launched for its past starts alone.
Waits(r) == rule[r].start > clock => launched[r].times <= moved[r]

\* What is to be launched counts as launched when it has yet to start again.
Pending(r) ==
    /\ rule[r].there \/ rule[r].start > 0
    /\ launched[r].times <= moved[r]
    /\ rule[r].start > clock => launched[r].times < moved[r]

LaunchedOnce ==
    /\ \A r \in Rules : Launches(r) /\ Waits(r)
    /\ \A b \in toLaunch : Pending(b.rule)
    /\ \A b, c \in toLaunch : b.rule = c.rule => b = c

\* A sale keeps the rules it applied.
AppliedStay == \A a \in applications : rule[a.rule].there

\* An edit was validated against the rule as it still is, unless it was edited
\* since, which its terms tell.
Validated(e) ==
    /\ rule[e.rule].there \/ rule[e.rule].start > 0
    /\ e.read <= rule[e.rule].terms
    /\ e.op = "start" => e.value > 0
    /\ e.read = rule[e.rule].terms /\ e.rule \notin overlaid =>
          EndsLater(IF e.op = "start" THEN e.value ELSE rule[e.rule].start,
                    IF e.op = "end" THEN e.value ELSE rule[e.rule].end)

EditsValidated ==
    \A k \in Editors : edit[k] # NoEdit /\ edit[k].op # "remove" => Validated(edit[k])

PromotionsInv ==
    /\ PromotionsTyped /\ AllFixed /\ LaunchedOnce /\ AppliedStay /\ EditsValidated
    /\ EndsAfterStart

-----------------------------------------------------------------------------

\* The rules that are there at the start always apply, and nothing was
\* launched.
LEMMA PromotionsInitInv == PromotionsInit => PromotionsInv
<1> SUFFICES ASSUME PromotionsInit PROVE PromotionsInv
  OBVIOUS
<1> USE PromotionsAssumption DEF PromotionsInit
<1>1. \A r \in Rules : rule[r] \in DiscountRule /\ EndsLater(rule[r].start, rule[r].end)
  <2>1. NoRule \in DiscountRule
    BY DEF DiscountRule, NoRule, Never, Starts, Ends
  <2>2. [NoRule EXCEPT !.there = TRUE, !.status = "ACTIVE"] \in DiscountRule
    BY <2>1 DEF DiscountRule
  <2> QED BY <2>1, <2>2 DEF NoRule, EndsLater
<1>2. PromotionsTyped
  BY <1>1 DEF PromotionsTyped, Starts, Announcement
<1>3. LaunchedOnce
  BY DEF LaunchedOnce, Launches, Waits
<1>4. AllFixed /\ AppliedStay /\ EditsValidated
  BY DEF AllFixed, AppliedStay, EditsValidated
<1> QED BY <1>1, <1>2, <1>3, <1>4 DEF PromotionsInv, EndsAfterStart

\* What an edit of a date makes of a rule.
LEMMA EditedRow ==
    ASSUME NEW old \in DiscountRule, NEW e \in Edit, e.op \in {"start", "end"}
    PROVE  /\ Edited(old, e) \in DiscountRule
           /\ Edited(old, e).there = old.there
           /\ Edited(old, e).start = IF e.op = "start" THEN e.value ELSE old.start
           /\ Edited(old, e).end = IF e.op = "end" THEN e.value ELSE old.end
           /\ Edited(old, e).terms = old.terms + 1
<1>1. ASSUME NEW entry \in DiscountRule
      PROVE  [entry EXCEPT !.terms = @ + 1] \in DiscountRule
  BY DEF DiscountRule
<1>2. ASSUME NEW entry \in DiscountRule, NEW b \in BOOLEAN
      PROVE  [entry EXCEPT !.notified = b] \in DiscountRule
  BY DEF DiscountRule
<1>3. CASE e.op = "start"
  <2> DEFINE mark == old.notified /\ FALSE
  <2>1. Edited(old, e) = [old EXCEPT !.start = e.value, !.terms = @ + 1, !.notified = mark]
    BY <1>3 DEF Edited
  <2>2. e.value \in Starts /\ mark \in BOOLEAN
    BY <1>3 DEF Edit
  <2> HIDE DEF mark
  <2>3. ASSUME NEW b \in BOOLEAN
        PROVE  [old EXCEPT !.start = e.value, !.terms = @ + 1, !.notified = b] \in DiscountRule
    <3>1. [old EXCEPT !.start = e.value] \in DiscountRule
      BY <2>2 DEF DiscountRule
    <3> QED BY <3>1, <1>1, <1>2
  <2>4. Edited(old, e) \in DiscountRule
    BY <2>1, <2>2, <2>3
  <2>5. /\ Edited(old, e).there = old.there /\ Edited(old, e).start = e.value
        /\ Edited(old, e).end = old.end /\ Edited(old, e).terms = old.terms + 1
    BY <2>1 DEF DiscountRule
  <2> QED BY <1>3, <2>4, <2>5
<1>4. CASE e.op = "end"
  <2> DEFINE mark == old.notified /\ TRUE
  <2>1. Edited(old, e) = [old EXCEPT !.end = e.value, !.terms = @ + 1, !.notified = mark]
    BY <1>4 DEF Edited
  <2>2. e.value \in Ends /\ mark \in BOOLEAN
    BY <1>4 DEF Edit
  <2> HIDE DEF mark
  <2>3. ASSUME NEW b \in BOOLEAN
        PROVE  [old EXCEPT !.end = e.value, !.terms = @ + 1, !.notified = b] \in DiscountRule
    <3>1. [old EXCEPT !.end = e.value] \in DiscountRule
      BY <2>2 DEF DiscountRule
    <3> QED BY <3>1, <1>1, <1>2
  <2>4. Edited(old, e) \in DiscountRule
    BY <2>1, <2>2, <2>3
  <2>5. /\ Edited(old, e).there = old.there /\ Edited(old, e).end = e.value
        /\ Edited(old, e).start = old.start /\ Edited(old, e).terms = old.terms + 1
    BY <2>1 DEF DiscountRule
  <2> QED BY <1>4, <2>4, <2>5
<1> QED BY <1>3, <1>4

\* The rows keep their shape.
LEMMA TypedStep ==
    ASSUME PromotionsTyped, [PromotionsNext]_promotionVars
    PROVE  PromotionsTyped'
<1> USE PromotionsAssumption DEF PromotionsTyped
<1>1. ASSUME NEW r \in Editable, NEW start \in Starts, NEW end \in Ends,
             CreateRule(r, start, end)
      PROVE  PromotionsTyped'
  BY <1>1 DEF CreateRule, NoRule, DiscountRule, worker, till
<1>2. ASSUME NEW r \in Editable, NEW status \in {"ACTIVE", "INACTIVE"}, SetStatus(r, status)
      PROVE  PromotionsTyped'
  BY <1>2 DEF SetStatus, DiscountRule, worker, till
<1>3. ASSUME NEW k \in Editors, NEW e \in Edit, Note(k, e)
      PROVE  PromotionsTyped'
  BY <1>3 DEF Note, worker, till
<1>4. ASSUME NEW k \in Editors, CommitEdit(k)
      PROVE  PromotionsTyped'
  <2>1. edit[k] \in Edit /\ edit[k].op \in {"start", "end"} /\ edit[k].rule \in Rules
    BY <1>4 DEF CommitEdit, NoEdit, Edit
  <2>2. Edited(rule[edit[k].rule], edit[k]) \in DiscountRule
    BY <2>1, EditedRow
  <2> QED BY <1>4, <2>1, <2>2 DEF CommitEdit, worker, till
<1>5. ASSUME NEW k \in Editors, CommitRemoval(k)
      PROVE  PromotionsTyped'
  BY <1>5 DEF CommitRemoval, DiscountRule, worker, till
<1>6. ASSUME NEW k \in Editors, RefuseEdit(k)
      PROVE  PromotionsTyped'
  BY <1>6 DEF RefuseEdit, worker, till
<1>7. ASSUME NEW r \in Rules, Price(r)
      PROVE  PromotionsTyped'
  BY <1>7 DEF Price, Bargain, DiscountRule, office, worker
<1>8. ASSUME NEW done \in BOOLEAN, Sell(done)
      PROVE  PromotionsTyped'
  BY <1>8 DEF Sell, office, worker
<1>9. CASE StartRound
  BY <1>9 DEF StartRound, Bargain, DiscountRule, office, till
<1>10. ASSUME NEW b \in toLaunch, Launch(b)
       PROVE  PromotionsTyped'
  <2>1. b.rule \in Rules /\ b.terms \in Nat
    BY DEF Bargain
  <2>2. rule' \in [Rules -> DiscountRule]
    <3>1. rule[b.rule] \in DiscountRule
      BY <2>1
    <3>2. [rule[b.rule] EXCEPT !.notified = TRUE] \in DiscountRule
      BY <3>1 DEF DiscountRule
    <3>3. rule' = [rule EXCEPT ![b.rule] = [rule[b.rule] EXCEPT !.notified = TRUE]]
      BY <1>10 DEF Launch
    <3> QED  BY <2>1, <3>2, <3>3
  <2>3. launched' \in [Rules -> Announcement]
    BY <1>10, <2>1 DEF Launch, Announcement
  <2> QED BY <1>10, <2>2, <2>3 DEF Launch, till
<1>11. ASSUME NEW b \in toLaunch, FailLaunch(b)
       PROVE  PromotionsTyped'
  BY <1>11 DEF FailLaunch, office, till
<1>12. CASE Deliver \/ EndRound
  BY <1>12 DEF Deliver, EndRound, office, till
<1>13. CASE Tick
  BY <1>13 DEF Tick, Starts, office, worker, till
<1>14. CASE UNCHANGED promotionVars
  BY <1>14 DEF promotionVars
<1>15. CASE \E k \in Editors, r \in Editable :
               \/ \E start \in Starts : BeginStart(k, r, start)
               \/ \E end \in Ends : BeginEnd(k, r, end)
               \/ BeginRemoval(k, r)
  BY <1>3, <1>15 DEF BeginStart, BeginEnd, BeginRemoval, Edit, DiscountRule
<1> QED
  BY <1>1, <1>2, <1>4, <1>5, <1>6, <1>7, <1>8, <1>9, <1>10, <1>11, <1>12, <1>13, <1>14, <1>15
  DEF PromotionsNext, WorkerStep

-----------------------------------------------------------------------------

\* What has started keeps its dates and terms, or is written too late.
LEMMA FixedStep ==
    ASSUME PromotionsTyped, [PromotionsNext]_promotionVars, NEW r \in Rules, NEW terms, Fixed(r, terms)
    PROVE  Fixed(r, terms)'
<1> USE DEF PromotionsTyped, Fixed
<1>1. clock \in Int /\ clock' \in Int /\ clock <= clock'
  <2>1. clock' \in Starts
    BY TypedStep
  <2>2. clock' = clock \/ clock' = clock + 1
    BY DEF PromotionsNext, promotionVars, CreateRule, SetStatus, BeginStart, BeginEnd,
       BeginRemoval, Note, CommitEdit, CommitRemoval, RefuseEdit, Price, Sell, WorkerStep,
       StartRound, Launch, FailLaunch, Deliver, EndRound, Tick
  <2> QED BY <2>1, <2>2 DEF Starts
<1>2. rule[r] \in DiscountRule /\ rule[r].start \in Int
  BY DEF DiscountRule, Starts
<1>3. CASE UNCHANGED <<rule, tardy>>
  BY <1>1, <1>2, <1>3
<1>4. ASSUME NEW s \in Editable, NEW start \in Starts, NEW end \in Ends,
             CreateRule(s, start, end)
      PROVE  Fixed(r, terms)'
  BY <1>1, <1>2, <1>4, PromotionsAssumption DEF CreateRule, NoRule
<1>5. ASSUME NEW s \in Editable, NEW status \in {"ACTIVE", "INACTIVE"}, SetStatus(s, status)
      PROVE  Fixed(r, terms)'
  BY <1>1, <1>2, <1>5, PromotionsAssumption DEF SetStatus, DiscountRule
<1>6. ASSUME NEW k \in Editors, CommitEdit(k) \/ CommitRemoval(k)
      PROVE  Fixed(r, terms)'
  <2>1. edit[k].rule \in Rules
    BY <1>6 DEF CommitEdit, CommitRemoval, NoEdit, Edit
  <2>2. CASE edit[k].rule = r
    <3>1. PICK now \in edit[k].since..clock : Ahead(r, now) /\ Written(r, now)
      BY <1>6, <2>2 DEF CommitEdit, CommitRemoval, Writable, Removable
    <3> QED  BY <1>1, <1>2, <1>6, <2>2, <3>1
             DEF CommitEdit, CommitRemoval, Written, Overtaken, Ahead
  <2>3. CASE edit[k].rule # r
    BY <1>1, <1>2, <1>6, <2>1, <2>3 DEF CommitEdit, CommitRemoval, Written
  <2> QED BY <2>2, <2>3
<1>7. ASSUME NEW b \in toLaunch, Launch(b)
      PROVE  Fixed(r, terms)'
  BY <1>1, <1>2, <1>7 DEF Launch, Bargain, DiscountRule
<1> QED
  BY <1>3, <1>4, <1>5, <1>6, <1>7
  DEF PromotionsNext, promotionVars, BeginStart, BeginEnd, BeginRemoval, Note, RefuseEdit,
      Price, Sell, WorkerStep, StartRound, FailLaunch, Deliver, EndRound, Tick, office

\* A rule is read for a launch or for the till once it has started.
LEMMA AllFixedStep ==
    ASSUME PromotionsTyped, AllFixed, [PromotionsNext]_promotionVars
    PROVE  AllFixed'
<1> USE FixedStep DEF PromotionsTyped, AllFixed
<1>1. CASE /\ UNCHANGED <<launched, cart, applications>>
           /\ toLaunch' \subseteq toLaunch
  BY <1>1 DEF Bargain
<1>2. ASSUME NEW r \in Rules, Price(r)
      PROVE  AllFixed'
  <2>1. Fixed(r, rule[r].terms)
    BY <1>2 DEF Price, Eligible, Fixed
  <2> QED BY <1>2, <2>1 DEF Price, worker, Bargain
<1>3. ASSUME NEW done \in BOOLEAN, Sell(done)
      PROVE  AllFixed'
  BY <1>3 DEF Sell, worker, Bargain
<1>4. CASE StartRound
  <2>1. \A b \in toLaunch' : b.rule \in Rules /\ Fixed(b.rule, b.terms)
    BY <1>4 DEF StartRound, Due, Eligible, Fixed
  <2> QED BY <1>4, <2>1 DEF StartRound, till, Bargain
<1>5. ASSUME NEW b \in toLaunch, Launch(b)
      PROVE  AllFixed'
  BY <1>5 DEF Launch, till, Bargain
<1> QED
  BY <1>1, <1>2, <1>3, <1>4, <1>5
  DEF PromotionsNext, promotionVars, CreateRule, SetStatus, BeginStart, BeginEnd,
      BeginRemoval, Note, CommitEdit, CommitRemoval, RefuseEdit, WorkerStep, FailLaunch,
      Deliver, EndRound, Tick, office, worker, till

\* The start of a rule is written while it is still ahead, which changes
\* nothing, or has been overtaken, which counts.
LEMMA OvertakenStep ==
    ASSUME PromotionsTyped, LaunchedOnce, NEW k \in Editors, CommitEdit(k)
    PROVE  LaunchedOnce'
<1> USE DEF PromotionsTyped, LaunchedOnce
<1>1. PICK e \in Edit, r \in Rules :
        e = edit[k] /\ r = edit[k].rule /\ e.op \in {"start", "end"}
  BY DEF CommitEdit, NoEdit, Edit
<1>2. /\ rule[r] \in DiscountRule /\ rule[r].start \in Int /\ clock \in Int
      /\ launched[r].times \in Nat /\ moved[r] \in Nat
  BY <1>1 DEF DiscountRule, Starts, Announcement
<1>3. PICK now \in e.since..clock :
        /\ Ahead(r, now)
        /\ moved' = IF e.op = "start" /\ Overtaken(r, now) THEN [moved EXCEPT ![r] = @ + 1]
                    ELSE moved
  BY <1>1 DEF CommitEdit, Writable
<1>4. /\ UNCHANGED <<clock, toLaunch, launched>>
      /\ rule'[r] = Edited(rule[r], e)
      /\ \A q \in Rules : q # r => rule'[q] = rule[q] /\ moved'[q] = moved[q]
  BY <1>1, <1>3 DEF CommitEdit, worker
<1>5. rule'[r].there /\ rule[r].there
  BY <1>1, <1>2, <1>3, <1>4, EditedRow DEF Ahead
<1>6. Launches(r)' /\ Waits(r)' /\ (Pending(r) => Pending(r)')
  <2>1. CASE e.op = "end"
    <3>1. rule'[r].start = rule[r].start /\ moved'[r] = moved[r]
      BY <1>1, <1>2, <1>3, <1>4, <2>1, EditedRow
    <3>2. rule'[r].notified = rule[r].notified
      BY <1>2, <1>4, <2>1 DEF Edited, DiscountRule
    <3> QED  BY <1>1, <1>4, <1>5, <3>1, <3>2 DEF Launches, Waits, Pending
  <2>2. CASE e.op = "start" /\ Overtaken(r, now)
    <3>1. moved'[r] = moved[r] + 1
      BY <1>1, <1>3, <2>2
    <3>2. launched[r].times <= moved[r] + 1
      BY <1>1, <1>2 DEF Launches
    <3> QED  BY <1>2, <1>4, <1>5, <3>1, <3>2 DEF Launches, Waits, Pending
  <2>3. CASE e.op = "start" /\ ~Overtaken(r, now)
    <3>1. moved'[r] = moved[r] /\ rule[r].start > clock
      BY <1>2, <1>3, <2>3 DEF Overtaken, Ahead
    <3>2. launched[r].times <= moved[r] /\ (Pending(r) => launched[r].times < moved[r])
      BY <1>1, <3>1 DEF Waits, Pending
    <3> QED  BY <1>2, <1>4, <1>5, <3>1, <3>2 DEF Launches, Waits, Pending
  <2> QED  BY <1>1, <2>1, <2>2, <2>3
<1> QED
  <2>1. \A q \in Rules : Launches(q)' /\ Waits(q)' /\ (Pending(q) => Pending(q)')
    BY <1>4, <1>6 DEF Launches, Waits, Pending
  <2> QED  BY <1>4, <2>1 DEF Bargain

\* A rule that has not started was neither launched nor is it to be, for the
\* start it has.
LEMMA LaunchedOnceStep ==
    ASSUME PromotionsTyped, LaunchedOnce, [PromotionsNext]_promotionVars
    PROVE  LaunchedOnce'
<1> USE DEF PromotionsTyped, LaunchedOnce
<1>1. ASSUME UNCHANGED <<launched, moved>>, toLaunch' \subseteq toLaunch,
             clock' \in Int, clock <= clock',
             \A r \in Rules : /\ rule[r].there \/ rule[r].start > 0 =>
                                    rule'[r].there \/ rule'[r].start > 0
                              /\ rule'[r].start = rule[r].start
                              /\ rule'[r].notified = rule[r].notified
      PROVE  LaunchedOnce'
  <2>1. \A r \in Rules : rule[r].start \in Int /\ clock \in Int
    BY DEF DiscountRule, Starts
  <2>2. \A r \in Rules : Launches(r)' /\ Waits(r)' /\ (Pending(r) => Pending(r)')
    BY <1>1, <2>1 DEF Launches, Waits, Pending
  <2> QED  BY <1>1, <2>2 DEF Bargain
<1>2. clock \in Int
  BY DEF Starts
<1>3. CASE UNCHANGED rule /\ UNCHANGED <<launched, moved>> /\ toLaunch' \subseteq toLaunch
           /\ clock' \in {clock, clock + 1}
  BY <1>1, <1>2, <1>3
<1>4. ASSUME NEW r \in Editable, NEW start \in Starts, NEW end \in Ends,
             CreateRule(r, start, end)
      PROVE  LaunchedOnce'
  <2>1. r \in Rules /\ rule[r] = NoRule /\ UNCHANGED <<clock, launched, toLaunch, moved>>
    BY <1>4, PromotionsAssumption DEF CreateRule, worker
  <2>2. launched[r].times <= moved[r]
    BY <2>1 DEF Launches, NoRule, Announcement
  <2>3. ~Pending(r)
    BY <2>1 DEF Pending, NoRule
  <2>4. Launches(r)' /\ Waits(r)'
    BY <1>4, <2>1, <2>2 DEF CreateRule, NoRule, Launches, Waits, Announcement
  <2>5. \A q \in Rules : q # r => rule'[q] = rule[q]
    BY <1>4 DEF CreateRule
  <2>6. \A q \in Rules : Launches(q)' /\ Waits(q)' /\ (Pending(q) => Pending(q)')
    BY <2>1, <2>3, <2>4, <2>5 DEF Launches, Waits, Pending
  <2> QED  BY <2>1, <2>6 DEF Bargain
<1>5. ASSUME NEW r \in Editable, NEW status \in {"ACTIVE", "INACTIVE"}, SetStatus(r, status)
      PROVE  LaunchedOnce'
  <2>1. UNCHANGED <<clock, launched, moved, toLaunch>> /\ r \in Rules
    BY <1>5, PromotionsAssumption DEF SetStatus, worker
  <2>2. \A q \in Rules : /\ rule'[q].there = rule[q].there
                         /\ rule'[q].start = rule[q].start
                         /\ rule'[q].notified = rule[q].notified
    BY <1>5, <2>1 DEF SetStatus, DiscountRule
  <2> QED  BY <1>1, <1>2, <2>1, <2>2 DEF DiscountRule, Starts
<1>6. ASSUME NEW k \in Editors, CommitRemoval(k)
      PROVE  LaunchedOnce'
  <2>1. edit[k] \in Edit /\ edit[k].rule \in Rules
    BY <1>6 DEF CommitRemoval, NoEdit, Edit
  <2>2. UNCHANGED <<clock, launched, moved, toLaunch>>
    BY <1>6 DEF CommitRemoval, worker
  <2>3. PICK now \in edit[k].since..clock : rule[edit[k].rule].start > now
    BY <1>6 DEF CommitRemoval, Removable, Ahead
  <2>4. rule[edit[k].rule].start > 0
    BY <1>6, <2>1, <2>3 DEF CommitRemoval, Edit, DiscountRule, Starts
  <2>5. \A q \in Rules : /\ rule'[q].start = rule[q].start
                         /\ rule'[q].notified = rule[q].notified
                         /\ rule'[q].there = rule[q].there \/ rule'[q].start > 0
    <3> DEFINE r == edit[k].rule
    <3>1. rule' = [rule EXCEPT ![r].there = FALSE] /\ r \in Rules /\ rule[r].start > 0
      BY <1>6, <2>1, <2>4 DEF CommitRemoval
    <3>2. rule \in [Rules -> DiscountRule]
      OBVIOUS
    <3> HIDE DEF r
    <3>3. ASSUME NEW q \in Rules, q # r
          PROVE  rule'[q] = rule[q]
      BY <3>1, <3>2, <3>3
    <3>4. rule'[r].start = rule[r].start /\ rule'[r].notified = rule[r].notified
      BY <3>1, <3>2 DEF DiscountRule
    <3> QED  BY <3>1, <3>3, <3>4
  <2> QED  BY <1>1, <1>2, <2>2, <2>5 DEF DiscountRule, Starts
<1>7. CASE StartRound
  <2>1. UNCHANGED <<clock, rule, launched, moved>>
    BY <1>7 DEF StartRound, office
  <2>2. \A b \in toLaunch' : b.rule \in Rules /\ Due(b.rule) /\ b.terms = rule[b.rule].terms
    BY <1>7 DEF StartRound
  <2>3. \A r \in Rules : Due(r) => Pending(r)
    BY <1>2 DEF Due, Eligible, Pending, Launches, DiscountRule, Starts, Announcement
  <2>4. \A b \in toLaunch' : Pending(b.rule)'
    BY <2>1, <2>2, <2>3 DEF Pending
  <2>5. \A b, c \in toLaunch' : b.rule = c.rule => b = c
    BY <1>7 DEF StartRound
  <2> QED  BY <2>1, <2>4, <2>5 DEF Launches, Waits
<1>8. ASSUME NEW b \in toLaunch, Launch(b)
      PROVE  LaunchedOnce'
  <2>1. b.rule \in Rules /\ Pending(b.rule)
    BY DEF Bargain
  <2>2. /\ UNCHANGED <<clock, moved>>
        /\ rule'[b.rule].notified /\ rule'[b.rule].start = rule[b.rule].start
        /\ launched'[b.rule].times = launched[b.rule].times + 1
    BY <1>8, <2>1 DEF Launch, DiscountRule
  <2>3. \A r \in Rules : r # b.rule => rule'[r] = rule[r] /\ launched'[r] = launched[r]
    BY <1>8 DEF Launch
  <2>4. Launches(b.rule)' /\ Waits(b.rule)'
    BY <1>2, <2>1, <2>2 DEF Launches, Waits, Pending, Announcement, DiscountRule, Starts
  <2>5. \A c \in toLaunch' : c \in toLaunch /\ c.rule # b.rule
    BY <1>8 DEF Launch
  <2>6. \A r \in Rules : Launches(r)' /\ Waits(r)' /\ (r # b.rule /\ Pending(r) => Pending(r)')
    BY <2>2, <2>3, <2>4 DEF Launches, Waits, Pending
  <2> QED  BY <2>5, <2>6 DEF Bargain
<1> QED
  BY <1>3, <1>4, <1>5, <1>6, <1>7, <1>8, OvertakenStep
  DEF PromotionsNext, promotionVars, BeginStart, BeginEnd, BeginRemoval, Note, RefuseEdit,
      Price, Sell, WorkerStep, FailLaunch, Deliver, EndRound, Tick, office, worker, till

\* The removal looks for applications, the application for the rule.
LEMMA AppliedStayStep ==
    ASSUME PromotionsTyped, AppliedStay, [PromotionsNext]_promotionVars
    PROVE  AppliedStay'
<1> USE DEF PromotionsTyped, AppliedStay
<1>1. CASE UNCHANGED <<rule, applications>>
  BY <1>1
<1>2. ASSUME NEW r \in Editable, NEW start \in Starts, NEW end \in Ends,
             CreateRule(r, start, end)
      PROVE  AppliedStay'
  BY <1>2, PromotionsAssumption DEF CreateRule, NoRule, Bargain, till
<1>3. ASSUME NEW r \in Editable, NEW status \in {"ACTIVE", "INACTIVE"}, SetStatus(r, status)
      PROVE  AppliedStay'
  BY <1>3, PromotionsAssumption DEF SetStatus, DiscountRule, Bargain, till
<1>4. ASSUME NEW k \in Editors, CommitEdit(k)
      PROVE  AppliedStay'
  <2>1. edit[k] \in Edit /\ edit[k].rule \in Rules
    BY <1>4 DEF CommitEdit, NoEdit, Edit
  <2>2. \A r \in Rules : rule'[r].there = rule[r].there
    BY <1>4, <2>1, EditedRow DEF CommitEdit
  <2> QED BY <1>4, <2>2 DEF CommitEdit, Bargain, till
<1>5. ASSUME NEW k \in Editors, CommitRemoval(k)
      PROVE  AppliedStay'
  BY <1>5 DEF CommitRemoval, Removable, Bargain, till
<1>6. ASSUME NEW done \in BOOLEAN, Sell(done)
      PROVE  AppliedStay'
  BY <1>6 DEF Sell, office
<1>7. ASSUME NEW b \in toLaunch, Launch(b)
      PROVE  AppliedStay'
  BY <1>7 DEF Launch, DiscountRule, Bargain, till
<1> QED
  BY <1>1, <1>2, <1>3, <1>4, <1>5, <1>6, <1>7
  DEF PromotionsNext, promotionVars, BeginStart, BeginEnd, BeginRemoval, Note, RefuseEdit,
      Price, WorkerStep, StartRound, FailLaunch, Deliver, EndRound, Tick, office, till

-----------------------------------------------------------------------------

\* A step that leaves the dates and terms of the rules alone.
LEMMA SameDates ==
    ASSUME PromotionsTyped, EditsValidated, EndsAfterStart,
           \A r \in Rules : /\ rule'[r].there = rule[r].there
                            /\ rule'[r].start = rule[r].start
                            /\ rule'[r].end = rule[r].end
                            /\ rule'[r].terms = rule[r].terms,
           \A k \in Editors : edit'[k] \in {edit[k], NoEdit},
           UNCHANGED overlaid
    PROVE  EditsValidated' /\ EndsAfterStart'
<1>1. \A k \in Editors : edit[k] = NoEdit \/ edit[k].rule \in Rules
  BY DEF PromotionsTyped, Edit
<1>2. EditsValidated'
  BY <1>1 DEF PromotionsTyped, EditsValidated, Validated
<1>3. EndsAfterStart'
  BY DEF EndsAfterStart
<1> QED BY <1>2, <1>3

\* A request is noted that has been validated.
LEMMA NoteStep ==
    ASSUME PromotionsTyped, EditsValidated, EndsAfterStart,
           NEW k \in Editors, NEW e \in Edit, Note(k, e), e.op # "remove" => Validated(e)
    PROVE  EditsValidated' /\ EndsAfterStart'
<1>1. UNCHANGED <<rule, overlaid>> /\ edit' = [edit EXCEPT ![k] = e]
  BY DEF Note
<1>2. EditsValidated'
  BY <1>1 DEF PromotionsTyped, EditsValidated, Validated
<1>3. EndsAfterStart'
  BY <1>1 DEF EndsAfterStart
<1> QED BY <1>2, <1>3

\* The statement writes what was validated, unless the rule was edited since.
LEMMA CommitEditStep ==
    ASSUME PromotionsTyped, EditsValidated, EndsAfterStart, NEW k \in Editors, CommitEdit(k)
    PROVE  EditsValidated' /\ EndsAfterStart'
<1> DEFINE e == edit[k]
           r == e.rule
<1>1. e \in Edit /\ e.op \in {"start", "end"} /\ r \in Rules /\ rule[r] \in DiscountRule
  BY DEF PromotionsTyped, CommitEdit, NoEdit, Edit
<1>2. Validated(e)
  BY <1>1 DEF EditsValidated, NoEdit, Edit
<1>3. /\ rule'[r].there /\ rule'[r].terms = rule[r].terms + 1
      /\ rule'[r].start = IF e.op = "start" THEN e.value ELSE rule[r].start
      /\ rule'[r].end = IF e.op = "end" THEN e.value ELSE rule[r].end
  BY <1>1, EditedRow DEF PromotionsTyped, CommitEdit, Writable, Ahead
<1>4. /\ \A s \in Rules : s # r => rule'[s] = rule[s]
      /\ overlaid \subseteq overlaid'
      /\ r \notin overlaid' => rule[r].terms = e.read
      /\ \A j \in Editors : j # k => edit'[j] = edit[j]
      /\ edit'[k] = NoEdit
  BY <1>1 DEF PromotionsTyped, CommitEdit
<1>5. EditsValidated'
  <2> SUFFICES ASSUME NEW j \in Editors, edit'[j] # NoEdit, edit'[j].op # "remove"
               PROVE  Validated(edit[j])'
    BY DEF EditsValidated
  <2>1. j # k /\ edit'[j] = edit[j] /\ Validated(edit[j])
    BY <1>4 DEF EditsValidated
  <2>2. edit[j].rule \in Rules /\ edit[j].read \in Nat /\ rule[r].terms \in Nat
    BY <1>1, <1>4, <2>1 DEF PromotionsTyped, Edit, DiscountRule
  <2>3. CASE edit[j].rule = r
    BY <1>3, <2>1, <2>2, <2>3 DEF Validated
  <2>4. CASE edit[j].rule # r
    BY <1>4, <2>1, <2>2, <2>4 DEF Validated
  <2> QED BY <2>3, <2>4
<1>6. EndsAfterStart'
  BY <1>1, <1>2, <1>3, <1>4 DEF EndsAfterStart, Validated
<1> QED BY <1>5, <1>6

\* Edits stay validated and rules end after they start.
LEMMA EditsStep ==
    ASSUME PromotionsTyped, EditsValidated, EndsAfterStart, [PromotionsNext]_promotionVars
    PROVE  EditsValidated' /\ EndsAfterStart'
<1> DEFINE Done == EditsValidated' /\ EndsAfterStart'
<1>1. CASE UNCHANGED office
  BY <1>1, SameDates DEF office, PromotionsTyped
<1>2. ASSUME NEW r \in Editable, NEW start \in Starts, NEW end \in Ends,
             CreateRule(r, start, end)
      PROVE  Done
  <2>1. r \in Rules /\ rule[r] = NoRule /\ UNCHANGED <<edit, overlaid>>
    BY <1>2, PromotionsAssumption DEF CreateRule
  <2>2. rule'[r].start = start /\ rule'[r].end = end /\ EndsLater(start, end)
    BY <1>2, <2>1 DEF CreateRule, PromotionsTyped, NoRule
  <2>3. \A s \in Rules : s # r => rule'[s] = rule[s]
    BY <1>2 DEF CreateRule, PromotionsTyped
  <2>4. \A k \in Editors : edit[k] # NoEdit /\ edit[k].op # "remove" => edit[k].rule # r
    BY <2>1 DEF EditsValidated, Validated, NoRule
  <2>5. \A k \in Editors : edit[k] # NoEdit => edit[k].rule \in Rules
    BY DEF PromotionsTyped, Edit
  <2> QED BY <2>1, <2>2, <2>3, <2>4, <2>5 DEF EditsValidated, Validated, EndsAfterStart
<1>3. ASSUME NEW r \in Editable, NEW status \in {"ACTIVE", "INACTIVE"}, SetStatus(r, status)
      PROVE  Done
  BY <1>3, SameDates, PromotionsAssumption DEF SetStatus, PromotionsTyped, DiscountRule
<1>4. ASSUME NEW k \in Editors, NEW r \in Editable, NEW start \in Starts,
             BeginStart(k, r, start)
      PROVE  Done
  <2> DEFINE e == [op |-> "start", rule |-> r, value |-> start, since |-> clock,
                   read |-> rule[r].terms]
  <2>1. e \in Edit
    BY PromotionsAssumption DEF PromotionsTyped, Edit, DiscountRule
  <2>2. Validated(e)
    BY <1>4, PromotionsAssumption DEF BeginStart, Ahead, Validated, PromotionsTyped, DiscountRule
  <2> QED BY <1>4, <2>1, <2>2, NoteStep DEF BeginStart
<1>5. ASSUME NEW k \in Editors, NEW r \in Editable, NEW end \in Ends, BeginEnd(k, r, end)
      PROVE  Done
  <2> DEFINE e == [op |-> "end", rule |-> r, value |-> end, since |-> clock,
                   read |-> rule[r].terms]
  <2>1. e \in Edit
    BY PromotionsAssumption DEF PromotionsTyped, Edit, DiscountRule
  <2>2. Validated(e)
    BY <1>5, PromotionsAssumption DEF BeginEnd, Ahead, Validated, PromotionsTyped, DiscountRule
  <2> QED BY <1>5, <2>1, <2>2, NoteStep DEF BeginEnd
<1>6. ASSUME NEW k \in Editors, NEW r \in Editable, BeginRemoval(k, r)
      PROVE  Done
  <2>1. [op |-> "remove", rule |-> r, since |-> clock] \in Edit
    BY PromotionsAssumption DEF PromotionsTyped, Edit
  <2> QED BY <1>6, <2>1, NoteStep DEF BeginRemoval
<1>7. ASSUME NEW k \in Editors, CommitRemoval(k)
      PROVE  Done
  <2>1. edit[k].rule \in Rules
    BY <1>7 DEF CommitRemoval, PromotionsTyped, NoEdit, Edit
  <2>2. PICK now \in edit[k].since..clock : rule[edit[k].rule].start > now
    BY <1>7 DEF CommitRemoval, Removable, Ahead
  <2>3. edit[k].since \in Starts /\ clock \in Starts /\ rule[edit[k].rule].start \in Starts
    BY <1>7, <2>1 DEF CommitRemoval, PromotionsTyped, DiscountRule, NoEdit, Edit
  <2>4. rule[edit[k].rule].start > 0
    BY <2>2, <2>3, PromotionsAssumption DEF Starts
  <2> QED
    BY <1>7, <2>1, <2>4
    DEF CommitRemoval, PromotionsTyped, DiscountRule, Edit, EditsValidated, Validated, EndsAfterStart
<1>8. ASSUME NEW k \in Editors, RefuseEdit(k)
      PROVE  Done
  BY <1>8, SameDates DEF RefuseEdit, PromotionsTyped
<1>9. ASSUME NEW b \in toLaunch, Launch(b)
      PROVE  Done
  BY <1>9, SameDates DEF Launch, PromotionsTyped, DiscountRule, Bargain
<1> QED
  BY <1>1, <1>2, <1>3, <1>4, <1>5, <1>6, <1>7, <1>8, <1>9, CommitEditStep
  DEF PromotionsNext, promotionVars, Price, Sell, WorkerStep, StartRound, FailLaunch, Deliver,
      EndRound, Tick, office
-----------------------------------------------------------------------------

\* Every step keeps the invariant.
LEMMA PromotionsInvStep ==
    PromotionsInv /\ [PromotionsNext]_promotionVars => PromotionsInv'
  BY TypedStep, AllFixedStep, LaunchedOnceStep, AppliedStayStep, EditsStep DEF PromotionsInv

\* The invariant holds throughout.
LEMMA PromotionsInvariant == PromotionsSpec => []PromotionsInv
  BY PromotionsInitInv, PromotionsInvStep, PTL DEF PromotionsSpec

\* A promotion is announced once, and once more for every write of its start
\* that its start overtook; unless it overtook one, it is announced with the
\* terms it has.  update of the discounts service runs against
\* promotionLaunches of the worker, whichever launches fail.
THEOREM AnnouncedAsIs == PromotionsSpec => []AnnouncedOnce
<1>1. PromotionsInv => AnnouncedOnce
  <2> SUFFICES ASSUME PromotionsInv PROVE AnnouncedOnce
    OBVIOUS
  <2>1. \A r \in Rules : launched[r].times <= 1 + moved[r]
    BY DEF PromotionsInv, PromotionsTyped, Announcement, LaunchedOnce, Launches
  <2>2. \A r \in Rules \ tardy :
           launched[r].times > 0 => rule[r].there /\ launched[r].terms = rule[r].terms
    BY DEF PromotionsInv, AllFixed, Fixed
  <2> QED BY <2>1, <2>2 DEF AnnouncedOnce
<1> QED BY PromotionsInvariant, <1>1, PTL

LEMMA PromotionsKeepTerms == PromotionsInv => TermsHold
  BY DEF PromotionsInv, TermsHold, AppliedAsAgreed, AppliedStay, AllFixed, Fixed

\* A sale keeps the discount it was given, on the terms it was given on unless
\* the rule started between the moment that a statement compared with and its
\* write, and a rule ends after it starts, for any number of editors and rules.
THEOREM TermsStay == PromotionsSpec => []TermsHold
  BY PromotionsInvariant, PromotionsKeepTerms, PTL

-----------------------------------------------------------------------------
(* Proofs about one purchase order.  The writes check nothing again, so    *)
(* the argument is what a request still knows when it writes: the          *)
(* statuses it was begun under (`Grounded`), and what it counted, which a  *)
(* lock keeps true (`CountsHold`).                                         *)

OrderedGoods == [Items -> Nat]
Lines == Proposals \cup {<<>>}

Request ==
    {Idle}
    \cup [op : {"approve"}, seen : OrderRow]
    \cup [op : {"receive"}, goods : OrderedGoods, seen : OrderRow]
    \cup [op : {"counted"}, goods : OrderedGoods, seen : OrderRow, complete : BOOLEAN]
    \cup [op : {"respond"}, status : {"ACCEPTED", "CHANGES_PROPOSED", "REJECTED"},
          lines : Lines, seen : OrderRow]
    \cup [op : {"review"}, index : 1..MaxResponses, approved : BOOLEAN, seen : Response]
    \cup [op : {"dispatch"}, status : ShipmentStatus, seen : OrderRow]

PurchasingTyped ==
    /\ order \in OrderRow /\ \A i \in Items : order.quantity[i] > 0
    /\ responses \in Seq(Response)
    /\ shipments \in Seq(ShipmentStatus)
    /\ request \in [Clerks -> Request]
    /\ applied \subseteq DOMAIN responses
    /\ overlapped \in BOOLEAN /\ amended \in BOOLEAN

Leaves(seen, pieces) ==
    \A i \in Items : pieces[i] > 0 => pieces[i] <= seen.quantity[i] - seen.received[i]

\* What a request was begun with.
WellGrounded(r) ==
    /\ r.op = "approve" => r.seen.status = "DRAFT"
    /\ r.op \in {"receive", "counted"} =>
          /\ r.seen.status \in {"APPROVED", "PARTIALLY_RECEIVED"}
          /\ r.goods # Nothing /\ Leaves(r.seen, r.goods)
    /\ r.op \in {"respond", "dispatch"} => r.seen.status = "APPROVED"
    /\ r.op = "review" => r.seen.status = "CHANGES_PROPOSED" /\ r.seen.review = "PENDING"

AllGrounded == \A c \in Clerks : WellGrounded(request[c])

\* OrderedGoods only come in.
NoneLost(r) ==
    r.op \in {"receive", "counted"} =>
        \A i \in Items : r.seen.received[i] <= order.received[i]

\* What was counted as complete is complete, and what was not is not unless
\* another receipt was written since.
CountHolds(r) ==
    r.op = "counted" =>
        /\ r.complete => AllReceived(Together(order.received, r.goods))
        /\ r.seen.received = order.received =>
              (AllReceived(Together(order.received, r.goods)) => r.complete)

CountsHold == \A c \in Clerks : NoneLost(request[c]) /\ CountHolds(request[c])

SomeoneAgreed == applied # {} \/ \E n \in DOMAIN responses : responses[n].status = "ACCEPTED"

ShippedAsAgreed ==
    /\ shipments # <<>> => SomeoneAgreed
    /\ \A c \in Clerks : request[c].op = "dispatch" => SomeoneAgreed

ReviewsApplied ==
    /\ \A n \in DOMAIN responses : responses[n].review = "APPROVED" => n \in applied
    /\ \A c \in Clerks : request[c].op = "review" => request[c].index \in DOMAIN responses

\* What holds while no two handlers overlap.
InStep ==
    /\ amended \/ ReceiptsMatch
    /\ order.status = "RECEIVED" => \A n \in DOMAIN shipments : shipments[n] # "DISPATCHED"
    /\ \A n \in applied : responses[n].review = "APPROVED"

PurchasingInv ==
    /\ PurchasingTyped /\ AllGrounded /\ CountsHold /\ ShippedAsAgreed /\ ReviewsApplied
    /\ ReceivedIsComplete
    /\ ~overlapped => InStep

-----------------------------------------------------------------------------

\* An order starts with nothing received, asked for or shipped.
LEMMA PurchasingInitInv == PurchasingInit => PurchasingInv
<1> SUFFICES ASSUME PurchasingInit PROVE PurchasingInv
  OBVIOUS
<1> USE PurchasingAssumption DEF PurchasingInit
<1>1. PurchasingTyped
  <2>1. order \in OrderRow /\ \A i \in Items : order.quantity[i] > 0
    BY DEF OrderRow, Nothing
  <2>2. responses \in Seq(Response) /\ shipments \in Seq(ShipmentStatus)
    OBVIOUS
  <2>3. request \in [Clerks -> Request]
    BY DEF Request
  <2> QED BY <2>1, <2>2, <2>3 DEF PurchasingTyped
<1>2. AllGrounded /\ CountsHold /\ ShippedAsAgreed /\ ReviewsApplied /\ ReceivedIsComplete
  BY DEF AllGrounded, WellGrounded, CountsHold, NoneLost, CountHolds, ShippedAsAgreed,
     ReviewsApplied, ReceivedIsComplete, Idle
<1>3. InStep
  BY DEF InStep, ReceiptsMatch, Complete, Nothing
<1> QED BY <1>1, <1>2, <1>3 DEF PurchasingInv

\* The kinds of requests.
LEMMA RequestShape ==
    ASSUME NEW r \in Request
    PROVE  /\ r.op = "approve" => r.seen \in OrderRow
           /\ r.op = "receive" => r.goods \in OrderedGoods /\ r.seen \in OrderRow
           /\ r.op = "counted" => r.goods \in OrderedGoods /\ r.seen \in OrderRow /\ r.complete \in BOOLEAN
           /\ r.op = "respond" =>
                 /\ r.status \in {"ACCEPTED", "CHANGES_PROPOSED", "REJECTED"}
                 /\ r.lines \in Lines /\ r.seen \in OrderRow
           /\ r.op = "review" =>
                 r.index \in 1..MaxResponses /\ r.approved \in BOOLEAN /\ r.seen \in Response
           /\ r.op = "dispatch" => r.status \in ShipmentStatus /\ r.seen \in OrderRow
<1> USE DEF Request, Idle
<1>1. CASE r.op \in {"approve", "receive", "counted"}
  BY <1>1
<1>2. CASE r.op \in {"respond", "review", "dispatch"}
  BY <1>2
<1>3. CASE r = Idle
  BY <1>3
<1> QED BY <1>1, <1>2, <1>3

\* A receipt adds to what was received.
LEMMA TogetherGoods ==
    ASSUME NEW x \in OrderedGoods, NEW y \in OrderedGoods
    PROVE  /\ Together(x, y) \in OrderedGoods
           /\ \A i \in Items : Together(x, y)[i] = x[i] + y[i]
  BY DEF Together, OrderedGoods

\* A receipt of something receives some of an item.
LEMMA SomeGoods ==
    ASSUME NEW x \in OrderedGoods, x # Nothing
    PROVE  \E i \in Items : x[i] > 0
<1> SUFFICES ASSUME \A i \in Items : ~(x[i] > 0) PROVE FALSE
  OBVIOUS
<1>1. ASSUME NEW i \in Items PROVE x[i] = 0
  <2>1. x[i] \in Nat /\ ~(x[i] > 0)
    BY DEF OrderedGoods
  <2> QED BY <2>1
<1> QED BY <1>1 DEF OrderedGoods, Nothing

\* An amended order still orders some of each item.
LEMMA AmendedQuantity ==
    ASSUME order \in OrderRow, \A i \in Items : order.quantity[i] > 0, NEW lines \in Lines
    PROVE  Amend(lines) \in OrderedGoods /\ \A i \in Items : Amend(lines)[i] > 0
<1>1. CASE lines = <<>>
  BY <1>1 DEF Amend, OrderedGoods, OrderRow
<1>2. CASE lines \in Proposals
  BY <1>2, PurchasingAssumption DEF Amend, OrderedGoods, OrderRow
<1> QED BY <1>1, <1>2 DEF Lines

-----------------------------------------------------------------------------
(* The requests.                                                           *)

\* A request is over: the others are as they were.
LEMMA RequestOver ==
    ASSUME PurchasingInv, NEW c \in Clerks, request' = [request EXCEPT ![c] = Idle]
    PROVE  /\ request' \in [Clerks -> Request]
           /\ AllGrounded'
           /\ \A k \in Clerks : request'[k] = IF k = c THEN Idle ELSE request[k]
           /\ \A k \in Clerks : request'[k].op # "idle" => request'[k] = request[k]
<1>1. request \in [Clerks -> Request] /\ Idle \in Request
  BY DEF PurchasingInv, PurchasingTyped, Request
<1>2. WellGrounded(Idle)
  BY DEF WellGrounded, Idle
<1> QED BY <1>1, <1>2 DEF PurchasingInv, AllGrounded, Idle

\* A request is begun: only that request is new.
LEMMA StartStep ==
    ASSUME PurchasingInv, NEW c \in Clerks, NEW r \in Request, Start(c, r),
           WellGrounded(r), NoneLost(r), r.op # "counted",
           r.op = "dispatch" => SomeoneAgreed,
           r.op = "review" => r.index \in DOMAIN responses
    PROVE  PurchasingInv'
<1>1. /\ \A k \in Clerks : request'[k] = IF k = c THEN r ELSE request[k]
      /\ UNCHANGED <<order, responses, shipments, applied, overlapped, amended>>
  BY DEF PurchasingInv, PurchasingTyped, Start
<1>2. PurchasingTyped' /\ AllGrounded'
  BY <1>1 DEF PurchasingInv, PurchasingTyped, AllGrounded, Start
<1>3. CountsHold'
  BY <1>1 DEF PurchasingInv, CountsHold, NoneLost, CountHolds, AllReceived
<1>4. ShippedAsAgreed' /\ ReviewsApplied'
  BY <1>1 DEF PurchasingInv, ShippedAsAgreed, SomeoneAgreed, ReviewsApplied
<1>5. ReceivedIsComplete' /\ (~overlapped' => InStep')
  BY <1>1 DEF PurchasingInv, ReceivedIsComplete, Complete, InStep, ReceiptsMatch
<1> QED BY <1>2, <1>3, <1>4, <1>5 DEF PurchasingInv

\* The requests that the six handlers begin with.
LEMMA BeginStep ==
    ASSUME PurchasingInv, NEW c \in Clerks,
           \/ BeginApprove(c)
           \/ \E pieces \in Deliveries : BeginReceive(c, pieces)
           \/ \E s \in {"ACCEPTED", "CHANGES_PROPOSED", "REJECTED"}, lines \in Lines :
                 BeginRespond(c, s, lines)
           \/ \E n \in 1..MaxResponses, approved \in BOOLEAN : BeginReview(c, n, approved)
           \/ \E s \in ShipmentStatus : BeginDispatch(c, s)
    PROVE  PurchasingInv'
<1>1. order \in OrderRow /\ responses \in Seq(Response)
  BY DEF PurchasingInv, PurchasingTyped
<1>2. \A i \in Items : order.received[i] <= order.received[i]
  BY <1>1 DEF OrderRow
<1> USE DEF WellGrounded, NoneLost
<1>3. CASE BeginApprove(c)
  <2> DEFINE r == [op |-> "approve", seen |-> order]
  <2>1. r \in Request /\ r.op = "approve" /\ r.seen = order
    BY <1>1 DEF Request
  <2>2. Start(c, r) /\ WellGrounded(r) /\ NoneLost(r)
    BY <1>3, <2>1 DEF BeginApprove, Approvable
  <2> HIDE DEF r
  <2> QED BY <2>1, <2>2, StartStep
<1>4. ASSUME NEW pieces \in Deliveries, BeginReceive(c, pieces)
      PROVE  PurchasingInv'
  <2> DEFINE r == [op |-> "receive", goods |-> pieces, seen |-> order]
  <2>1. pieces \in OrderedGoods
    BY PurchasingAssumption DEF Deliveries, OrderedGoods
  <2>2. r \in Request /\ r.op = "receive" /\ r.seen = order /\ r.goods = pieces
    BY <1>1, <2>1 DEF Request
  <2>3. Start(c, r) /\ WellGrounded(r) /\ NoneLost(r)
    BY <1>2, <1>4, <2>2 DEF BeginReceive, Leaves, Remaining
  <2> HIDE DEF r
  <2> QED BY <2>2, <2>3, StartStep
<1>5. ASSUME NEW s \in {"ACCEPTED", "CHANGES_PROPOSED", "REJECTED"}, NEW lines \in Lines,
             BeginRespond(c, s, lines)
      PROVE  PurchasingInv'
  <2> DEFINE r == [op |-> "respond", status |-> s, lines |-> lines, seen |-> order]
  <2>1. r \in Request /\ r.op = "respond" /\ r.seen = order
    BY <1>1 DEF Request
  <2>2. Start(c, r) /\ WellGrounded(r) /\ NoneLost(r)
    BY <1>5, <2>1 DEF BeginRespond
  <2> HIDE DEF r
  <2> QED BY <2>1, <2>2, StartStep
<1>6. ASSUME NEW n \in 1..MaxResponses, NEW approved \in BOOLEAN, BeginReview(c, n, approved)
      PROVE  PurchasingInv'
  <2> DEFINE r == [op |-> "review", index |-> n, approved |-> approved, seen |-> responses[n]]
  <2>1. n \in DOMAIN responses /\ responses[n] \in Response
    BY <1>1, <1>6 DEF BeginReview
  <2>2. r \in Request /\ r.op = "review" /\ r.seen = responses[n] /\ r.index = n
    BY <2>1 DEF Request
  <2>3. Start(c, r) /\ WellGrounded(r) /\ NoneLost(r)
    BY <1>6, <2>2 DEF BeginReview, Reviewable
  <2> HIDE DEF r
  <2> QED BY <2>1, <2>2, <2>3, StartStep
<1>7. ASSUME NEW s \in ShipmentStatus, BeginDispatch(c, s)
      PROVE  PurchasingInv'
  <2> DEFINE r == [op |-> "dispatch", status |-> s, seen |-> order]
  <2>1. r \in Request /\ r.op = "dispatch" /\ r.seen = order
    BY <1>1 DEF Request
  <2>2. Start(c, r) /\ WellGrounded(r) /\ NoneLost(r)
    BY <1>7, <2>1 DEF BeginDispatch
  <2>3. SomeoneAgreed
    <3>1. responses # <<>> /\ Len(responses) \in DOMAIN responses
      BY <1>1, <1>7 DEF BeginDispatch, Accepted
    <3> QED BY <1>7, <3>1 DEF BeginDispatch, Accepted, SomeoneAgreed, PurchasingInv, ReviewsApplied
  <2> HIDE DEF r
  <2> QED BY <2>1, <2>2, <2>3, StartStep
<1> QED BY <1>3, <1>4, <1>5, <1>6, <1>7

-----------------------------------------------------------------------------
(* The order.                                                              *)

\* A draft has received nothing.
LEMMA CreateStep ==
    ASSUME PurchasingInv, Create
    PROVE  PurchasingInv'
<1> USE DEF Create
<1>1. /\ order' \in OrderRow /\ order.status = "NONE" /\ order'.status = "DRAFT"
      /\ order'.quantity = order.quantity /\ order'.received = order.received
  BY DEF PurchasingInv, PurchasingTyped, OrderRow
<1>2. PurchasingTyped' /\ AllGrounded'
  BY <1>1 DEF PurchasingInv, PurchasingTyped, AllGrounded
<1>3. CountsHold'
  BY <1>1 DEF PurchasingInv, CountsHold, NoneLost, CountHolds, AllReceived
<1>4. ShippedAsAgreed' /\ ReviewsApplied'
  BY DEF PurchasingInv, ShippedAsAgreed, SomeoneAgreed, ReviewsApplied
<1>5. ReceivedIsComplete' /\ (~overlapped' => InStep')
  BY <1>1 DEF PurchasingInv, ReceivedIsComplete, Complete, InStep, ReceiptsMatch
<1> QED BY <1>2, <1>3, <1>4, <1>5 DEF PurchasingInv

\* An approval that is not stale finds a draft.
LEMMA ApproveStep ==
    ASSUME PurchasingInv, NEW c \in Clerks, CommitApprove(c)
    PROVE  PurchasingInv'
<1> USE DEF CommitApprove, Finish
<1>1. /\ order' \in OrderRow /\ order'.status = "APPROVED"
      /\ order'.quantity = order.quantity /\ order'.received = order.received
  BY DEF PurchasingInv, PurchasingTyped, OrderRow
<1>2. ~overlapped' => ~overlapped /\ order.status = "DRAFT"
  BY DEF Stale, PurchasingInv, AllGrounded, WellGrounded
<1>3. PurchasingTyped' /\ AllGrounded'
  BY <1>1, RequestOver DEF PurchasingInv, PurchasingTyped, Stale
<1>4. CountsHold'
  BY <1>1, RequestOver DEF PurchasingInv, CountsHold, NoneLost, CountHolds, AllReceived, Idle
<1>5. ShippedAsAgreed' /\ ReviewsApplied'
  BY RequestOver DEF PurchasingInv, ShippedAsAgreed, SomeoneAgreed, ReviewsApplied, Idle
<1>6. ReceivedIsComplete' /\ (~overlapped' => InStep')
  BY <1>1, <1>2 DEF PurchasingInv, ReceivedIsComplete, Complete, InStep, ReceiptsMatch
<1> QED BY <1>3, <1>4, <1>5, <1>6 DEF PurchasingInv

\* The receipt counts what is committed and its own lines.
LEMMA CountStep ==
    ASSUME PurchasingInv, NEW c \in Clerks, CountReceived(c)
    PROVE  PurchasingInv'
<1> DEFINE r == request[c]
           s == [op |-> "counted", goods |-> r.goods, seen |-> r.seen,
                 complete |-> AllReceived(Together(order.received, r.goods))]
<1>1. r.op = "receive" /\ r.goods \in OrderedGoods /\ r.seen \in OrderRow
  BY RequestShape DEF PurchasingInv, PurchasingTyped, CountReceived
<1>2. /\ \A k \in Clerks : request'[k] = IF k = c THEN s ELSE request[k]
      /\ UNCHANGED <<order, responses, shipments, applied, overlapped, amended>>
  BY DEF PurchasingInv, PurchasingTyped, CountReceived
<1>3. s \in Request
  BY <1>1 DEF Request, AllReceived
<1>4. /\ s.op = "counted" /\ s.goods = r.goods /\ s.seen = r.seen
      /\ s.complete <=> AllReceived(Together(order.received, s.goods))
  OBVIOUS
<1> HIDE DEF s
<1>5. PurchasingTyped'
  BY <1>2, <1>3 DEF PurchasingInv, PurchasingTyped, CountReceived
<1>6. AllGrounded'
  BY <1>1, <1>2, <1>4 DEF PurchasingInv, AllGrounded, WellGrounded
<1>7. NoneLost(request[c])' /\ CountHolds(request[c])'
  <2>1. request'[c] = s /\ UNCHANGED order /\ NoneLost(r)
    BY <1>2 DEF PurchasingInv, CountsHold
  <2>2. AllReceived(Together(order.received, request[c].goods))' <=> s.complete
    BY <1>4, <2>1 DEF AllReceived, Together
  <2> QED BY <1>1, <1>4, <2>1, <2>2 DEF NoneLost, CountHolds
<1>8. CountsHold'
  <2>1. ASSUME NEW k \in Clerks, k # c
        PROVE  NoneLost(request[k])' /\ CountHolds(request[k])'
    <3>1. request'[k] = request[k] /\ UNCHANGED order
      BY <1>2, <2>1
    <3>2. NoneLost(request[k]) /\ CountHolds(request[k])
      BY DEF PurchasingInv, CountsHold
    <3> QED BY <3>1, <3>2 DEF NoneLost, CountHolds, AllReceived, Together
  <2> QED BY <1>7, <2>1 DEF CountsHold
<1>9. ShippedAsAgreed' /\ ReviewsApplied'
  BY <1>2, <1>4 DEF PurchasingInv, ShippedAsAgreed, SomeoneAgreed, ReviewsApplied
<1>10. ReceivedIsComplete' /\ (~overlapped' => InStep')
  BY <1>2 DEF PurchasingInv, ReceivedIsComplete, Complete, InStep, ReceiptsMatch
<1> QED BY <1>5, <1>6, <1>8, <1>9, <1>10 DEF PurchasingInv

\* A receipt writes the status that it counted and what it found room for.
LEMMA ReceiveStep ==
    ASSUME PurchasingInv, NEW c \in Clerks, CommitReceive(c)
    PROVE  PurchasingInv'
<1> DEFINE r == request[c]
<1>1. /\ r.op = "counted" /\ r.goods \in OrderedGoods /\ r.seen \in OrderRow /\ r.complete \in BOOLEAN
      /\ WellGrounded(r) /\ NoneLost(r) /\ CountHolds(r)
  BY RequestShape DEF PurchasingInv, PurchasingTyped, CommitReceive, AllGrounded, CountsHold
<1>2. /\ order \in OrderRow /\ order.received \in OrderedGoods /\ order.quantity \in OrderedGoods
      /\ r.goods # Nothing
  BY <1>1 DEF PurchasingInv, PurchasingTyped, OrderRow, OrderedGoods, WellGrounded
<1>3. /\ order'.status = IF r.complete THEN "RECEIVED" ELSE "PARTIALLY_RECEIVED"
      /\ order'.quantity = order.quantity
      /\ order'.received = Together(order.received, r.goods)
  BY <1>2 DEF CommitReceive, OrderRow
<1>4. /\ order'.received \in OrderedGoods
      /\ \A i \in Items : order'.received[i] = order.received[i] + r.goods[i]
  BY <1>1, <1>2, <1>3, TogetherGoods
<1>5. /\ \A i \in Items : order.received[i] <= order'.received[i]
      /\ \E i \in Items : order.received[i] < order'.received[i]
  <2>1. \A i \in Items : order.received[i] \in Nat /\ r.goods[i] \in Nat
    BY <1>1, <1>2 DEF OrderedGoods
  <2>2. PICK i \in Items : r.goods[i] > 0
    BY <1>1, <1>2, SomeGoods
  <2> QED BY <1>4, <2>1, <2>2
<1>6. /\ DOMAIN shipments' = DOMAIN shipments /\ (shipments' # <<>> => shipments # <<>>)
      /\ shipments' \in Seq(ShipmentStatus)
      /\ r.complete => \A n \in DOMAIN shipments' : shipments'[n] # "DISPATCHED"
  BY DEF PurchasingInv, PurchasingTyped, CommitReceive, AfterReceipt, ShipmentStatus
<1>7. PurchasingTyped' /\ AllGrounded'
  <2>1. order' \in OrderRow
    BY <1>1, <1>2, <1>4 DEF CommitReceive, OrderRow, OrderedGoods
  <2>2. overlapped' \in BOOLEAN
    BY DEF CommitReceive, Finish, PurchasingInv, PurchasingTyped, Stale
  <2> QED BY <1>3, <1>6, <2>1, <2>2, RequestOver
          DEF PurchasingInv, PurchasingTyped, CommitReceive, Finish
<1>8. CountsHold'
  <2> SUFFICES ASSUME NEW k \in Clerks, NEW q, q = request[k], q = request'[k],
                      q.op \in {"receive", "counted"}
               PROVE  NoneLost(q)' /\ CountHolds(q)'
    BY RequestOver DEF CommitReceive, Finish, CountsHold, NoneLost, CountHolds, Idle
  <2>1. /\ q.goods \in OrderedGoods /\ q.seen.received \in OrderedGoods
        /\ q.op = "counted" => q.complete \in BOOLEAN
    <3>1. q \in Request
      BY DEF PurchasingInv, PurchasingTyped
    <3>2. /\ q.goods \in OrderedGoods /\ q.seen \in OrderRow
          /\ q.op = "counted" => q.complete \in BOOLEAN
      BY <3>1, RequestShape
    <3> QED BY <3>2 DEF OrderRow, OrderedGoods
  <2>2. NoneLost(q) /\ CountHolds(q)
    BY DEF PurchasingInv, CountsHold
  <2>3. \A i \in Items : q.seen.received[i] \in Nat /\ q.goods[i] \in Nat
                         /\ order.received[i] \in Nat /\ order'.received[i] \in Nat
                         /\ order.quantity[i] \in Nat
    BY <1>2, <1>4, <2>1 DEF OrderedGoods
  <2>4. NoneLost(q)'
    <3> SUFFICES ASSUME NEW i \in Items, q.op \in {"receive", "counted"}
                 PROVE  q.seen.received[i] <= order'.received[i]
      BY DEF NoneLost
    <3>1. q.seen.received[i] <= order.received[i] /\ order.received[i] <= order'.received[i]
      BY <1>5, <2>2 DEF NoneLost
    <3> QED BY <2>3, <3>1
  <2>5. ASSUME q.op = "counted" PROVE q.seen.received # order'.received
    <3>1. PICK i \in Items : order.received[i] < order'.received[i]
      BY <1>5
    <3>2. q.seen.received[i] <= order.received[i]
      BY <2>2, <2>5 DEF NoneLost
    <3> QED BY <2>3, <3>1, <3>2
  <2>6. ASSUME q.op = "counted", q.complete
        PROVE  AllReceived(Together(order.received, q.goods))'
    <3>1. \A i \in Items : Together(order.received, q.goods)[i] >= order.quantity[i]
      BY <2>2, <2>6 DEF CountHolds, AllReceived
    <3>2. \A i \in Items : /\ Together(order.received, q.goods)[i] = order.received[i] + q.goods[i]
                           /\ Together(order'.received, q.goods)[i] = order'.received[i] + q.goods[i]
      BY <1>2, <1>4, <2>1, TogetherGoods
    <3>3. ASSUME NEW i \in Items
          PROVE  Together(order'.received, q.goods)[i] >= order'.quantity[i]
      BY <1>3, <1>5, <2>3, <3>1, <3>2
    <3> QED BY <3>3 DEF AllReceived, Together
  <2> QED BY <2>1, <2>4, <2>5, <2>6 DEF CountHolds, NoneLost
<1>9. ShippedAsAgreed' /\ ReviewsApplied'
  BY <1>6, RequestOver
  DEF CommitReceive, Finish, PurchasingInv, ShippedAsAgreed, SomeoneAgreed, ReviewsApplied, Idle
<1>10. ReceivedIsComplete'
  BY <1>1, <1>3 DEF CountHolds, AllReceived, ReceivedIsComplete, Complete, CommitReceive
<1>11. ASSUME ~overlapped' PROVE InStep'
  <2>1. ~overlapped /\ r.seen = order
    BY <1>1, <1>11 DEF CommitReceive, Finish, Stale
  <2>2. order'.received # Nothing
    <3>1. PICK i \in Items : order.received[i] < order'.received[i]
      BY <1>5
    <3>2. order.received[i] \in Nat
      BY <1>2 DEF OrderedGoods
    <3> QED BY <3>1, <3>2 DEF Nothing
  <2>3. r.complete <=> AllReceived(order'.received)
    BY <1>1, <1>3, <2>1 DEF CountHolds
  <2>4. r.complete <=> Complete'
    BY <1>3, <2>3 DEF AllReceived, Complete
  <2>5. ASSUME ~amended' PROVE \A i \in Items : order'.received[i] <= order'.quantity[i]
    <3>1. \A i \in Items : order.received[i] <= order.quantity[i]
      BY <2>1, <2>5 DEF CommitReceive, PurchasingInv, InStep, ReceiptsMatch
    <3>2. \A i \in Items : r.goods[i] > 0 => r.goods[i] <= order.quantity[i] - order.received[i]
      BY <1>1, <2>1 DEF WellGrounded, Leaves
    <3>3. \A i \in Items : r.goods[i] \in Nat /\ order.received[i] \in Nat /\ order.quantity[i] \in Nat
      BY <1>1, <1>2 DEF OrderedGoods
    <3>4. ASSUME NEW i \in Items PROVE order'.received[i] <= order'.quantity[i]
      BY <1>3, <1>4, <3>1, <3>2, <3>3
    <3> QED BY <3>4
  <2>6. ~amended' => ReceiptsMatch'
    BY <1>1, <1>3, <2>2, <2>4, <2>5 DEF ReceiptsMatch
  <2>7. order'.status = "RECEIVED" => \A n \in DOMAIN shipments' : shipments'[n] # "DISPATCHED"
    BY <1>1, <1>3, <1>6
  <2>8. amended' \in BOOLEAN /\ \A n \in applied' : responses'[n].review = "APPROVED"
    BY <2>1 DEF CommitReceive, PurchasingInv, PurchasingTyped, InStep
  <2> QED BY <2>6, <2>7, <2>8 DEF InStep
<1> QED BY <1>7, <1>8, <1>9, <1>10, <1>11 DEF PurchasingInv

-----------------------------------------------------------------------------
(* The supplier's part.                                                    *)

\* A response is the latest one and waits for its review if it proposes
\* changes.
LEMMA RespondStep ==
    ASSUME PurchasingInv, NEW c \in Clerks, CommitRespond(c)
    PROVE  PurchasingInv'
<1> DEFINE r == request[c]
           given == [status |-> r.status, lines |-> r.lines,
                      review |-> IF r.status = "CHANGES_PROPOSED" THEN "PENDING"
                                 ELSE "NOT_REQUIRED"]
<1>1. given \in Response /\ given.review # "APPROVED"
  BY RequestShape DEF CommitRespond, PurchasingInv, PurchasingTyped, Response, Lines
<1>2. /\ responses' = Append(responses, given)
      /\ UNCHANGED <<order, shipments, applied, amended>>
      /\ request' = [request EXCEPT ![c] = Idle]
  BY DEF CommitRespond, Finish
<1> HIDE DEF given
<1>3. /\ responses \in Seq(Response) /\ responses' \in Seq(Response)
      /\ DOMAIN responses \subseteq DOMAIN responses'
      /\ \A n \in DOMAIN responses : responses'[n] = responses[n]
      /\ \A n \in DOMAIN responses' : n \notin DOMAIN responses => responses'[n] = given
  BY <1>1, <1>2 DEF PurchasingInv, PurchasingTyped
<1>4. PurchasingTyped' /\ AllGrounded'
  BY <1>2, <1>3, RequestOver DEF PurchasingInv, PurchasingTyped, CommitRespond, Finish, Stale
<1>5. CountsHold'
  BY <1>2, RequestOver DEF PurchasingInv, CountsHold, NoneLost, CountHolds, AllReceived, Idle
<1>6. ShippedAsAgreed' /\ ReviewsApplied'
  BY <1>1, <1>2, <1>3, RequestOver
  DEF PurchasingInv, ShippedAsAgreed, SomeoneAgreed, ReviewsApplied, Idle
<1>7. ReceivedIsComplete' /\ (~overlapped' => InStep')
  <2>1. ~overlapped' => ~overlapped
    BY DEF CommitRespond, Finish
  <2> QED BY <1>2, <1>3, <2>1
          DEF PurchasingInv, PurchasingTyped, ReceivedIsComplete, Complete, InStep, ReceiptsMatch
<1> QED BY <1>4, <1>5, <1>6, <1>7 DEF PurchasingInv

\* A review answers a pending proposal, and an approval waits for receipts
\* that have counted.
LEMMA ReviewStep ==
    ASSUME PurchasingInv, NEW c \in Clerks, CommitReview(c)
    PROVE  PurchasingInv'
<1> DEFINE r == request[c]
           n == r.index
           verdict == IF r.approved THEN "APPROVED" ELSE "REJECTED"
<1>1. /\ r.op = "review" /\ n \in DOMAIN responses /\ responses \in Seq(Response)
      /\ r.approved \in BOOLEAN /\ responses[n] \in Response
  BY RequestShape DEF CommitReview, PurchasingInv, PurchasingTyped, ReviewsApplied
<1>2. /\ responses' = [responses EXCEPT ![n].review = verdict]
      /\ request' = [request EXCEPT ![c] = Idle]
      /\ UNCHANGED shipments
  BY DEF CommitReview, Finish
<1>3. /\ DOMAIN responses' = DOMAIN responses
      /\ \A m \in DOMAIN responses : m # n => responses'[m] = responses[m]
      /\ responses'[n].review = verdict /\ responses'[n].status = responses[n].status
      /\ responses' \in Seq(Response)
  BY <1>1, <1>2 DEF Response
<1>4. /\ order \in OrderRow /\ order' \in OrderRow
      /\ order'.received = order.received /\ order'.status = order.status
      /\ \A i \in Items : order'.quantity[i] > 0
      /\ ~r.approved => order'.quantity = order.quantity
      /\ applied' = IF r.approved THEN applied \cup {n} ELSE applied
  <2>1. responses[n].lines \in Lines
    BY <1>1 DEF Response, Lines
  <2> QED BY <2>1, AmendedQuantity DEF CommitReview, PurchasingInv, PurchasingTyped, OrderRow, OrderedGoods
<1>5. PurchasingTyped' /\ AllGrounded'
  <2>1. overlapped' \in BOOLEAN /\ amended' \in BOOLEAN
    BY DEF CommitReview, Finish, PurchasingInv, PurchasingTyped, Stale
  <2> QED BY <1>1, <1>2, <1>3, <1>4, <2>1, RequestOver DEF PurchasingInv, PurchasingTyped
<1>6. CountsHold'
  <2>1. CASE r.approved
    <3>1. \A k \in Clerks : request[k].op # "counted"
      BY <2>1 DEF CommitReview
    <3> QED BY <1>2, <1>4, <3>1, RequestOver
            DEF PurchasingInv, CountsHold, NoneLost, CountHolds, Idle
  <2>2. CASE ~r.approved
    BY <1>2, <1>4, <2>2, RequestOver
    DEF PurchasingInv, CountsHold, NoneLost, CountHolds, AllReceived, Idle
  <2> QED BY <2>1, <2>2
<1>7. ShippedAsAgreed' /\ ReviewsApplied'
  BY <1>1, <1>2, <1>3, <1>4, RequestOver
  DEF PurchasingInv, ShippedAsAgreed, SomeoneAgreed, ReviewsApplied, Idle
<1>8. ReceivedIsComplete'
  BY <1>4 DEF PurchasingInv, ReceivedIsComplete, Complete
<1>9. ASSUME ~overlapped' PROVE InStep'
  <2>1. ~overlapped /\ r.seen = responses[n] /\ InStep
    BY <1>1, <1>9 DEF CommitReview, Finish, Stale, PurchasingInv
  <2>2. n \notin applied
    BY <1>1, <2>1 DEF InStep, PurchasingInv, AllGrounded, WellGrounded
  <2>3. \A m \in applied' : responses'[m].review = "APPROVED"
    BY <1>3, <1>4, <2>1, <2>2 DEF InStep, PurchasingInv, PurchasingTyped
  <2>4. ASSUME ~amended' PROVE ReceiptsMatch'
    <3>1. CASE r.approved
      <4>1. order.received = Nothing /\ ReceiptsMatch
        BY <2>1, <2>4, <3>1 DEF CommitReview, InStep
      <4>2. order.status \in {"NONE", "DRAFT", "APPROVED"} /\ order'.received = Nothing
        BY <1>4, <4>1 DEF ReceiptsMatch
      <4>3. \A i \in Items : order'.received[i] = 0 /\ order'.quantity[i] \in Nat
        BY <1>4, <4>2 DEF Nothing, OrderRow
      <4> QED BY <1>4, <4>2, <4>3, PurchasingAssumption DEF ReceiptsMatch, Complete
    <3>2. CASE ~r.approved
      BY <1>4, <2>1, <2>4, <3>2 DEF CommitReview, InStep, ReceiptsMatch, Complete
    <3> QED BY <3>1, <3>2
  <2>5. amended' \in BOOLEAN
    BY <1>5 DEF PurchasingTyped
  <2> QED BY <1>2, <1>4, <2>1, <2>3, <2>4, <2>5 DEF InStep
<1> QED BY <1>5, <1>6, <1>7, <1>8, <1>9 DEF PurchasingInv

\* A shipment was agreed when it was begun, and agreements are not taken back.
LEMMA DispatchStep ==
    ASSUME PurchasingInv, NEW c \in Clerks, CommitDispatch(c)
    PROVE  PurchasingInv'
<1>1. /\ request[c].op = "dispatch" /\ request[c].status \in ShipmentStatus
      /\ shipments' = Append(shipments, request[c].status)
      /\ UNCHANGED <<order, responses, applied, amended>>
      /\ request' = [request EXCEPT ![c] = Idle]
      /\ overlapped' = (overlapped \/ order.status # "APPROVED")
  BY RequestShape
  DEF CommitDispatch, Finish, Stale, PurchasingInv, PurchasingTyped, AllGrounded, WellGrounded
<1>2. shipments' \in Seq(ShipmentStatus) /\ overlapped' \in BOOLEAN
  BY <1>1 DEF PurchasingInv, PurchasingTyped, ShipmentStatus
<1>3. PurchasingTyped' /\ AllGrounded'
  BY <1>1, <1>2, RequestOver DEF PurchasingInv, PurchasingTyped
<1>4. CountsHold'
  BY <1>1, RequestOver DEF PurchasingInv, CountsHold, NoneLost, CountHolds, AllReceived, Idle
<1>5. ShippedAsAgreed' /\ ReviewsApplied'
  BY <1>1, RequestOver DEF PurchasingInv, ShippedAsAgreed, SomeoneAgreed, ReviewsApplied, Idle
<1>6. ReceivedIsComplete' /\ (~overlapped' => InStep')
  BY <1>1 DEF PurchasingInv, ReceivedIsComplete, Complete, InStep, ReceiptsMatch
<1> QED BY <1>3, <1>4, <1>5, <1>6 DEF PurchasingInv

\* A request that is given up writes nothing.
LEMMA AbandonStep ==
    ASSUME PurchasingInv, NEW c \in Clerks, Abandon(c)
    PROVE  PurchasingInv'
<1> USE DEF Abandon
<1>1. PurchasingTyped' /\ AllGrounded'
  BY RequestOver DEF PurchasingInv, PurchasingTyped
<1>2. CountsHold'
  BY RequestOver DEF PurchasingInv, CountsHold, NoneLost, CountHolds, AllReceived, Idle
<1>3. ShippedAsAgreed' /\ ReviewsApplied'
  BY RequestOver DEF PurchasingInv, ShippedAsAgreed, SomeoneAgreed, ReviewsApplied, Idle
<1>4. ReceivedIsComplete' /\ (~overlapped' => InStep')
  BY DEF PurchasingInv, ReceivedIsComplete, Complete, InStep, ReceiptsMatch
<1> QED BY <1>1, <1>2, <1>3, <1>4 DEF PurchasingInv

-----------------------------------------------------------------------------

\* Every step keeps the invariant.
LEMMA PurchasingInvStep ==
    PurchasingInv /\ [PurchasingNext]_purchasingVars => PurchasingInv'
<1> SUFFICES ASSUME PurchasingInv, [PurchasingNext]_purchasingVars PROVE PurchasingInv'
  OBVIOUS
<1>1. CASE Create
  BY <1>1, CreateStep
<1>2. ASSUME NEW c \in Clerks,
             \/ CommitApprove(c) \/ CountReceived(c) \/ CommitReceive(c) \/ CommitRespond(c)
             \/ CommitReview(c) \/ CommitDispatch(c) \/ Abandon(c)
      PROVE  PurchasingInv'
  BY <1>2, ApproveStep, CountStep, ReceiveStep, RespondStep, ReviewStep, DispatchStep, AbandonStep
<1>3. CASE UNCHANGED purchasingVars
  BY <1>3 DEF purchasingVars, PurchasingInv, PurchasingTyped, AllGrounded, CountsHold, NoneLost,
     CountHolds, AllReceived, ShippedAsAgreed, SomeoneAgreed, ReviewsApplied,
     ReceivedIsComplete, Complete, InStep, ReceiptsMatch
<1> QED BY <1>1, <1>2, <1>3, BeginStep DEF PurchasingNext, Lines

\* The invariant holds throughout.
LEMMA PurchasingInvariant == PurchasingSpec => []PurchasingInv
  BY PurchasingInitInv, PurchasingInvStep, PTL DEF PurchasingSpec

\* The order tells what came and what was agreed, for any lines, proposals and
\* number of requests: receipts match it, reviews are applied, a complete order
\* is complete and nothing ships that was not agreed (receive, review, respond
\* and createShipment).
THEOREM OrderIsTrue == PurchasingSpec => []OrderTellsTruth
<1>1. PurchasingInv => OrderTellsTruth
  BY DEF PurchasingInv, PurchasingTyped, OrderTellsTruth, InStep, ReviewsApplied, ShippedAsAgreed,
     SomeoneAgreed
<1> QED BY PurchasingInvariant, <1>1, PTL

\* An order does not go back to an earlier status unless two handlers overlap:
\* each writes the status that follows the one it checked.
THEOREM StatusOnlyMovesOn == PurchasingSpec => StatusMovesOn
<1>1. PurchasingInv /\ [PurchasingNext]_purchasingVars =>
          [~overlapped' => Rank(order.status) <= Rank(order'.status)]_purchasingVars
  <2> SUFFICES ASSUME PurchasingInv, PurchasingNext, ~overlapped'
               PROVE  Rank(order.status) <= Rank(order'.status)
    OBVIOUS
  <2>1. order \in OrderRow
    BY DEF PurchasingInv, PurchasingTyped
  <2>2. order.status = order'.status => Rank(order.status) <= Rank(order'.status)
    BY <2>1 DEF OrderRow, Rank
  <2>3. CASE Create
    BY <2>1, <2>3 DEF Create, OrderRow, Rank
  <2>4. ASSUME NEW c \in Clerks, CommitApprove(c)
        PROVE  Rank(order.status) <= Rank(order'.status)
    <3>1. order.status = "DRAFT"
      BY <2>4 DEF CommitApprove, Finish, Stale, PurchasingInv, AllGrounded, WellGrounded
    <3>2. order'.status = "APPROVED"
      BY <2>1, <2>4 DEF CommitApprove, OrderRow
    <3> QED BY <3>1, <3>2 DEF Rank
  <2>5. ASSUME NEW c \in Clerks, CommitReceive(c)
        PROVE  Rank(order.status) <= Rank(order'.status)
    <3>1. order.status \in {"APPROVED", "PARTIALLY_RECEIVED"}
      BY <2>5 DEF CommitReceive, Finish, Stale, PurchasingInv, AllGrounded, WellGrounded
    <3>2. order'.status \in {"PARTIALLY_RECEIVED", "RECEIVED"}
      BY <2>1, <2>5 DEF CommitReceive, OrderRow
    <3> QED BY <3>1, <3>2 DEF Rank
  <2>6. ASSUME NEW c \in Clerks, CommitReview(c)
        PROVE  order.status = order'.status
    BY <2>1, <2>6 DEF CommitReview, OrderRow
  <2> QED
    BY <2>2, <2>3, <2>4, <2>5, <2>6
    DEF PurchasingNext, BeginApprove, BeginReceive, CountReceived, BeginRespond, CommitRespond,
        BeginReview, BeginDispatch, CommitDispatch, Abandon, Start
<1> QED BY PurchasingInvariant, <1>1, PTL DEF PurchasingSpec, StatusMovesOn

-----------------------------------------------------------------------------
(* Proofs about warranties.  Goods that came back while nobody was opening *)
(* their link have a void warranty, so nobody opens the link any more;     *)
(* whoever is still opening one had begun before the goods came back.      *)

\* The row of a unit; a warranty that a sale started ends when it was promised.
WarrantyOK(w) ==
    /\ "status" \in DOMAIN w
    /\ w.status = "ACTIVE" /\ w.by = "sale" => w.end[1] = w.start[1] + Duration

WarrantyRows ==
    /\ DOMAIN goods = Units /\ DOMAIN warranty = Units
    /\ \A u \in Units : WarrantyOK(warranty[u])

\* Goods that came back.
ReturnsVoid ==
    \A u \in Units \ crossed :
        goods[u] = "returned" => warranty[u].status \in {"none", "VOIDED"}

\* Links that are being opened.
OpenedInTime ==
    /\ DOMAIN opened = Desks
    /\ \A k \in Desks : opened[k] # Free =>
          /\ opened[k].unit \in Links
          /\ goods[opened[k].unit] = "returned" => opened[k].unit \in crossed

OnePolicy ==
    /\ DOMAIN policy = Policies
    /\ doubled \/ \A p, q \in Valid : p = q

WarrantiesInv == WarrantyRows /\ ReturnsVoid /\ OpenedInTime /\ OnePolicy

LEMMA WarrantiesInitInv == WarrantiesInit => WarrantiesInv
<1> SUFFICES ASSUME WarrantiesInit PROVE WarrantiesInv
  OBVIOUS
<1>1. WarrantyRows
  BY DEF WarrantiesInit, WarrantyRows, WarrantyOK, NoWarranty
<1>2. ReturnsVoid
  BY DEF WarrantiesInit, ReturnsVoid
<1>3. OpenedInTime
  BY DEF WarrantiesInit, OpenedInTime
<1>4. OnePolicy
  BY DEF WarrantiesInit, OnePolicy, Valid
<1> QED  BY <1>1, <1>2, <1>3, <1>4 DEF WarrantiesInv

\* Policies are made active and ended.
LEMMA PolicyStep ==
    ASSUME WarrantiesInv, NEW p \in Policies,
           (\E k \in Desks : BeginPolicy(k, p) \/ CommitPolicy(k)) \/ EndPolicy(p)
    PROVE  WarrantiesInv'
<1>1. UNCHANGED <<goods, warranty, opened, crossed>>
  BY DEF BeginPolicy, CommitPolicy, EndPolicy, goodsVars
<1>2. WarrantyRows' /\ ReturnsVoid' /\ OpenedInTime'
  BY <1>1 DEF WarrantiesInv, WarrantyRows, WarrantyOK, ReturnsVoid, OpenedInTime
<1>3. DOMAIN policy = Policies
  BY DEF WarrantiesInv, OnePolicy
<1>4. OnePolicy'
  <2>1. ASSUME NEW k \in Desks, BeginPolicy(k, p)
        PROVE  OnePolicy'
    BY <2>1 DEF BeginPolicy, WarrantiesInv, OnePolicy, Valid
  <2>2. ASSUME NEW k \in Desks, CommitPolicy(k)
        PROVE  OnePolicy'
    <3>1. policy' = [policy EXCEPT ![policyWork[k].policy] = "ACTIVE"]
      BY <2>2 DEF CommitPolicy
    <3>2. doubled' \/ Valid = {}
      BY <2>2 DEF CommitPolicy
    <3>3. \A q \in Valid' : q \in Valid \/ q = policyWork[k].policy
      BY <1>3, <3>1 DEF Valid
    <3>4. DOMAIN policy' = Policies
      BY <1>3, <3>1
    <3> QED  BY <3>2, <3>3, <3>4 DEF OnePolicy
  <2>3. CASE EndPolicy(p)
    <3>1. policy' = [policy EXCEPT ![p] = "INACTIVE"] /\ (doubled => doubled')
      BY <2>3 DEF EndPolicy, policyVars
    <3>2. Valid' \subseteq Valid /\ DOMAIN policy' = Policies
      BY <1>3, <3>1 DEF Valid
    <3>3. doubled' = doubled
      BY <2>3 DEF EndPolicy
    <3> QED  BY <3>2, <3>3 DEF WarrantiesInv, OnePolicy
  <2> QED  BY <2>1, <2>2, <2>3
<1> QED  BY <1>2, <1>4 DEF WarrantiesInv

\* A unit is sold, perhaps with a warranty.
LEMMA SellUnitStep ==
    ASSUME WarrantiesInv, NEW u \in Units, NEW at \in Moments, SellUnit(u, at)
    PROVE  WarrantiesInv'
<1> DEFINE w == [status |-> "ACTIVE", start |-> at, by |-> "sale",
                 end |-> calculateWarrantyEndDate(at, Duration)]
<1>1. /\ goods' = [goods EXCEPT ![u] = "sold"]
      /\ warranty' = warranty \/ warranty' = [warranty EXCEPT ![u] = w]
      /\ UNCHANGED <<policy, doubled, opened, crossed>>
  BY DEF SellUnit, policyVars
<1>2. WarrantyOK(w)
  BY DEF WarrantyOK, calculateWarrantyEndDate
<1> HIDE DEF w
<1>3. WarrantyRows'
  BY <1>1, <1>2 DEF WarrantiesInv, WarrantyRows, WarrantyOK
<1>4. \A v \in Units : v # u => goods'[v] = goods[v] /\ warranty'[v] = warranty[v]
  BY <1>1 DEF WarrantiesInv, WarrantyRows
<1>5. goods'[u] = "sold"
  BY <1>1 DEF WarrantiesInv, WarrantyRows
<1>6. ReturnsVoid'
  BY <1>1, <1>4, <1>5 DEF WarrantiesInv, ReturnsVoid
<1>7. OpenedInTime'
  BY <1>1, <1>4, <1>5, WarrantiesAssumption DEF WarrantiesInv, OpenedInTime
<1>8. OnePolicy'
  BY <1>1 DEF WarrantiesInv, OnePolicy, Valid
<1> QED  BY <1>3, <1>6, <1>7, <1>8 DEF WarrantiesInv

\* A unit comes back.
LEMMA ReturnUnitStep ==
    ASSUME WarrantiesInv, NEW u \in Units, ReturnUnit(u)
    PROVE  WarrantiesInv'
<1>1. /\ goods' = [goods EXCEPT ![u] = "returned"]
      /\ warranty' = [warranty EXCEPT ![u] = Voided(warranty[u])]
      /\ crossed' = IF \E k \in Desks : opened[k] # Free /\ opened[k].unit = u
                      THEN crossed \cup {u} ELSE crossed
      /\ UNCHANGED <<policy, doubled, opened>>
  BY DEF ReturnUnit, policyVars
<1>2. /\ Voided(warranty[u]).status \in {"none", "VOIDED"}
      /\ "status" \in DOMAIN Voided(warranty[u])
  BY DEF WarrantiesInv, WarrantyRows, WarrantyOK, Voided, NoWarranty
<1> DEFINE w == Voided(warranty[u])
<1>3. WarrantyOK(w)
  BY <1>2 DEF WarrantyOK
<1>4. w.status \in {"none", "VOIDED"} /\ warranty' = [warranty EXCEPT ![u] = w]
  BY <1>1, <1>2
<1> HIDE DEF w
<1>5. WarrantyRows'
  BY <1>1, <1>3, <1>4 DEF WarrantiesInv, WarrantyRows, WarrantyOK
<1>6. ReturnsVoid'
  BY <1>1, <1>4 DEF WarrantiesInv, WarrantyRows, ReturnsVoid
<1>7. OpenedInTime'
  <2>1. crossed \subseteq crossed' /\ opened' = opened
    BY <1>1
  <2>2. ASSUME NEW k \in Desks, opened[k] # Free, goods'[opened[k].unit] = "returned"
        PROVE  opened[k].unit \in crossed'
    <3>1. opened[k].unit \in Units
      BY <2>2, WarrantiesAssumption DEF WarrantiesInv, OpenedInTime
    <3>2. CASE opened[k].unit = u
      BY <1>1, <2>2, <3>2
    <3>3. CASE opened[k].unit # u
      BY <1>1, <2>1, <2>2, <3>1, <3>3 DEF WarrantiesInv, WarrantyRows, OpenedInTime
    <3> QED  BY <3>2, <3>3
  <2> QED  BY <2>1, <2>2 DEF WarrantiesInv, OpenedInTime
<1>8. OnePolicy'
  BY <1>1 DEF WarrantiesInv, OnePolicy, Valid
<1> QED  BY <1>5, <1>6, <1>7, <1>8 DEF WarrantiesInv

\* A link is opened: the unit is at the customer's, or came back meanwhile.
LEMMA BeginActivationStep ==
    ASSUME WarrantiesInv, NEW k \in Desks, NEW u \in Links, NEW at \in Moments,
           BeginActivation(k, u, at)
    PROVE  WarrantiesInv'
<1> DEFINE o == [op |-> "open", unit |-> u, at |-> at]
<1>1. /\ opened' = [opened EXCEPT ![k] = o] /\ o.unit = u
      /\ UNCHANGED <<policy, doubled, goods, warranty, crossed>>
  BY DEF BeginActivation, policyVars
<1> HIDE DEF o
<1>2. WarrantyRows' /\ ReturnsVoid' /\ OnePolicy'
  BY <1>1 DEF WarrantiesInv, WarrantyRows, WarrantyOK, ReturnsVoid, OnePolicy, Valid
<1>3. goods[u] = "returned" => u \in crossed
  BY WarrantiesAssumption DEF BeginActivation, WarrantiesInv, ReturnsVoid
<1>4. OpenedInTime'
  BY <1>1, <1>3 DEF WarrantiesInv, OpenedInTime
<1> QED  BY <1>2, <1>4 DEF WarrantiesInv

LEMMA CommitActivationStep ==
    ASSUME WarrantiesInv, NEW k \in Desks, CommitActivation(k)
    PROVE  WarrantiesInv'
<1> PICK u, at : u = opened[k].unit /\ at = opened[k].at
  OBVIOUS
<1> DEFINE w == [status |-> "ACTIVE", start |-> at, by |-> "link",
                 end |-> RolledOver(at, Duration)]
<1>1. /\ opened' = [opened EXCEPT ![k] = Free]
      /\ warranty' = warranty \/ warranty' = [warranty EXCEPT ![u] = w]
      /\ UNCHANGED <<policy, doubled, goods, crossed>>
  BY DEF CommitActivation, policyVars
<1>2. u \in Units /\ (goods[u] = "returned" => u \in crossed)
  BY WarrantiesAssumption DEF CommitActivation, WarrantiesInv, OpenedInTime
<1>3. WarrantyOK(w)
  BY DEF WarrantyOK
<1> HIDE DEF w
<1>4. WarrantyRows'
  BY <1>1, <1>3 DEF WarrantiesInv, WarrantyRows, WarrantyOK
<1>5. ReturnsVoid'
  BY <1>1, <1>2 DEF WarrantiesInv, WarrantyRows, ReturnsVoid
<1>6. OpenedInTime' /\ OnePolicy'
  BY <1>1 DEF WarrantiesInv, OpenedInTime, OnePolicy, Valid
<1> QED  BY <1>4, <1>5, <1>6 DEF WarrantiesInv

LEMMA WarrantiesInvStep ==
    ASSUME WarrantiesInv, [WarrantiesNext]_warrantyVars
    PROVE  WarrantiesInv'
<1>1. CASE UNCHANGED warrantyVars
  BY <1>1 DEF warrantyVars, WarrantiesInv, WarrantyRows, WarrantyOK, ReturnsVoid, OpenedInTime,
              OnePolicy, Valid
<1>2. ASSUME NEW k \in Desks, CommitPolicy(k)
      PROVE  WarrantiesInv'
  <2>1. CASE Policies = {}
    <3>1. UNCHANGED <<goods, warranty, opened, crossed>>
      BY <1>2 DEF CommitPolicy, goodsVars
    <3>2. DOMAIN policy' = Policies /\ Valid' = {}
      BY <1>2, <2>1 DEF CommitPolicy, WarrantiesInv, OnePolicy, Valid
    <3> QED
      BY <3>1, <3>2 DEF WarrantiesInv, WarrantyRows, WarrantyOK, ReturnsVoid, OpenedInTime,
                        OnePolicy
  <2>2. CASE Policies # {}
    <3> PICK p \in Policies : TRUE
      BY <2>2
    <3> QED  BY <1>2, PolicyStep
  <2> QED  BY <2>1, <2>2
<1> QED
  BY <1>1, <1>2, PolicyStep, SellUnitStep, ReturnUnitStep, BeginActivationStep,
     CommitActivationStep
  DEF WarrantiesNext

\* The warranty of goods that came back is void, a product has one active policy
\* and a warranty ends in the month it was promised to, unless two policies were
\* made active at once or the goods came back while their link was being opened.
THEOREM WarrantiesAreKept == WarrantiesSpec => []WarrantiesKept
<1>1. WarrantiesInv => WarrantiesKept
  <2> SUFFICES ASSUME WarrantiesInv PROVE WarrantiesKept
    OBVIOUS
  <2>1. ASSUME ~doubled PROVE Cardinality(Valid) <= 1
    <3>1. CASE Valid = {}
      BY <3>1, FS_EmptySet
    <3>2. ASSUME NEW p \in Valid PROVE Cardinality(Valid) <= 1
      <4>1. Valid = {p}
        BY <2>1 DEF WarrantiesInv, OnePolicy
      <4>2. Cardinality({p}) = 1
        BY FS_Singleton
      <4> QED  BY <4>1, <4>2
    <3> QED  BY <3>1, <3>2
  <2>2. \A u \in Units : warranty[u].status = "ACTIVE" /\ warranty[u].by = "sale" =>
            warranty[u].end[1] = warranty[u].start[1] + Duration
    BY DEF WarrantiesInv, WarrantyRows, WarrantyOK
  <2>3. ReturnsVoid
    BY DEF WarrantiesInv
  <2> QED  BY <2>1, <2>2, <2>3 DEF WarrantiesKept, ReturnsVoid
<1> QED
  BY <1>1, WarrantiesInitInv, WarrantiesInvStep, PTL DEF WarrantiesSpec

-----------------------------------------------------------------------------
(* Proofs about the objects of the store.  Objects are numbered as they    *)
(* are put, so what is put is new to every row and every request.  A       *)
(* request that is going to write an object is the only one to know it; a  *)
(* request that is going to remove objects took them from rows that do not *)
(* name them any more, and no row ever names an object a second time.      *)

\* The object that a request is going to name.
WritesOf(r) == IF r.op = "write" THEN {r.object} ELSE {}

\* What a request has read or taken from a row: a logo, images, waste.
WasLogo(r) == IF r.op \in {"put", "write", "unlogo"} THEN {r.old} \ {0} ELSE {}
WasImages(r) == IF r.op = "retain" THEN r.read ELSE {}
Waste(r) == IF r.op = "remove" THEN r.waste ELSE {}
PastOf(r) == WasLogo(r) \cup WasImages(r) \cup Waste(r)

RequestFits(r) ==
    /\ WritesOf(r) \subseteq objects
    /\ WritesOf(r) \cap (Named \cup PastOf(r)) = {}
    /\ PastOf(r) \subseteq 1..put
    /\ WasLogo(r) \cap (images \cup video) = {}
    /\ WasImages(r) \cap (video \cup {logo}) = {}
    /\ Waste(r) \cap Named = {}

\* Two requests write two objects, and none that the other took from a row.
Apart(r, s) == WritesOf(r) \cap (WritesOf(s) \cup PastOf(s)) = {}

\* The rows of the product and the organization.
RowsInv ==
    /\ put \in Nat /\ logo \in Nat /\ objects \subseteq 1..put
    /\ RowsHaveObjects
    /\ images \cap video = {} /\ logo \notin images \cup video

RequestsInv ==
    /\ DOMAIN upload = Uploaders
    /\ \A k \in Uploaders : RequestFits(upload[k])
    /\ \A j, k \in Uploaders : j # k => Apart(upload[j], upload[k])

NothingLost ==
    \A o \in objects :
        o \in Named \/ o \in adrift
          \/ \E k \in Uploaders : o \in WritesOf(upload[k]) \cup Waste(upload[k])

RoomForImages == crowded \/ Cardinality(images) <= MaxImages

MediaInv == RowsInv /\ RequestsInv /\ NothingLost /\ RoomForImages

LEMMA MediaInitInv == CatalogInit => MediaInv
<1> SUFFICES ASSUME CatalogInit PROVE MediaInv
  OBVIOUS
<1>1. \A k \in Uploaders : upload[k] = Vacant
  BY DEF CatalogInit
<1>2. WritesOf(Vacant) = {} /\ PastOf(Vacant) = {} /\ WasLogo(Vacant) = {}
      /\ WasImages(Vacant) = {} /\ Waste(Vacant) = {}
  BY DEF WritesOf, PastOf, WasLogo, WasImages, Waste, Vacant
<1>3. RowsInv /\ NothingLost
  BY DEF CatalogInit, RowsInv, RowsHaveObjects, Named, NothingLost
<1>4. RequestsInv
  <2>1. DOMAIN upload = Uploaders
    BY DEF CatalogInit
  <2>2. RequestFits(Vacant) /\ Apart(Vacant, Vacant)
    BY <1>2 DEF RequestFits, Apart
  <2> QED  BY <1>1, <2>1, <2>2 DEF RequestsInv
<1>5. RoomForImages
  BY FS_EmptySet, CatalogAssumption DEF CatalogInit, RoomForImages
<1> QED  BY <1>3, <1>4, <1>5 DEF MediaInv

-----------------------------------------------------------------------------
(* One request goes on: r is what it holds next.                           *)

\* The requests, if rows only gain what k was going to write and the objects
\* of the others stay.
LEMMA RequestsChange ==
    ASSUME RequestsInv, NEW k \in Uploaders, NEW r, upload' = [upload EXCEPT ![k] = r],
           put \in Nat, put' \in Nat, put <= put', logo \in Nat, logo' \in Nat,
           \A j \in Uploaders : j # k => WritesOf(upload[j]) \subseteq objects',
           images' \subseteq images \cup WritesOf(upload[k]),
           video' \subseteq video \cup WritesOf(upload[k]),
           logo' \in {0, logo} \cup WritesOf(upload[k]),
           RequestFits(r)',
           \A j \in Uploaders : j # k => Apart(r, upload[j]) /\ Apart(upload[j], r)
    PROVE  RequestsInv'
<1>1. DOMAIN upload' = Uploaders
  BY DEF RequestsInv
<1>2. \A j \in Uploaders : upload'[j] = IF j = k THEN r ELSE upload[j]
  BY DEF RequestsInv
<1>3. ASSUME NEW j \in Uploaders, j # k
      PROVE  RequestFits(upload[j])'
  <2>1. upload'[j] = upload[j]
    BY <1>2, <1>3
  <2>2. RequestFits(upload[j]) /\ Apart(upload[j], upload[k]) /\ Apart(upload[k], upload[j])
    BY <1>3 DEF RequestsInv
  <2> DEFINE s == upload[j]
  <2>3. PastOf(s) \subseteq 1..put'
    BY <2>2 DEF RequestFits
  <2>4. Named' \subseteq Named \cup WritesOf(upload[k])
    BY DEF Named
  <2>5. WritesOf(s) \cap (Named' \cup PastOf(s)) = {}
    BY <2>2, <2>4 DEF RequestFits, Apart
  <2>6. WritesOf(s) \subseteq objects'
    BY <1>3
  <2>7. WasLogo(s) \cap (images' \cup video') = {}
    BY <2>2 DEF RequestFits, Apart, PastOf
  <2>8. WasImages(s) \cap (video' \cup {logo'}) = {}
    <3>1. WasImages(s) \cap (video \cup {logo} \cup WritesOf(upload[k])) = {}
      BY <2>2 DEF RequestFits, Apart, PastOf
    <3>2. 0 \notin WasImages(s)
      BY <2>2 DEF RequestFits, PastOf
    <3> QED  BY <3>1, <3>2
  <2>9. Waste(s) \cap Named' = {}
    BY <2>2, <2>4 DEF RequestFits, Apart, PastOf
  <2> QED
    BY <2>1, <2>3, <2>5, <2>6, <2>7, <2>8, <2>9
    DEF RequestFits, WritesOf, PastOf, WasLogo, WasImages, Waste
<1>4. \A j \in Uploaders : RequestFits(upload[j])'
  <2>1. RequestFits(upload[k])'
    BY <1>2 DEF RequestFits, WritesOf, PastOf, WasLogo, WasImages, Waste
  <2> QED  BY <1>3, <2>1
<1>5. \A i, j \in Uploaders : i # j => Apart(upload'[i], upload'[j])
  BY <1>2 DEF RequestsInv
<1> HIDE DEF RequestFits, Apart
<1> QED  BY <1>1, <1>4, <1>5 DEF RequestsInv, Apart, RequestFits

\* What the store holds, if what a row or the request gives up is given up by
\* the store too, or goes to a row, to the request or to those left behind.
LEMMA LostChange ==
    ASSUME NothingLost, DOMAIN upload = Uploaders, NEW k \in Uploaders, NEW r,
           upload' = [upload EXCEPT ![k] = r],
           \A o \in objects' \ objects : o \in WritesOf(r),
           \A o \in objects' :
               o \in Named \/ o \in adrift \/ o \in WritesOf(upload[k]) \cup Waste(upload[k])
               => o \in Named' \/ o \in adrift' \/ o \in WritesOf(r) \cup Waste(r)
    PROVE  NothingLost'
<1>1. \A j \in Uploaders : upload'[j] = IF j = k THEN r ELSE upload[j]
  OBVIOUS
<1>2. ASSUME NEW o \in objects'
      PROVE  o \in Named' \/ o \in adrift'
               \/ \E j \in Uploaders : o \in WritesOf(upload'[j]) \cup Waste(upload'[j])
  <2>1. CASE o \in WritesOf(r)
    BY <1>1, <2>1
  <2>2. CASE o \in objects /\ \A j \in Uploaders : j # k =>
                 o \notin WritesOf(upload[j]) \cup Waste(upload[j])
    BY <1>1, <1>2, <2>2 DEF NothingLost
  <2>3. ASSUME NEW j \in Uploaders, j # k, o \in WritesOf(upload[j]) \cup Waste(upload[j])
        PROVE  \E i \in Uploaders : o \in WritesOf(upload'[i]) \cup Waste(upload'[i])
    BY <1>1, <2>3
  <2> QED  BY <1>2, <2>1, <2>2, <2>3
<1> QED  BY <1>2 DEF NothingLost, WritesOf, Waste

\* A request that is done but for the objects it removes.
LEMMA RemovingRequest ==
    ASSUME NEW k \in Uploaders, NEW S, Removing(k, S)
    PROVE  \E r : /\ upload' = [upload EXCEPT ![k] = r]
                  /\ WritesOf(r) = {} /\ WasLogo(r) = {} /\ WasImages(r) = {}
                  /\ Waste(r) = S /\ PastOf(r) = S
<1> DEFINE r == IF S = {} THEN Vacant ELSE [op |-> "remove", waste |-> S]
<1>1. upload' = [upload EXCEPT ![k] = r]
  BY DEF Removing
<1>2. WritesOf(r) = {} /\ WasLogo(r) = {} /\ WasImages(r) = {} /\ Waste(r) = S
  BY DEF Vacant, WritesOf, WasLogo, WasImages, Waste
<1>3. PastOf(r) = S
  BY <1>2 DEF PastOf
<1> HIDE DEF r
<1> QED  BY <1>1, <1>2, <1>3

\* What a request holds and what it may not hold.
LEMMA RequestFacts ==
    ASSUME MediaInv, NEW k \in Uploaders
    PROVE  /\ DOMAIN upload = Uploaders /\ put \in Nat /\ logo \in Nat
           /\ Named \subseteq objects /\ objects \subseteq 1..put
           /\ RequestFits(upload[k])
           /\ \A j \in Uploaders : j # k =>
                 /\ RequestFits(upload[j])
                 /\ Apart(upload[k], upload[j]) /\ Apart(upload[j], upload[k])
BY DEF MediaInv, RowsInv, RowsHaveObjects, RequestsInv

\* A request comes in, having read some rows.
LEMMA RequestComes ==
    ASSUME MediaInv, NEW k \in Uploaders, upload[k] = Vacant, NEW r,
           upload' = [upload EXCEPT ![k] = r],
           UNCHANGED <<objects, put, images, video, logo, adrift, crowded>>,
           WritesOf(r) = {}, Waste(r) = {},
           WasLogo(r) \subseteq {logo} \ {0}, WasImages(r) \subseteq images
    PROVE  MediaInv'
<1>1. PastOf(r) \subseteq Named
  BY DEF PastOf, Named, MediaInv, RowsInv, RowsHaveObjects
<1>2. RequestFits(r)'
  BY <1>1 DEF RequestFits, MediaInv, RowsInv, RowsHaveObjects, Named, PastOf, WritesOf, Waste,
              WasLogo, WasImages
<1>3. \A j \in Uploaders : j # k => Apart(r, upload[j]) /\ Apart(upload[j], r)
  <2> SUFFICES ASSUME NEW j \in Uploaders, j # k
               PROVE  Apart(r, upload[j]) /\ Apart(upload[j], r)
    OBVIOUS
  <2>1. RequestFits(upload[j])
    BY RequestFacts
  <2> QED  BY <1>1, <2>1 DEF Apart, RequestFits
<1>4. RequestsInv'
  <2>1. /\ images' \subseteq images \cup WritesOf(upload[k])
        /\ video' \subseteq video \cup WritesOf(upload[k])
        /\ logo' \in {0, logo} \cup WritesOf(upload[k])
        /\ put \in Nat /\ put' \in Nat /\ put <= put' /\ logo \in Nat /\ logo' \in Nat
    BY DEF MediaInv, RowsInv
  <2>2. \A j \in Uploaders : j # k => WritesOf(upload[j]) \subseteq objects'
    BY DEF MediaInv, RequestsInv, RequestFits
  <2>3. RequestsInv
    BY DEF MediaInv
  <2> QED  BY <1>2, <1>3, <2>1, <2>2, <2>3, RequestsChange
<1>5. NothingLost'
  <2>1. NothingLost /\ DOMAIN upload = Uploaders
    BY DEF MediaInv, RequestsInv
  <2>2. WritesOf(upload[k]) = {} /\ Waste(upload[k]) = {}
    BY DEF WritesOf, Waste, Vacant
  <2>3. Named' = Named
    BY DEF Named
  <2> QED  BY <2>1, <2>2, <2>3, LostChange
<1>6. RowsInv' /\ RoomForImages'
  BY DEF MediaInv, RowsInv, RowsHaveObjects, Named, RoomForImages
<1> QED  BY <1>4, <1>5, <1>6 DEF MediaInv

LEMMA BeginMediaStep ==
    ASSUME MediaInv, NEW k \in Uploaders,
           \/ \E kind \in {"image", "video", "logo"} : BeginUpload(k, kind)
           \/ \E kind \in {"image", "video"}, o \in Objects : BeginDrop(k, kind, o)
           \/ \E keep \in SUBSET images : BeginRetain(k, keep)
           \/ BeginUnlogo(k)
    PROVE  MediaInv'
<1>1. ASSUME NEW kind \in {"image", "video", "logo"}, BeginUpload(k, kind)
      PROVE  MediaInv'
  <2> DEFINE r == [op |-> "put", kind |-> kind, old |-> IF kind = "logo" THEN logo ELSE 0]
  <2>1. /\ upload[k] = Vacant /\ upload' = [upload EXCEPT ![k] = r]
        /\ UNCHANGED <<objects, put, images, video, logo, adrift, crowded>>
    BY <1>1 DEF BeginUpload
  <2>2. /\ WritesOf(r) = {} /\ Waste(r) = {} /\ WasImages(r) = {}
        /\ WasLogo(r) \subseteq {logo} \ {0}
    BY DEF WritesOf, Waste, WasImages, WasLogo
  <2> HIDE DEF r
  <2> QED  BY <2>1, <2>2, RequestComes
<1>2. ASSUME NEW kind \in {"image", "video"}, NEW o \in Objects, BeginDrop(k, kind, o)
      PROVE  MediaInv'
  <2> DEFINE r == [op |-> "drop", kind |-> kind, object |-> o]
  <2>1. /\ upload[k] = Vacant /\ upload' = [upload EXCEPT ![k] = r]
        /\ UNCHANGED <<objects, put, images, video, logo, adrift, crowded>>
    BY <1>2 DEF BeginDrop
  <2>2. WritesOf(r) = {} /\ Waste(r) = {} /\ WasImages(r) = {} /\ WasLogo(r) = {}
    BY DEF WritesOf, Waste, WasImages, WasLogo
  <2> HIDE DEF r
  <2> QED  BY <2>1, <2>2, RequestComes
<1>3. ASSUME NEW keep \in SUBSET images, BeginRetain(k, keep)
      PROVE  MediaInv'
  <2> DEFINE r == [op |-> "retain", read |-> images, keep |-> keep]
  <2>1. /\ upload[k] = Vacant /\ upload' = [upload EXCEPT ![k] = r]
        /\ UNCHANGED <<objects, put, images, video, logo, adrift, crowded>>
    BY <1>3 DEF BeginRetain
  <2>2. WritesOf(r) = {} /\ Waste(r) = {} /\ WasImages(r) = images /\ WasLogo(r) = {}
    BY DEF WritesOf, Waste, WasImages, WasLogo
  <2> HIDE DEF r
  <2> QED  BY <2>1, <2>2, RequestComes
<1>4. CASE BeginUnlogo(k)
  <2> DEFINE r == [op |-> "unlogo", old |-> logo]
  <2>1. /\ upload[k] = Vacant /\ upload' = [upload EXCEPT ![k] = r]
        /\ UNCHANGED <<objects, put, images, video, logo, adrift, crowded>>
    BY <1>4 DEF BeginUnlogo
  <2>2. /\ WritesOf(r) = {} /\ Waste(r) = {} /\ WasImages(r) = {}
        /\ WasLogo(r) \subseteq {logo} \ {0}
    BY DEF WritesOf, Waste, WasImages, WasLogo
  <2> HIDE DEF r
  <2> QED  BY <2>1, <2>2, RequestComes
<1> QED  BY <1>1, <1>2, <1>3, <1>4

-----------------------------------------------------------------------------
(* A request writes what it was going to, or fails.  It may go on to the   *)
(* objects that it has to remove.                                          *)

\* What the rows gain, the request was going to write; what it removes then,
\* no row names and no other request is going to write.
LEMMA RequestEnds ==
    ASSUME MediaInv, NEW k \in Uploaders, NEW r, upload' = [upload EXCEPT ![k] = r],
           WritesOf(r) = {}, WasLogo(r) = {}, WasImages(r) = {}, PastOf(r) = Waste(r),
           put' = put, Waste(r) \subseteq 1..put, Waste(r) \cap Named' = {},
           \A j \in Uploaders : j # k =>
               WritesOf(upload[j]) \cap Waste(r) = {} /\ WritesOf(upload[j]) \subseteq objects',
           objects' \subseteq objects, Named' \subseteq objects',
           images' \subseteq images \cup WritesOf(upload[k]),
           video' \subseteq video \cup WritesOf(upload[k]),
           logo' \in {0, logo} \cup WritesOf(upload[k]),
           images' \cap video' = {}, logo' \notin images' \cup video',
           \A o \in objects' :
               o \in Named \/ o \in adrift \/ o \in WritesOf(upload[k]) \cup Waste(upload[k])
               => o \in Named' \/ o \in adrift' \/ o \in Waste(r),
           RoomForImages'
    PROVE  MediaInv'
<1>1. /\ DOMAIN upload = Uploaders /\ put \in Nat /\ logo \in Nat
      /\ objects \subseteq 1..put /\ RequestFits(upload[k])
  BY RequestFacts
<1>2. logo' \in Nat
  BY <1>1 DEF RequestFits
<1>3. RowsInv'
  BY <1>1, <1>2 DEF RowsInv, RowsHaveObjects
<1>4. RequestFits(r)'
  <2>1. PastOf(r) \subseteq 1..put'
    OBVIOUS
  <2> QED  BY <2>1 DEF RequestFits, WritesOf, PastOf, WasLogo, WasImages, Waste
<1>5. \A j \in Uploaders : j # k => Apart(r, upload[j]) /\ Apart(upload[j], r)
  BY DEF Apart
<1>6. RequestsInv'
  <2>1. RequestsInv /\ put' \in Nat /\ put <= put'
    BY <1>1 DEF MediaInv
  <2> QED  BY <1>1, <1>2, <1>4, <1>5, <2>1, RequestsChange
<1>7. NothingLost'
  <2>1. NothingLost
    BY DEF MediaInv
  <2> QED  BY <1>1, <2>1, LostChange
<1> QED  BY <1>3, <1>6, <1>7 DEF MediaInv

\* The images of a product are finite, and fewer are still no more than it may
\* have.
LEMMA FewerImages ==
    ASSUME MediaInv, images' \subseteq images, crowded' = crowded
    PROVE  RoomForImages'
<1>1. IsFiniteSet(images)
  <2>1. images \subseteq 1..put /\ put \in Nat
    BY DEF MediaInv, RowsInv, RowsHaveObjects, Named
  <2>2. IsFiniteSet(1..put)
    BY <2>1, FS_Interval
  <2> QED  BY <2>1, <2>2, FS_Subset
<1>2. /\ Cardinality(images') <= Cardinality(images)
      /\ Cardinality(images) \in Nat /\ Cardinality(images') \in Nat
  <2>1. IsFiniteSet(images') /\ Cardinality(images') <= Cardinality(images)
    BY <1>1, FS_Subset
  <2> QED  BY <1>1, <2>1, FS_CardinalityType
<1>3. CASE crowded
  BY <1>3 DEF RoomForImages
<1>4. CASE ~crowded
  <2>1. Cardinality(images) <= MaxImages
    BY <1>4 DEF MediaInv, RoomForImages
  <2> QED  BY <1>2, <2>1, CatalogAssumption DEF RoomForImages
<1> QED  BY <1>3, <1>4

LEMMA OneImageMore ==
    ASSUME MediaInv, NEW o, images' = images \cup {o},
           crowded' = (crowded \/ Cardinality(images) >= MaxImages)
    PROVE  RoomForImages'
<1>1. IsFiniteSet(images)
  <2>1. images \subseteq 1..put /\ put \in Nat
    BY DEF MediaInv, RowsInv, RowsHaveObjects, Named
  <2>2. IsFiniteSet(1..put)
    BY <2>1, FS_Interval
  <2> QED  BY <2>1, <2>2, FS_Subset
<1>2. Cardinality(images) \in Nat /\ Cardinality(images') <= Cardinality(images) + 1
      /\ Cardinality(images') \in Nat
  <2>1. IsFiniteSet(images')
    BY <1>1, FS_AddElement
  <2>2. Cardinality(images') = IF o \in images THEN Cardinality(images)
                                               ELSE Cardinality(images) + 1
    BY <1>1, FS_AddElement
  <2> QED  BY <1>1, <2>1, <2>2, FS_CardinalityType
<1>3. CASE Cardinality(images) >= MaxImages
  BY <1>3 DEF RoomForImages
<1>4. CASE ~(Cardinality(images) >= MaxImages)
  BY <1>2, <1>4, CatalogAssumption DEF RoomForImages
<1> QED  BY <1>3, <1>4

LEMMA WriteStep ==
    ASSUME MediaInv, NEW k \in Uploaders, WriteImage(k) \/ WriteVideo(k) \/ WriteLogo(k)
    PROVE  MediaInv'
<1> PICK o, old : o = upload[k].object /\ old = upload[k].old
  OBVIOUS
<1>1. upload[k].op = "write"
  BY DEF WriteImage, WriteVideo, WriteLogo, Writing
<1>2. WritesOf(upload[k]) = {o} /\ Waste(upload[k]) = {} /\ WasLogo(upload[k]) = {old} \ {0}
      /\ PastOf(upload[k]) = {old} \ {0}
  BY <1>1 DEF WritesOf, Waste, WasLogo, WasImages, PastOf
<1>3. /\ RequestFits(upload[k]) /\ Named \subseteq objects /\ objects \subseteq 1..put
      /\ put \in Nat /\ logo \in Nat
      /\ \A j \in Uploaders : j # k =>
            /\ WritesOf(upload[j]) \subseteq objects
            /\ Apart(upload[j], upload[k])
  BY RequestFacts DEF RequestFits
<1>4. /\ o \in objects /\ o \notin Named /\ o # old /\ o # 0
      /\ {old} \ {0} \subseteq 1..put /\ old \notin images \cup video
  BY <1>2, <1>3 DEF RequestFits, Named
<1>5. images \cap video = {} /\ logo \notin images \cup video
  BY DEF MediaInv, RowsInv
<1>6. CASE WriteImage(k)
  <2>1. /\ images' = images \cup {o} /\ Removing(k, {})
        /\ UNCHANGED <<objects, put, video, logo, adrift>>
        /\ crowded' = (crowded \/ Cardinality(images) >= MaxImages)
    BY <1>6 DEF WriteImage
  <2>2. PICK r : /\ upload' = [upload EXCEPT ![k] = r]
                 /\ WritesOf(r) = {} /\ WasLogo(r) = {} /\ WasImages(r) = {}
                 /\ Waste(r) = {} /\ PastOf(r) = {}
    BY <2>1, RemovingRequest
  <2>3. RoomForImages'
    BY <2>1, OneImageMore
  <2>4. /\ Named' \subseteq objects' /\ o \in Named' /\ Named \subseteq Named'
        /\ images' \cap video' = {} /\ logo' \notin images' \cup video'
    BY <1>3, <1>4, <1>5, <2>1 DEF Named
  <2>5. /\ put' = put /\ Waste(r) = {} /\ objects' = objects
        /\ images' \subseteq images \cup WritesOf(upload[k]) /\ video' = video /\ logo' = logo
    BY <1>2, <2>1, <2>2
  <2>6. \A x \in objects' :
           x \in Named \/ x \in adrift \/ x \in WritesOf(upload[k]) \cup Waste(upload[k])
             => x \in Named' \/ x \in adrift'
    BY <1>2, <2>1, <2>4
  <2>7. \A j \in Uploaders : j # k => WritesOf(upload[j]) \subseteq objects'
    BY <1>3, <2>1
  <2> QED  BY <2>2, <2>3, <2>4, <2>5, <2>6, <2>7, RequestEnds
<1>7. CASE WriteVideo(k)
  <2>1. /\ video = {} /\ video' = {o} /\ Removing(k, {})
        /\ UNCHANGED <<objects, put, images, logo, adrift, crowded>>
    BY <1>7 DEF WriteVideo
  <2>2. PICK r : /\ upload' = [upload EXCEPT ![k] = r]
                 /\ WritesOf(r) = {} /\ WasLogo(r) = {} /\ WasImages(r) = {}
                 /\ Waste(r) = {} /\ PastOf(r) = {}
    BY <2>1, RemovingRequest
  <2>3. RoomForImages'
    BY <2>1, FewerImages
  <2>4. /\ Named' \subseteq objects' /\ o \in Named' /\ Named \subseteq Named'
        /\ images' \cap video' = {} /\ logo' \notin images' \cup video'
    BY <1>3, <1>4, <1>5, <2>1 DEF Named
  <2>5. /\ put' = put /\ Waste(r) = {} /\ objects' = objects
        /\ video' \subseteq video \cup WritesOf(upload[k]) /\ images' = images /\ logo' = logo
    BY <1>2, <2>1, <2>2
  <2>6. \A x \in objects' :
           x \in Named \/ x \in adrift \/ x \in WritesOf(upload[k]) \cup Waste(upload[k])
             => x \in Named' \/ x \in adrift'
    BY <1>2, <2>1, <2>4
  <2>7. \A j \in Uploaders : j # k => WritesOf(upload[j]) \subseteq objects'
    BY <1>3, <2>1
  <2> QED  BY <2>2, <2>3, <2>4, <2>5, <2>6, <2>7, RequestEnds
<1>8. CASE WriteLogo(k)
  <2>1. /\ logo' = o /\ Removing(k, {old} \ {0}) /\ adrift' = adrift \cup ({logo} \ {0, old})
        /\ UNCHANGED <<objects, put, images, video, crowded>>
    BY <1>8 DEF WriteLogo
  <2>2. PICK r : /\ upload' = [upload EXCEPT ![k] = r]
                 /\ WritesOf(r) = {} /\ WasLogo(r) = {} /\ WasImages(r) = {}
                 /\ Waste(r) = {old} \ {0} /\ PastOf(r) = {old} \ {0}
    BY <2>1, RemovingRequest
  <2>3. RoomForImages'
    BY <2>1, FewerImages
  <2>4. /\ Named' \subseteq objects' /\ o \in Named'
        /\ images' \cap video' = {} /\ logo' \notin images' \cup video'
        /\ Waste(r) \cap Named' = {}
    BY <1>3, <1>4, <1>5, <2>1, <2>2 DEF Named
  <2>5. \A x \in Named : x \in Named' \/ x \in adrift' \/ x \in Waste(r)
    BY <2>1, <2>2 DEF Named
  <2>6. \A j \in Uploaders : j # k =>
           WritesOf(upload[j]) \cap Waste(r) = {} /\ WritesOf(upload[j]) \subseteq objects'
    BY <1>2, <1>3, <2>1, <2>2 DEF Apart
  <2>7. /\ put' = put /\ objects' = objects /\ Waste(r) \subseteq 1..put
        /\ logo' \in {0, logo} \cup WritesOf(upload[k]) /\ images' = images /\ video' = video
    BY <1>2, <1>4, <2>1, <2>2
  <2>8. \A x \in objects' :
           x \in Named \/ x \in adrift \/ x \in WritesOf(upload[k]) \cup Waste(upload[k])
             => x \in Named' \/ x \in adrift' \/ x \in Waste(r)
    BY <1>2, <2>1, <2>4, <2>5
  <2> QED  BY <2>2, <2>3, <2>4, <2>6, <2>7, <2>8, RequestEnds
<1> QED  BY <1>6, <1>7, <1>8

LEMMA FailRowStep ==
    ASSUME MediaInv, NEW k \in Uploaders, FailRow(k)
    PROVE  MediaInv'
<1> PICK o : o = upload[k].object
  OBVIOUS
<1>1. WritesOf(upload[k]) = {o} /\ Waste(upload[k]) = {}
  BY DEF FailRow, WritesOf, Waste
<1>2. /\ RequestFits(upload[k]) /\ Named \subseteq objects /\ objects \subseteq 1..put
      /\ \A j \in Uploaders : j # k =>
            /\ WritesOf(upload[j]) \subseteq objects
            /\ Apart(upload[j], upload[k])
  BY RequestFacts DEF RequestFits
<1>3. images \cap video = {} /\ logo \notin images \cup video
  BY DEF MediaInv, RowsInv
<1>4. Removing(k, {o}) /\ UNCHANGED <<objects, put, images, video, logo, adrift, crowded>>
  BY DEF FailRow, Compensation
<1>5. PICK r : /\ upload' = [upload EXCEPT ![k] = r]
               /\ WritesOf(r) = {} /\ WasLogo(r) = {} /\ WasImages(r) = {}
               /\ Waste(r) = {o} /\ PastOf(r) = {o}
  BY <1>4, RemovingRequest
<1>6. RoomForImages'
  BY <1>4, FewerImages
<1>7. Named' = Named /\ o \notin Named /\ o \in objects
  BY <1>1, <1>2, <1>4 DEF Named, RequestFits
<1>8. \A j \in Uploaders : j # k =>
         WritesOf(upload[j]) \cap Waste(r) = {} /\ WritesOf(upload[j]) \subseteq objects'
  BY <1>1, <1>2, <1>4, <1>5 DEF Apart
<1>9. /\ put' = put /\ objects' = objects /\ Waste(r) \subseteq 1..put /\ Waste(r) \cap Named' = {}
      /\ images' = images /\ video' = video /\ logo' = logo /\ Named' \subseteq objects'
      /\ images' \cap video' = {} /\ logo' \notin images' \cup video'
  BY <1>2, <1>3, <1>4, <1>5, <1>7
<1>10. \A x \in objects' :
         x \in Named \/ x \in adrift \/ x \in WritesOf(upload[k]) \cup Waste(upload[k])
           => x \in Named' \/ x \in adrift' \/ x \in Waste(r)
  BY <1>1, <1>4, <1>5, <1>7
<1> QED  BY <1>5, <1>6, <1>8, <1>9, <1>10, RequestEnds

\* The object of a row goes with the row.
LEMMA CommitDropStep ==
    ASSUME MediaInv, NEW k \in Uploaders, CommitDrop(k)
    PROVE  MediaInv'
<1> PICK o : o = upload[k].object
  OBVIOUS
<1>1. WritesOf(upload[k]) = {} /\ Waste(upload[k]) = {}
  BY DEF CommitDrop, WritesOf, Waste
<1>2. /\ Named \subseteq objects /\ objects \subseteq 1..put
      /\ \A j \in Uploaders : j # k => RequestFits(upload[j])
  BY RequestFacts
<1>3. images \cap video = {} /\ logo \notin images \cup video
  BY DEF MediaInv, RowsInv
<1>4. /\ o \in images \cup video /\ images' = images \ {o} /\ video' = video \ {o}
      /\ Removing(k, {o}) /\ UNCHANGED <<objects, put, logo, adrift, crowded>>
  BY DEF CommitDrop
<1>5. PICK r : /\ upload' = [upload EXCEPT ![k] = r]
               /\ WritesOf(r) = {} /\ WasLogo(r) = {} /\ WasImages(r) = {}
               /\ Waste(r) = {o} /\ PastOf(r) = {o}
  BY <1>4, RemovingRequest
<1>6. RoomForImages'
  BY <1>4, FewerImages
<1>7. Named' = Named \ {o} /\ o \in Named
  BY <1>3, <1>4 DEF Named
<1>8. \A j \in Uploaders : j # k =>
         WritesOf(upload[j]) \cap Waste(r) = {} /\ WritesOf(upload[j]) \subseteq objects'
  BY <1>2, <1>4, <1>5, <1>7 DEF RequestFits
<1>9. images' \cap video' = {} /\ logo' \notin images' \cup video'
  BY <1>3, <1>4
<1>10. /\ put' = put /\ objects' = objects /\ Waste(r) \subseteq 1..put /\ Waste(r) \cap Named' = {}
       /\ images' \subseteq images /\ video' \subseteq video /\ logo' = logo
       /\ Named' \subseteq objects'
  BY <1>2, <1>4, <1>5, <1>7
<1>11. \A x \in objects' :
         x \in Named \/ x \in adrift \/ x \in WritesOf(upload[k]) \cup Waste(upload[k])
           => x \in Named' \/ x \in adrift' \/ x \in Waste(r)
  BY <1>1, <1>4, <1>5, <1>7
<1> QED  BY <1>5, <1>6, <1>8, <1>9, <1>10, <1>11, RequestEnds

LEMMA CommitUnlogoStep ==
    ASSUME MediaInv, NEW k \in Uploaders, CommitUnlogo(k)
    PROVE  MediaInv'
<1> PICK old : old = upload[k].old
  OBVIOUS
<1>1. /\ WritesOf(upload[k]) = {} /\ Waste(upload[k]) = {}
      /\ WasLogo(upload[k]) = {old} \ {0} /\ PastOf(upload[k]) = {old} \ {0}
  BY DEF CommitUnlogo, WritesOf, Waste, WasLogo, WasImages, PastOf
<1>2. /\ Named \subseteq objects /\ objects \subseteq 1..put /\ RequestFits(upload[k])
      /\ \A j \in Uploaders : j # k => RequestFits(upload[j]) /\ Apart(upload[j], upload[k])
  BY RequestFacts
<1>3. images \cap video = {} /\ logo \notin images \cup video
  BY DEF MediaInv, RowsInv
<1>4. /\ logo' = 0 /\ adrift' = adrift \cup ({logo} \ {0, old}) /\ Removing(k, {old} \ {0})
      /\ UNCHANGED <<objects, put, images, video, crowded>>
  BY DEF CommitUnlogo
<1>5. PICK r : /\ upload' = [upload EXCEPT ![k] = r]
               /\ WritesOf(r) = {} /\ WasLogo(r) = {} /\ WasImages(r) = {}
               /\ Waste(r) = {old} \ {0} /\ PastOf(r) = {old} \ {0}
  BY <1>4, RemovingRequest
<1>6. RoomForImages'
  BY <1>4, FewerImages
<1>7. Named' \subseteq Named /\ Waste(r) \cap Named' = {} /\ Waste(r) \subseteq 1..put
  BY <1>1, <1>2, <1>4, <1>5 DEF Named, RequestFits
<1>8. \A j \in Uploaders : j # k =>
         WritesOf(upload[j]) \cap Waste(r) = {} /\ WritesOf(upload[j]) \subseteq objects'
  BY <1>1, <1>2, <1>4, <1>5 DEF RequestFits, Apart
<1>9. images' \cap video' = {} /\ logo' \notin images' \cup video'
  BY <1>2, <1>3, <1>4 DEF Named
<1>10. \A x \in Named : x \in Named' \/ x \in adrift' \/ x \in Waste(r)
  BY <1>4, <1>5 DEF Named
<1> QED  BY <1>1, <1>2, <1>4, <1>5, <1>6, <1>7, <1>8, <1>9, <1>10, RequestEnds

LEMMA CommitRetainStep ==
    ASSUME MediaInv, NEW k \in Uploaders, CommitRetain(k)
    PROVE  MediaInv'
<1> PICK gone : gone = upload[k].read \ upload[k].keep
  OBVIOUS
<1>1. /\ WritesOf(upload[k]) = {} /\ Waste(upload[k]) = {}
      /\ gone \subseteq WasImages(upload[k]) /\ gone \subseteq PastOf(upload[k])
  BY DEF CommitRetain, WritesOf, Waste, WasImages, PastOf
<1>2. /\ Named \subseteq objects /\ objects \subseteq 1..put /\ RequestFits(upload[k])
      /\ \A j \in Uploaders : j # k => RequestFits(upload[j]) /\ Apart(upload[j], upload[k])
  BY RequestFacts
<1>3. images \cap video = {} /\ logo \notin images \cup video
  BY DEF MediaInv, RowsInv
<1>4. /\ images' = images \ gone /\ Removing(k, gone)
      /\ UNCHANGED <<objects, put, video, logo, adrift, crowded>>
  BY DEF CommitRetain, Unretained
<1>5. PICK r : /\ upload' = [upload EXCEPT ![k] = r]
               /\ WritesOf(r) = {} /\ WasLogo(r) = {} /\ WasImages(r) = {}
               /\ Waste(r) = gone /\ PastOf(r) = gone
  BY <1>4, RemovingRequest
<1>6. RoomForImages'
  BY <1>4, FewerImages
<1>7. Named' \subseteq Named /\ Waste(r) \cap Named' = {} /\ Waste(r) \subseteq 1..put
  BY <1>1, <1>2, <1>4, <1>5 DEF Named, RequestFits
<1>8. \A j \in Uploaders : j # k =>
         WritesOf(upload[j]) \cap Waste(r) = {} /\ WritesOf(upload[j]) \subseteq objects'
  BY <1>1, <1>2, <1>4, <1>5 DEF RequestFits, Apart
<1>9. images' \cap video' = {} /\ logo' \notin images' \cup video'
  BY <1>3, <1>4
<1>10. \A x \in Named : x \in Named' \/ x \in Waste(r)
  BY <1>4, <1>5 DEF Named
<1> QED  BY <1>1, <1>2, <1>4, <1>5, <1>6, <1>7, <1>8, <1>9, <1>10, RequestEnds

\* An object is removed, or left behind.
LEMMA RemoveObjectStep ==
    ASSUME MediaInv, NEW k \in Uploaders, NEW o, NEW ok \in BOOLEAN, RemoveObject(k, o, ok)
    PROVE  MediaInv'
<1> PICK waste : waste = upload[k].waste
  OBVIOUS
<1>1. WritesOf(upload[k]) = {} /\ Waste(upload[k]) = waste /\ waste \subseteq PastOf(upload[k])
  BY DEF RemoveObject, WritesOf, Waste, PastOf
<1>2. /\ Named \subseteq objects /\ objects \subseteq 1..put /\ RequestFits(upload[k])
      /\ \A j \in Uploaders : j # k => RequestFits(upload[j]) /\ Apart(upload[j], upload[k])
  BY RequestFacts
<1>3. images \cap video = {} /\ logo \notin images \cup video
  BY DEF MediaInv, RowsInv
<1>4. /\ o \in waste /\ Removing(k, waste \ {o})
      /\ UNCHANGED <<put, images, video, logo, crowded>>
  BY DEF RemoveObject
<1>5. \/ objects' = objects \ {o} /\ adrift' = adrift
      \/ objects' = objects /\ adrift' = adrift \cup {o}
  BY DEF RemoveObject
<1>6. PICK r : /\ upload' = [upload EXCEPT ![k] = r]
               /\ WritesOf(r) = {} /\ WasLogo(r) = {} /\ WasImages(r) = {}
               /\ Waste(r) = waste \ {o} /\ PastOf(r) = waste \ {o}
  BY <1>4, RemovingRequest
<1>7. RoomForImages'
  BY <1>4, FewerImages
<1>8. /\ Named' = Named /\ Waste(r) \cap Named' = {} /\ Waste(r) \subseteq 1..put
      /\ waste \cap Named = {}
  BY <1>1, <1>2, <1>4, <1>6 DEF Named, RequestFits
<1>9. \A j \in Uploaders : j # k =>
         WritesOf(upload[j]) \cap Waste(r) = {} /\ WritesOf(upload[j]) \subseteq objects'
  BY <1>1, <1>2, <1>4, <1>5, <1>6 DEF RequestFits, Apart
<1>10. objects' \subseteq objects /\ Named' \subseteq objects'
  BY <1>2, <1>4, <1>5, <1>8
<1>11. \A x \in objects' :
         x \in Named \/ x \in adrift \/ x \in waste
           => x \in Named' \/ x \in adrift' \/ x \in Waste(r)
  BY <1>4, <1>5, <1>6, <1>8
<1> QED  BY <1>1, <1>3, <1>4, <1>6, <1>7, <1>8, <1>9, <1>10, <1>11, RequestEnds

\* A request fails or the process stops: what it held is left behind.
LEMMA InterruptStep ==
    ASSUME MediaInv, NEW k \in Uploaders, Interrupt(k)
    PROVE  MediaInv'
<1>1. Held(k) = WritesOf(upload[k]) \cup Waste(upload[k])
  BY DEF Held, WritesOf, Waste
<1>2. /\ Named \subseteq objects /\ objects \subseteq 1..put
      /\ \A j \in Uploaders : j # k => RequestFits(upload[j])
  BY RequestFacts
<1>3. images \cap video = {} /\ logo \notin images \cup video
  BY DEF MediaInv, RowsInv
<1>4. /\ upload' = [upload EXCEPT ![k] = Vacant] /\ adrift' = adrift \cup Held(k)
      /\ UNCHANGED <<objects, put, images, video, logo, crowded>>
  BY DEF Interrupt
<1>5. /\ WritesOf(Vacant) = {} /\ PastOf(Vacant) = {} /\ WasLogo(Vacant) = {}
      /\ WasImages(Vacant) = {} /\ Waste(Vacant) = {}
  BY DEF WritesOf, PastOf, WasLogo, WasImages, Waste, Vacant
<1>6. RoomForImages'
  BY <1>4, FewerImages
<1>7. Named' = Named
  BY <1>4 DEF Named
<1>8. \A j \in Uploaders : j # k => WritesOf(upload[j]) \subseteq objects'
  BY <1>2, <1>4 DEF RequestFits
<1> QED  BY <1>1, <1>2, <1>3, <1>4, <1>5, <1>6, <1>7, <1>8, RequestEnds

\* An object that is put is new to every row and every request.
LEMMA PutObjectStep ==
    ASSUME MediaInv, NEW k \in Uploaders, PutObject(k)
    PROVE  MediaInv'
<1> PICK o, old, r : /\ o = put + 1 /\ old = upload[k].old
                     /\ r = [op |-> "write", kind |-> upload[k].kind, old |-> old, object |-> o]
  OBVIOUS
<1>1. /\ WritesOf(upload[k]) = {} /\ Waste(upload[k]) = {}
      /\ WasLogo(upload[k]) = {old} \ {0} /\ PastOf(upload[k]) = {old} \ {0}
  BY DEF PutObject, WritesOf, Waste, WasLogo, WasImages, PastOf
<1>2. /\ put \in Nat /\ logo \in Nat /\ DOMAIN upload = Uploaders
      /\ Named \subseteq objects /\ objects \subseteq 1..put /\ RequestFits(upload[k])
      /\ \A j \in Uploaders : j # k => RequestFits(upload[j])
  BY RequestFacts
<1>3. images \cap video = {} /\ logo \notin images \cup video
  BY DEF MediaInv, RowsInv
<1>4. /\ put' = o /\ objects' = objects \cup {o} /\ upload' = [upload EXCEPT ![k] = r]
      /\ UNCHANGED <<images, video, logo, adrift, crowded>>
  BY DEF PutObject
<1>5. /\ WritesOf(r) = {o} /\ Waste(r) = {} /\ WasImages(r) = {}
      /\ WasLogo(r) = {old} \ {0} /\ PastOf(r) = {old} \ {0}
  BY DEF WritesOf, Waste, WasLogo, WasImages, PastOf
<1>6. /\ o \notin 1..put /\ o \in Nat /\ 1..put \subseteq 1..put' /\ o \in 1..put' /\ put <= put'
  BY <1>2, <1>4
<1>7. /\ {old} \ {0} \subseteq 1..put /\ old \notin (images \cup video) \ {0}
      /\ ({old} \ {0}) \cap (images \cup video) = {}
  BY <1>1, <1>2 DEF RequestFits
<1>8. Named' = Named
  BY <1>4 DEF Named
<1>9. RequestFits(r)'
  <2>1. WritesOf(r) \subseteq objects' /\ PastOf(r) \subseteq 1..put'
    BY <1>4, <1>5, <1>6, <1>7
  <2>2. WritesOf(r) \cap (Named' \cup PastOf(r)) = {}
    BY <1>2, <1>5, <1>6, <1>7, <1>8
  <2>3. WasLogo(r) \cap (images' \cup video') = {} /\ WasImages(r) = {} /\ Waste(r) = {}
    BY <1>4, <1>5, <1>7
  <2> QED  BY <2>1, <2>2, <2>3 DEF RequestFits, WritesOf, PastOf, WasLogo, WasImages, Waste
<1>10. ASSUME NEW j \in Uploaders, j # k
       PROVE  Apart(r, upload[j]) /\ Apart(upload[j], r) /\ WritesOf(upload[j]) \subseteq objects'
  <2>1. /\ WritesOf(upload[j]) \subseteq objects /\ PastOf(upload[j]) \subseteq 1..put
        /\ Apart(upload[j], upload[k])
    BY <1>2, <1>10, RequestFacts DEF RequestFits
  <2>2. o \notin WritesOf(upload[j]) \cup PastOf(upload[j])
    BY <1>2, <1>6, <2>1
  <2> QED  BY <1>1, <1>4, <1>5, <2>1, <2>2 DEF Apart
<1>11. RequestsInv'
  <2>1. RequestsInv /\ put' \in Nat /\ logo' \in Nat
    BY <1>2, <1>4, <1>6 DEF MediaInv
  <2>2. images' \subseteq images /\ video' \subseteq video /\ logo' = logo
    BY <1>4
  <2>3. upload' = [upload EXCEPT ![k] = r] /\ put \in Nat /\ put <= put' /\ logo \in Nat
    BY <1>2, <1>4, <1>6
  <2> QED  BY <1>9, <1>10, <2>1, <2>2, <2>3, RequestsChange
<1>12. NothingLost'
  <2>1. NothingLost
    BY DEF MediaInv
  <2>2. \A x \in objects' \ objects : x \in WritesOf(r)
    BY <1>4, <1>5
  <2>3. \A x \in objects' :
           x \in Named \/ x \in adrift \/ x \in WritesOf(upload[k]) \cup Waste(upload[k])
             => x \in Named' \/ x \in adrift' \/ x \in WritesOf(r) \cup Waste(r)
    BY <1>1, <1>4, <1>8
  <2> QED  BY <1>2, <1>4, <2>1, <2>2, <2>3, LostChange
<1>13. RowsInv'
  <2>1. put' \in Nat /\ logo' \in Nat /\ objects' \subseteq 1..put'
    BY <1>2, <1>4, <1>6
  <2>2. Named' \subseteq objects' /\ images' \cap video' = {} /\ logo' \notin images' \cup video'
    BY <1>2, <1>3, <1>4, <1>8
  <2> QED  BY <2>1, <2>2 DEF RowsInv, RowsHaveObjects
<1>14. RoomForImages'
  BY <1>4, FewerImages
<1> QED  BY <1>11, <1>12, <1>13, <1>14 DEF MediaInv

\* What leaves the media alone leaves what is known of them.
LEMMA MediaUnchanged ==
    ASSUME MediaInv, UNCHANGED media
    PROVE  MediaInv'
<1>1. /\ objects' = objects /\ put' = put /\ images' = images /\ video' = video /\ logo' = logo
      /\ upload' = upload /\ adrift' = adrift /\ crowded' = crowded
  BY DEF media
<1>2. Named' = Named
  BY <1>1 DEF Named
<1>3. RowsInv' /\ NothingLost' /\ RoomForImages'
  BY <1>1, <1>2 DEF MediaInv, RowsInv, RowsHaveObjects, NothingLost, RoomForImages
<1>4. RequestsInv'
  BY <1>1, <1>2 DEF MediaInv, RequestsInv, RequestFits
<1> QED  BY <1>3, <1>4 DEF MediaInv

LEMMA MediaInvStep == MediaInv /\ [CatalogNext]_catalogVars => MediaInv'
<1> SUFFICES ASSUME MediaInv, [CatalogNext]_catalogVars PROVE MediaInv'
  OBVIOUS
<1>1. CASE MediaNext
  <2>1. ASSUME NEW k \in Uploaders,
               \/ \E kind \in {"image", "video", "logo"} : BeginUpload(k, kind)
               \/ \E kind \in {"image", "video"}, o \in Objects : BeginDrop(k, kind, o)
               \/ \E keep \in SUBSET images : BeginRetain(k, keep)
               \/ BeginUnlogo(k)
        PROVE  MediaInv'
    BY <2>1, BeginMediaStep
  <2>2. ASSUME NEW k \in Uploaders, NEW o \in Objects, NEW ok \in BOOLEAN, RemoveObject(k, o, ok)
        PROVE  MediaInv'
    BY <2>2, RemoveObjectStep
  <2>3. ASSUME NEW k \in Uploaders,
               \/ PutObject(k) \/ WriteImage(k) \/ WriteVideo(k) \/ WriteLogo(k) \/ FailRow(k)
               \/ CommitDrop(k) \/ CommitRetain(k) \/ CommitUnlogo(k) \/ Interrupt(k)
        PROVE  MediaInv'
    BY <2>3, PutObjectStep, WriteStep, FailRowStep, CommitDropStep, CommitRetainStep,
       CommitUnlogoStep, InterruptStep
  <2> QED  BY <1>1, <2>1, <2>2, <2>3 DEF MediaNext
<1>2. CASE BarcodeNext
  <2>1. UNCHANGED media
    BY <1>2 DEF BarcodeNext, BeginGenerate, Draw, DrawTaken, TypeBarcode
  <2> QED  BY <2>1, MediaUnchanged
<1>3. CASE UNCHANGED catalogVars
  <2>1. UNCHANGED media
    BY <1>3 DEF catalogVars, media
  <2> QED  BY <2>1, MediaUnchanged
<1> QED  BY <1>1, <1>2, <1>3 DEF CatalogNext

-----------------------------------------------------------------------------
(* The barcode of a product: as long as it has none nobody was told one.   *)

BarcodeInv == told \subseteq {barcode} /\ (barcode = "none" => told = {})

LEMMA BarcodeInvStep == BarcodeInv /\ [CatalogNext]_catalogVars => BarcodeInv'
<1> SUFFICES ASSUME BarcodeInv, [CatalogNext]_catalogVars PROVE BarcodeInv'
  OBVIOUS
<1>1. ASSUME NEW k \in Uploaders, BeginGenerate(k)
      PROVE  BarcodeInv'
  BY <1>1 DEF BeginGenerate, BarcodeInv
<1>2. ASSUME NEW k \in Uploaders, DrawTaken(k)
      PROVE  BarcodeInv'
  BY <1>2 DEF DrawTaken, BarcodeInv
<1>3. ASSUME NEW k \in Uploaders, NEW b \in Barcodes, Draw(k, b)
      PROVE  BarcodeInv'
  <2>1. barcode' = (IF barcode = "none" THEN b ELSE barcode) /\ told' = told \cup {barcode'}
    BY <1>3 DEF Draw, Unless
  <2> QED  BY <2>1, CatalogAssumption DEF BarcodeInv
<1>4. ASSUME NEW b \in Barcodes, TypeBarcode(b)
      PROVE  BarcodeInv'
  BY <1>4 DEF TypeBarcode, BarcodeInv
<1>5. CASE MediaNext \/ UNCHANGED catalogVars
  <2>1. UNCHANGED codes
    BY <1>5 DEF MediaNext, BeginUpload, BeginDrop, BeginRetain, RemoveObject, PutObject, WriteImage,
                WriteVideo, WriteLogo, FailRow, CommitDrop, CommitRetain, BeginUnlogo, CommitUnlogo,
                Interrupt, catalogVars, codes
  <2> QED  BY <2>1 DEF codes, BarcodeInv
<1> QED  BY <1>1, <1>2, <1>3, <1>4, <1>5 DEF CatalogNext, BarcodeNext

\* Every media row has its object, every object has a row, a request or a
\* failure that answers for it, a product has no more images than it may unless
\* two were added at once, and one barcode is told until another is typed.
THEOREM CatalogDoesAgree == CatalogSpec => []CatalogAgrees
<1>1. CatalogInit => BarcodeInv
  BY DEF CatalogInit, BarcodeInv
<1>2. MediaInv /\ BarcodeInv => CatalogAgrees
  <2> SUFFICES ASSUME MediaInv, BarcodeInv PROVE CatalogAgrees
    OBVIOUS
  <2>1. \A k \in Uploaders : Held(k) = WritesOf(upload[k]) \cup Waste(upload[k])
    BY DEF Held, WritesOf, Waste
  <2>2. objects \subseteq Named \cup adrift \cup UNION {Held(k) : k \in Uploaders}
    BY <2>1 DEF MediaInv, NothingLost
  <2> QED  BY <2>2 DEF CatalogAgrees, RowsHaveObjects, NoOrphans, OneBarcodeTold, MediaInv, RowsInv,
                      RoomForImages, BarcodeInv
<1> QED  BY <1>1, <1>2, MediaInitInv, MediaInvStep, BarcodeInvStep, PTL DEF CatalogSpec

-----------------------------------------------------------------------------
(* Proofs about the tables of which one row is chosen.  A row is chosen    *)
(* beside those alone that its statement does not unset, and is told if    *)
(* one of them is of its branch (SettledAlone); a theme is only given up when there is no other or when  *)
(* it is not the chosen one, so a row that is needed when it is written    *)
(* was not needed when that was checked.                                   *)

ChoicesTyped ==
    /\ row \in [Rows -> {"none", "plain", "chosen"}]
    /\ site = [r \in Rows |-> site[r]]
    /\ DOMAIN choice = Callers
    /\ \A k \in Callers : choice[k] # Unused => choice[k].row \in Rows

\* One row of a branch at most is chosen.
ChosenAlone == \A r, s \in Chosen \ beside : site[r] = site[s] => r = s

\* A theme that is needed is not given up.
GivenUpNeedlessly ==
    table = "theme" =>
        \A k \in Callers : choice[k].op \in {"unset", "delete"} => ~choice[k].needed

\* While no two organizations list their templates at once there is one list
\* at most in progress, and what it found is still so.
ListsAlone ==
    /\ DOMAIN ensuring = Callers /\ templates \in Nat
    /\ twice \/ /\ templates <= 1
                /\ \A j, k \in Callers :
                      ensuring[j] # NotCalled /\ ensuring[k] # NotCalled => j = k
                /\ \A k \in Callers :
                      ensuring[k] # NotCalled /\ ~ensuring[k].found => templates = 0

DefaultsInv == ChoicesTyped /\ ChosenAlone /\ GivenUpNeedlessly /\ ListsAlone

LEMMA DefaultsInitInv == DefaultsInit => DefaultsInv
<1> SUFFICES ASSUME DefaultsInit PROVE DefaultsInv
  OBVIOUS
<1>1. ChoicesTyped
  BY DEF DefaultsInit, ChoicesTyped, Unused
<1>2. ChosenAlone
  BY DEF DefaultsInit, ChosenAlone, Chosen
<1>3. GivenUpNeedlessly
  BY DEF DefaultsInit, GivenUpNeedlessly, Unused
<1>4. ListsAlone
  BY DEF DefaultsInit, ListsAlone, NotCalled
<1> QED  BY <1>1, <1>2, <1>3, <1>4 DEF DefaultsInv

\* A request comes in.
LEMMA CallStep ==
    ASSUME DefaultsInv, NEW k \in Callers, NEW c, Call(k, c), c.row \in Rows,
           table = "theme" /\ c.op \in {"unset", "delete"} => ~c.needed
    PROVE  DefaultsInv'
<1>1. /\ choice' = [choice EXCEPT ![k] = c]
      /\ UNCHANGED <<table, row, site, beside, hasty, ensuring, templates, twice>>
  BY DEF Call, templateVars
<1>2. ChoicesTyped'
  BY <1>1 DEF DefaultsInv, ChoicesTyped
<1>3. ChosenAlone'
  BY <1>1 DEF DefaultsInv, ChosenAlone, Chosen
<1>4. GivenUpNeedlessly'
  BY <1>1 DEF DefaultsInv, ChoicesTyped, GivenUpNeedlessly
<1>5. ListsAlone'
  BY <1>1 DEF DefaultsInv, ListsAlone
<1> QED  BY <1>2, <1>3, <1>4, <1>5 DEF DefaultsInv

\* A row that is chosen beside those that are not known is told, or alone.
LEMMA SettledAlone ==
    ASSUME DefaultsInv, NEW r \in Rows, NEW to, NEW known, Settle(r, to, known),
           site' = [site EXCEPT ![r] = to],
           \A s \in Chosen' : s = r \/ (s \in Chosen /\ s \notin known)
    PROVE  ChosenAlone'
<1> SUFFICES ASSUME NEW p \in Chosen' \ beside', NEW q \in Chosen' \ beside',
                    site'[p] = site'[q], p # r
             PROVE  p = q
  BY DEF ChosenAlone
<1>1. site'[r] = to /\ \A s \in Rows : s # r => site'[s] = site[s]
  BY DEF DefaultsInv, ChoicesTyped
<1>2. p \in Chosen /\ p \notin known /\ p \in Rows /\ q \in Rows
  BY DEF Chosen
<1>3. CASE q = r
  <2>1. p \in Chosen \ ({r} \cup known) /\ site[p] = to
    BY <1>1, <1>2, <1>3
  <2>2. r \in beside'
    BY <2>1 DEF Settle
  <2> QED  BY <1>3, <2>2
<1>4. CASE q # r
  <2>1. p \notin beside /\ q \notin beside /\ q \in Chosen
    BY <1>4 DEF Settle
  <2> QED  BY <1>1, <1>2, <1>4, <2>1 DEF DefaultsInv, ChosenAlone
<1> QED  BY <1>3, <1>4

\* A request is written or fails: it is forgotten, and the rows may change.
LEMMA HangStep ==
    ASSUME DefaultsInv, NEW k \in Callers, Hang(k), UNCHANGED <<table, templateVars>>,
           row' \in [Rows -> {"none", "plain", "chosen"}],
           site' = [r \in Rows |-> site'[r]], ChosenAlone'
    PROVE  DefaultsInv'
<1>1. /\ choice' = [choice EXCEPT ![k] = Unused] /\ table' = table
      /\ UNCHANGED <<ensuring, templates, twice>>
  BY DEF Hang, templateVars
<1>2. ChoicesTyped'
  BY <1>1 DEF DefaultsInv, ChoicesTyped
<1>3. GivenUpNeedlessly'
  BY <1>1 DEF DefaultsInv, ChoicesTyped, GivenUpNeedlessly, Unused
<1>4. ListsAlone'
  BY <1>1 DEF DefaultsInv, ListsAlone
<1> QED  BY <1>2, <1>3, <1>4 DEF DefaultsInv

\* A row comes, or moves to a branch, without a request.
LEMMA RowStep ==
    ASSUME DefaultsInv, NEW r \in Rows, NEW to \in Sites,
           AddPlain(r, to) \/ MoveDashboard(r, to) \/ Fork(r, to)
    PROVE  DefaultsInv' /\ Chosen \subseteq Chosen'
<1>1. PICK kind \in {"none", "plain", "chosen"} : row' = [row EXCEPT ![r] = kind]
  BY DEF AddPlain, MoveDashboard, Fork, DefaultsInv, ChoicesTyped
<1>2. /\ site' = [site EXCEPT ![r] = to]
      /\ UNCHANGED <<table, choice, ensuring, templates, twice>>
  BY DEF AddPlain, MoveDashboard, Fork, templateVars
<1>3. row \in [Rows -> {"none", "plain", "chosen"}]
  BY DEF DefaultsInv, ChoicesTyped
<1>4. ChoicesTyped'
  BY <1>1, <1>2 DEF DefaultsInv, ChoicesTyped
<1>5. ChosenAlone' /\ Chosen \subseteq Chosen'
  <2>1. CASE AddPlain(r, to)
    <3>1. Chosen' = Chosen /\ beside' = beside /\ r \notin Chosen
      BY <1>3, <2>1 DEF AddPlain, Chosen, Spare
    <3>2. \A s \in Chosen : site'[s] = site[s]
      BY <1>2, <3>1 DEF Chosen, DefaultsInv, ChoicesTyped
    <3> QED BY <3>1, <3>2 DEF DefaultsInv, ChosenAlone
  <2>2. CASE MoveDashboard(r, to) \/ Fork(r, to)
    <3>1. /\ \A s \in Chosen' : s = r \/ s \in Chosen
          /\ Chosen \subseteq Chosen'
      BY <1>3, <2>2 DEF MoveDashboard, Fork, Spare, Chosen
    <3>2. Settle(r, to, {})
      BY <2>2 DEF MoveDashboard, Fork
    <3>3. PICK known : known = {}
      OBVIOUS
    <3>4. Settle(r, to, known) /\ \A s \in Chosen' : s = r \/ (s \in Chosen /\ s \notin known)
      BY <3>1, <3>2, <3>3
    <3> QED  BY <1>2, <3>1, <3>4, SettledAlone
  <2> QED  BY <2>1, <2>2
<1>6. GivenUpNeedlessly' /\ ListsAlone'
  BY <1>2 DEF DefaultsInv, GivenUpNeedlessly, ListsAlone
<1> QED  BY <1>4, <1>5, <1>6 DEF DefaultsInv

\* A row is chosen: those that were chosen before are unset.
LEMMA CommitChooseStep ==
    ASSUME DefaultsInv, NEW k \in Callers, CommitChoose(k)
    PROVE  DefaultsInv' /\ Chosen' # {}
<1> DEFINE c == choice[k]
<1>1. c.row \in Rows
  BY DEF CommitChoose, DefaultsInv, ChoicesTyped, Unused
<1>2. /\ row' = [s \in Rows |-> CASE s = c.row -> "chosen"
                                  [] s \in Unset(c.row, c.seen) -> "plain"
                                  [] OTHER -> row[s]]
      /\ site' = [site EXCEPT ![c.row] = SiteOf(c)] /\ Settle(c.row, SiteOf(c), c.seen)
      /\ Hang(k) /\ UNCHANGED <<table, hasty, templateVars>>
  BY DEF CommitChoose
<1> HIDE DEF c
<1>3. row' \in [Rows -> {"none", "plain", "chosen"}]
  <2>1. \A s \in Rows : row'[s] \in {"none", "plain", "chosen"}
    BY <1>2 DEF DefaultsInv, ChoicesTyped
  <2>2. row' = [s \in Rows |-> row'[s]]
    BY <1>2
  <2> QED  BY <2>1, <2>2
<1>4. c.row \in Chosen'
  <2>1. c.row \notin Unset(c.row, c.seen)
    BY DEF Unset
  <2>2. \A s \in Rows : s = c.row /\ s \notin Unset(c.row, c.seen) => row'[s] = "chosen"
    BY <1>2
  <2> QED  BY <1>1, <2>1, <2>2 DEF Chosen
<1>5. ChosenAlone'
  <2>1. ASSUME NEW s \in Chosen', s # c.row
        PROVE  s \in Chosen /\ s \notin c.seen
    <3>1. s \in Rows /\ row'[s] = "chosen"
      BY <2>1 DEF Chosen
    <3>2. s \notin Unset(c.row, c.seen) /\ row[s] = "chosen"
      BY <1>2, <2>1, <3>1
    <3> QED  BY <2>1, <3>1, <3>2 DEF Unset, Chosen
  <2>2. PICK r, to, known : r = c.row /\ to = SiteOf(c) /\ known = c.seen
    OBVIOUS
  <2> QED  BY <1>1, <1>2, <2>1, <2>2, SettledAlone
<1>6. site' = [r \in Rows |-> site'[r]]
  BY <1>2 DEF DefaultsInv, ChoicesTyped
<1> QED  BY <1>2, <1>3, <1>4, <1>5, <1>6, HangStep

\* A row is unset or deleted.
LEMMA CommitGiveUpStep ==
    ASSUME DefaultsInv, NEW k \in Callers, CommitGiveUp(k)
    PROVE  DefaultsInv'
<1> DEFINE r == choice[k].row
<1>1. r \in Rows
  BY DEF CommitGiveUp, DefaultsInv, ChoicesTyped, Unused
<1>2. PICK kind \in {"none", "plain"} : row' = [row EXCEPT ![r] = kind]
  BY DEF CommitGiveUp
<1>3. /\ Hang(k) /\ UNCHANGED <<table, templateVars, beside>>
      /\ site' = IF choice[k].op = "delete" THEN [site EXCEPT ![r] = NoShop] ELSE site
  BY DEF CommitGiveUp
<1> HIDE DEF r
<1>4. row' \in [Rows -> {"none", "plain", "chosen"}]
  BY <1>2 DEF DefaultsInv, ChoicesTyped
<1>5. \A s \in Chosen' : s \in Chosen /\ s # r
  BY <1>1, <1>2 DEF DefaultsInv, ChoicesTyped, Chosen
<1>6. \A s \in Rows : s # r => site'[s] = site[s]
  BY <1>3 DEF DefaultsInv, ChoicesTyped
<1>7. ChosenAlone'
  BY <1>3, <1>5, <1>6 DEF DefaultsInv, ChosenAlone, Chosen
<1>8. site' = [s \in Rows |-> site'[s]]
  BY <1>3 DEF DefaultsInv, ChoicesTyped
<1> QED  BY <1>3, <1>4, <1>7, <1>8, HangStep

\* A first default dashboard is made.
LEMMA CommitInitialStep ==
    ASSUME DefaultsInv, NEW k \in Callers, CommitInitial(k)
    PROVE  DefaultsInv' /\ Chosen \subseteq Chosen'
<1>1. PICK r, to : r = choice[k].row /\ to = choice[k].to
  OBVIOUS
<1>2. /\ r \in Rows /\ row' = [row EXCEPT ![r] = "chosen"]
      /\ site' = [site EXCEPT ![r] = to] /\ Settle(r, to, {})
      /\ Hang(k) /\ UNCHANGED <<table, templateVars>>
  BY <1>1 DEF CommitInitial, DefaultsInv, ChoicesTyped, Unused
<1>3. row' \in [Rows -> {"none", "plain", "chosen"}] /\ site' = [s \in Rows |-> site'[s]]
  BY <1>2 DEF DefaultsInv, ChoicesTyped
<1>4. Chosen \subseteq Chosen' /\ \A s \in Chosen' : s = r \/ s \in Chosen
  BY <1>2 DEF DefaultsInv, ChoicesTyped, Chosen
<1>5. ChosenAlone'
  <2>1. PICK known : known = {}
    OBVIOUS
  <2>2. Settle(r, to, known) /\ \A s \in Chosen' : s = r \/ (s \in Chosen /\ s \notin known)
    BY <1>2, <1>4, <2>1
  <2> QED  BY <1>2, <2>2, SettledAlone
<1> QED  BY <1>2, <1>3, <1>4, <1>5, HangStep

\* The requests of a table come in.
LEMMA BeginChoiceStep ==
    ASSUME DefaultsInv, NEW k \in Callers, NEW r \in Rows,
           \/ CreateTheme(k, r) \/ SetDefault(k, r) \/ EnsureTheme(k)
           \/ CreateLoyaltyRule(k, r) \/ UpdateLoyaltyRule(k, r)
           \/ \E to \in Sites \cup {AsItWas} :
                 CreateDashboard(k, r, to) \/ UpdateDashboard(k, r, to) \/ BeginInitial(k, r, to)
           \/ \E op \in {"unset", "delete"} : BeginGiveUp(k, op, r)
    PROVE  DefaultsInv' /\ Chosen' = Chosen
<1>1. ASSUME NEW c, Call(k, c) PROVE Chosen' = Chosen
  BY <1>1 DEF Call, Chosen
<1>2. ASSUME NEW op \in {"choose", "ensure"}, NEW s \in Rows, NEW to, Choose(k, op, s, to)
      PROVE  DefaultsInv' /\ Chosen' = Chosen
  <2> DEFINE c == [op |-> op, row |-> s, new |-> row[s] = "none", seen |-> Chosen,
                  to |-> to]
  <2>1. Call(k, c) /\ c.row \in Rows /\ c.op \notin {"unset", "delete"}
    BY <1>2 DEF Choose
  <2> HIDE DEF c
  <2> QED  BY <1>1, <2>1, CallStep
<1>3. ASSUME NEW op \in {"unset", "delete"}, BeginGiveUp(k, op, r)
      PROVE  DefaultsInv' /\ Chosen' = Chosen
  <2> DEFINE c == [op |-> op, row |-> r, needed |-> Needed(r)]
  <2>1. Call(k, c) /\ c.row \in Rows /\ c.needed = Needed(r) /\ MayGiveUp(r)
    BY <1>3 DEF BeginGiveUp
  <2>2. table = "theme" => ~Needed(r)
    BY <2>1 DEF Needed, MayGiveUp, Chosen
  <2> HIDE DEF c
  <2> QED  BY <1>1, <2>1, <2>2, CallStep
<1>4. ASSUME NEW to, BeginInitial(k, r, to)
      PROVE  DefaultsInv' /\ Chosen' = Chosen
  <2> DEFINE c == [op |-> "initial", row |-> r, to |-> to]
  <2>1. Call(k, c) /\ c.row \in Rows /\ c.op = "initial"
    BY <1>4 DEF BeginInitial
  <2> HIDE DEF c
  <2> QED  BY <1>1, <2>1, CallStep
<1>5. Standard \in Rows
  BY DefaultsAssumption
<1> QED
  BY <1>2, <1>3, <1>4, <1>5
  DEF CreateTheme, SetDefault, EnsureTheme, CreateDashboard, UpdateDashboard,
      CreateLoyaltyRule, UpdateLoyaltyRule

\* A list of the templates.
LEMMA TemplateStep ==
    ASSUME DefaultsInv, TemplateNext
    PROVE  DefaultsInv'
<1> PICK k \in Callers : CommitTemplate(k) \/ \E o \in Tenants : BeginTemplate(k, o)
  BY DEF TemplateNext
<1>1. UNCHANGED <<table, row, choice, site, beside, hasty>>
  BY DEF CommitTemplate, BeginTemplate, tableVars
<1>2. ChoicesTyped' /\ ChosenAlone' /\ GivenUpNeedlessly'
  BY <1>1 DEF DefaultsInv, ChoicesTyped, ChosenAlone, Chosen, GivenUpNeedlessly
<1>3. ListsAlone'
  <2>1. ASSUME NEW o \in Tenants, BeginTemplate(k, o)
        PROVE  ListsAlone'
    <3> DEFINE c == [tenant |-> o, found |-> templates > 0]
    <3>1. /\ ensuring' = [ensuring EXCEPT ![k] = c] /\ templates' = templates
          /\ twice' = (twice \/ \E j \in Callers : ensuring[j] # NotCalled /\ ensuring[j].tenant # o)
          /\ \A j \in Callers : ensuring[j] # NotCalled => ensuring[j].tenant # o
      BY <2>1 DEF BeginTemplate, Lockable
    <3>2. DOMAIN ensuring = Callers /\ templates \in Nat
      BY DEF DefaultsInv, ListsAlone
    <3>3. c.found <=> templates > 0
      OBVIOUS
    <3> HIDE DEF c
    <3>4. CASE twice'
      BY <3>1, <3>2, <3>4 DEF ListsAlone
    <3>5. CASE ~twice'
      <4>1. templates <= 1 /\ \A j \in Callers : ensuring[j] = NotCalled
        BY <3>1, <3>5 DEF DefaultsInv, ListsAlone
      <4>2. \A j \in Callers : j # k => ensuring'[j] = NotCalled
        BY <3>1, <3>2, <4>1
      <4>3. ensuring'[k] = c
        BY <3>1, <3>2
      <4> QED  BY <3>1, <3>2, <3>3, <4>1, <4>2, <4>3 DEF ListsAlone
    <3> QED  BY <3>4, <3>5
  <2>2. CASE CommitTemplate(k)
    BY <2>2 DEF CommitTemplate, DefaultsInv, ListsAlone
  <2> QED  BY <2>1, <2>2
<1> QED  BY <1>2, <1>3 DEF DefaultsInv

LEMMA DefaultsInvStep ==
    ASSUME DefaultsInv, [DefaultsNext]_defaultsVars
    PROVE  DefaultsInv'
<1>1. CASE UNCHANGED defaultsVars
  BY <1>1 DEF defaultsVars, DefaultsInv, ChoicesTyped, ChosenAlone, Chosen,
              GivenUpNeedlessly, ListsAlone
<1>2. ASSUME NEW k \in Callers, FailChoice(k)
      PROVE  DefaultsInv'
  <2>1. Hang(k) /\ UNCHANGED <<table, row, site, beside, templateVars>>
    BY <1>2 DEF FailChoice
  <2>2. /\ ChosenAlone' /\ row' \in [Rows -> {"none", "plain", "chosen"}]
        /\ site' = [r \in Rows |-> site'[r]]
    BY <2>1 DEF DefaultsInv, ChoicesTyped, ChosenAlone, Chosen
  <2> QED  BY <2>1, <2>2, HangStep
<1>3. CASE ChoiceNext
  <2> Standard \in Rows
    BY DefaultsAssumption
  <2> QED
    BY <1>2, <1>3, BeginChoiceStep, CommitChooseStep, CommitGiveUpStep, CommitInitialStep, RowStep
    DEF ChoiceNext
<1> QED  BY <1>1, <1>3, TemplateStep DEF DefaultsNext

LEMMA DefaultsInvariant == DefaultsSpec => []DefaultsInv
BY DefaultsInitInv, DefaultsInvStep, PTL DEF DefaultsSpec

\* One row of a branch at most is chosen, but for those that were chosen while
\* another one was, forked or moved (Settle); and there is one system template
\* at most, unless the lists of two organizations overlapped.
THEOREM OneIsChosen == DefaultsSpec => []OneDefault
<1>1. DefaultsInv => OneDefault
  BY DEF DefaultsInv, ChosenAlone, ListsAlone, OneDefault
<1> QED  BY <1>1, DefaultsInvariant, PTL

\* An organization that has a default theme among several keeps one, unless
\* the theme was unset or deleted on an outdated check.
THEOREM ThemeIsKept == DefaultsSpec => ThemeKept
<1> DEFINE Keeps == table = "theme" /\ ~hasty' /\ Chosen # {} /\ Cardinality(There) > 1
                      => Chosen' # {}
<1>1. DefaultsInv /\ [DefaultsNext]_defaultsVars => [Keeps]_defaultsVars
  <2> SUFFICES ASSUME DefaultsInv, DefaultsNext,
                      table = "theme", ~hasty', Chosen # {}, Cardinality(There) > 1
               PROVE  Chosen' # {}
    OBVIOUS
  <2>1. ASSUME row' = row PROVE Chosen' # {}
    BY <2>1 DEF Chosen
  <2>2. CASE TemplateNext
    BY <2>1, <2>2 DEF TemplateNext, CommitTemplate, BeginTemplate, tableVars
  <2>3. ASSUME NEW k \in Callers, CommitGiveUp(k)
        PROVE  Chosen' # {}
    <3> DEFINE r == choice[k].row
    <3>1. PICK s : row' = [row EXCEPT ![r] = s]
      BY <2>3 DEF CommitGiveUp
    <3>2. ~Needed(r)
      <4>1. choice[k].op \in {"unset", "delete"} /\ (Needed(r) => choice[k].needed)
        BY <2>3 DEF CommitGiveUp
      <4>2. ~choice[k].needed
        BY <4>1 DEF DefaultsInv, GivenUpNeedlessly
      <4> QED  BY <4>1, <4>2
    <3>3. There # {r}
      <4>1. Cardinality({r}) = 1
        BY FS_Singleton
      <4> QED  BY <4>1
    <3>4. PICK q \in Chosen : q # r
      BY <3>2, <3>3 DEF Needed
    <3>5. q \in Rows /\ row[q] = "chosen" /\ DOMAIN row = Rows
      BY DEF Chosen, DefaultsInv, ChoicesTyped
    <3>6. q \in Chosen'
      BY <3>1, <3>4, <3>5 DEF Chosen
    <3> QED  BY <3>6
  <2>4. ASSUME NEW r \in Rows, NEW to \in Sites,
               AddPlain(r, to) \/ MoveDashboard(r, to) \/ Fork(r, to)
        PROVE  Chosen' # {}
    BY <2>4, RowStep
  <2>5. ASSUME NEW k \in Callers, FailChoice(k)
        PROVE  Chosen' # {}
    BY <2>1, <2>5 DEF FailChoice
  <2>6. CASE ChoiceNext
    <3> Standard \in Rows
      BY DefaultsAssumption
    <3> QED
      BY <2>3, <2>4, <2>5, <2>6, BeginChoiceStep, CommitChooseStep, CommitInitialStep
      DEF ChoiceNext
  <2> QED  BY <2>2, <2>6 DEF DefaultsNext
<1> QED
  BY <1>1, DefaultsInvariant, PTL DEF DefaultsSpec, ThemeKept

-----------------------------------------------------------------------------
(* Proofs about suppliers and customers.  A supplier whose portal is       *)
(* enabled has an account, active or not, unless one is being taken back;  *)
(* an update that was written on what it had read keeps that, and brings   *)
(* it back.  Each number that a customer is refused was taken by another   *)
(* one since the attempt before.                                           *)

SupplierTyped ==
    /\ supplier \in Supplier /\ account \in Status \cup {"none"}
    /\ DOMAIN change = Buyers /\ \A k \in Buyers : ChangeOK(change[k])

\* The portal agrees with the account there is.
Linked ==
    /\ account = "ACTIVE" => supplier.enabled
    /\ supplier.there /\ supplier.enabled /\ supplier.status = "ACTIVE" /\ account # "none"
          => account = "ACTIVE"

\* An enabled portal has an account, unless one has just been taken back.
Furnished ==
    \/ \E k \in Buyers : change[k] = Switching
    \/ supplier.there /\ supplier.enabled => account # "none"

PortalInv == astray \/ (Linked /\ Furnished)

\* What a creation in progress has seen: one customer more for each attempt.
SignupOK(s) ==
    s # NoSignup =>
        /\ s \in [attempt : 1..MaxAttempts, read : Nat, since : Nat]
        /\ s.read <= customers /\ s.since <= customers
        /\ customers > Widest \/ s.since + s.attempt - 1 <= s.read

SignupInv ==
    /\ customers \in Nat /\ DOMAIN signup = Buyers
    /\ \A k \in Buyers : SignupOK(signup[k])
    /\ RefusedForCause

PartnersInv == SupplierTyped /\ PortalInv /\ SignupInv

LEMMA PartnersInitInv == PartnersInit => PartnersInv
<1> SUFFICES ASSUME PartnersInit PROVE PartnersInv
  OBVIOUS
<1>1. SupplierTyped
  BY DEF PartnersInit, SupplierTyped, Supplier, NoSupplier, Status, ChangeOK
<1>2. PortalInv
  BY DEF PartnersInit, PortalInv, Linked, Furnished, NoSupplier
<1>3. SignupInv
  BY DEF PartnersInit, SignupInv, SignupOK, RefusedForCause
<1> QED  BY <1>1, <1>2, <1>3 DEF PartnersInv

\* An update as it was read.
LEMMA UpdateShape ==
    ASSUME SupplierTyped, NEW k \in Buyers, change[k].op = "update"
    PROVE  /\ change[k].status \in Status \cup {"same"}
           /\ change[k].portal \in {"on", "off", "same"}
           /\ change[k].account \in Status \cup {"none", "gone"}
<1>1. ChangeOK(change[k])
  BY DEF SupplierTyped
<1> QED  BY <1>1 DEF ChangeOK, NoChange, Switching

\* A change in progress is replaced by another one, or by none.
LEMMA ChangesTyped ==
    ASSUME SupplierTyped, NEW k \in Buyers, NEW c, change' = [change EXCEPT ![k] = c],
           ChangeOK(c), supplier' \in Supplier, account' \in Status \cup {"none"}
    PROVE  SupplierTyped'
<1>1. \A j \in Buyers : change'[j] = IF j = k THEN c ELSE change[j]
  BY DEF SupplierTyped
<1>2. \A j \in Buyers : ChangeOK(change'[j])
  BY <1>1 DEF SupplierTyped
<1> HIDE DEF Supplier, Status, ChangeOK
<1> QED  BY <1>2 DEF SupplierTyped, ChangeOK

\* Whoever switches a portal off still does when another request changes.
LEMMA StillSwitching ==
    ASSUME SupplierTyped, NEW k \in Buyers, NEW c, change' = [change EXCEPT ![k] = c],
           change[k] # Switching, NEW j \in Buyers, change[j] = Switching
    PROVE  change'[j] = Switching
  BY DEF SupplierTyped

LEMMA CreateSupplierStep ==
    ASSUME SupplierTyped, PortalInv, NEW k \in Buyers, NEW enabled \in BOOLEAN,
           CreateSupplier(k, enabled)
    PROVE  SupplierTyped' /\ PortalInv'
<1>1. /\ supplier' = [there |-> TRUE, status |-> "ACTIVE", enabled |-> enabled]
      /\ account' = IF enabled THEN "ACTIVE" ELSE "none"
      /\ change' = IF enabled THEN [change EXCEPT ![k] = ToMail(TRUE)] ELSE change
  BY DEF CreateSupplier
<1>2. supplier' \in Supplier /\ account' \in Status \cup {"none"}
  BY <1>1 DEF Supplier, Status
<1>3. PortalInv'
  BY <1>1 DEF PortalInv, Linked, Furnished
<1>4. ChangeOK(ToMail(TRUE))
  BY DEF ChangeOK, ToMail
<1>5. SupplierTyped'
  <2>1. CASE enabled
    BY <1>1, <1>2, <1>4, <2>1, ChangesTyped
  <2>2. CASE ~enabled
    BY <1>1, <1>2, <2>2 DEF SupplierTyped, ChangeOK
  <2> QED  BY <2>1, <2>2
<1> QED  BY <1>3, <1>5

LEMMA BeginSupplierUpdateStep ==
    ASSUME SupplierTyped, PortalInv, NEW k \in Buyers, NEW status \in Status \cup {"same"},
           NEW portal \in {"on", "off", "same"}, BeginSupplierUpdate(k, status, portal)
    PROVE  SupplierTyped' /\ PortalInv'
<1> DEFINE c == [op |-> "update", status |-> status, portal |-> portal,
                 enabled |-> supplier.enabled, account |-> account]
<1>1. /\ change' = [change EXCEPT ![k] = c] /\ UNCHANGED <<supplier, account, astray>>
      /\ change[k] # Switching
  BY DEF BeginSupplierUpdate, NoChange, Switching
<1>2. supplier.enabled \in BOOLEAN /\ account \in Status \cup {"none"}
  BY DEF SupplierTyped, Supplier
<1>3. ChangeOK(c)
  BY <1>2 DEF ChangeOK
<1> HIDE DEF c
<1>4. SupplierTyped'
  BY <1>1, <1>3, ChangesTyped DEF SupplierTyped
<1> QED  BY <1>1, <1>4, StillSwitching DEF PortalInv, Linked, Furnished

LEMMA CommitSupplierUpdateStep ==
    ASSUME SupplierTyped, PortalInv, NEW k \in Buyers, CommitSupplierUpdate(k)
    PROVE  SupplierTyped' /\ PortalInv'
<1> DEFINE c == change[k]
           needs == c.portal = "on" /\ c.account = "none"
           next == IF needs THEN ToMail(FALSE) ELSE NoChange
<1>1. /\ c.status \in Status \cup {"same"} /\ c.portal \in {"on", "off", "same"}
      /\ c.account \in Status \cup {"none", "gone"}
  BY UpdateShape DEF CommitSupplierUpdate
<1>2. /\ supplier.there /\ supplier.enabled \in BOOLEAN
      /\ supplier.status \in Status /\ account \in Status \cup {"none"}
  BY DEF SupplierTyped, Supplier, CommitSupplierUpdate
<1>3. /\ supplier' \in Supplier /\ supplier'.there
      /\ supplier'.status = IF c.status = "same" THEN supplier.status ELSE c.status
      /\ supplier'.enabled <=> IF c.portal = "same" THEN supplier.enabled ELSE c.portal = "on"
  <2>1. supplier' = [supplier EXCEPT
                        !.status = IF c.status = "same" THEN supplier.status ELSE c.status,
                        !.enabled = IF c.portal = "same" THEN supplier.enabled
                                                         ELSE c.portal = "on"]
    BY DEF CommitSupplierUpdate
  <2> HIDE DEF c
  <2> QED  BY <1>1, <1>2, <2>1 DEF SupplierTyped, Supplier, Status
<1>4. /\ needs => account = "none"
      /\ account' = IF needs \/ (account # "none" /\ c.account \in Status
                                 /\ (c.portal # "same" \/ c.status # "same"))
                      THEN Granted(c) ELSE account
      /\ astray' \/ /\ c.enabled = supplier.enabled /\ c.account = account
                    /\ astray => Settles(c)
  BY DEF CommitSupplierUpdate
<1>5. change' = [change EXCEPT ![k] = next] /\ change[k] # Switching
  BY DEF CommitSupplierUpdate, Switching
<1>6. ChangeOK(next)
  BY DEF ChangeOK, ToMail
<1> HIDE DEF c, next
<1>7. account' \in Status \cup {"none"}
  BY <1>1, <1>2, <1>4 DEF Granted, Status
<1>8. SupplierTyped'
  BY <1>3, <1>5, <1>6, <1>7, ChangesTyped
<1>9. PortalInv'
  <2> SUFFICES ASSUME ~astray' PROVE Linked' /\ Furnished'
    BY DEF PortalInv
  <2>1. c.account = account /\ (c.enabled <=> supplier.enabled) /\ (astray => Settles(c))
    BY <1>4
  <2>2. account' = IF (c.portal = "on" /\ account = "none")
                        \/ (account # "none" /\ (c.portal # "same" \/ c.status # "same"))
                   THEN Granted(c) ELSE account
    BY <1>2, <1>4, <2>1 DEF Status
  <2>3. CASE c.portal = "on"
    BY <1>3, <2>2, <2>3 DEF Granted, Linked, Furnished
  <2>4. CASE c.portal = "off"
    BY <1>2, <1>3, <2>2, <2>4 DEF Granted, Linked, Furnished
  <2>5. CASE c.portal = "same" /\ c.status # "same" /\ account # "none"
    BY <1>1, <1>2, <1>3, <2>1, <2>2, <2>5 DEF Granted, Status, Linked, Furnished
  <2>6. CASE c.portal = "same" /\ (c.status = "same" \/ account = "none")
    <3>1. Linked /\ Furnished
      BY <2>1, <2>6 DEF PortalInv, Settles
    <3>2. account' = account /\ (supplier'.enabled <=> supplier.enabled)
      BY <1>3, <2>2, <2>6
    <3>3. Linked'
      BY <1>2, <1>3, <2>6, <3>1, <3>2 DEF Linked
    <3>4. Furnished'
      BY <1>2, <1>5, <3>1, <3>2, StillSwitching DEF Furnished
    <3> QED  BY <3>3, <3>4
  <2> QED  BY <1>1, <2>3, <2>4, <2>5, <2>6
<1> QED  BY <1>8, <1>9

\* What is left of the requests when the account is deleted.
LEMMA OrphansTyped ==
    ASSUME SupplierTyped, NEW j \in Buyers
    PROVE  ChangeOK(Orphaned(j))
<1>1. ChangeOK(change[j])
  BY DEF SupplierTyped
<1>2. CASE change[j] \in [op : {"update"}, status : Status \cup {"same"},
                          portal : {"on", "off", "same"}, enabled : BOOLEAN,
                          account : Status \cup {"none", "gone"}]
  BY <1>2 DEF Orphaned, ChangeOK
<1>3. CASE change[j] \in [op : {"mail"}, created : BOOLEAN, own : BOOLEAN]
  BY <1>3 DEF Orphaned, ChangeOK
<1>4. CASE change[j] = NoChange \/ change[j] = Switching
  BY <1>4 DEF Orphaned, ChangeOK, NoChange, Switching
<1> QED  BY <1>1, <1>2, <1>3, <1>4 DEF ChangeOK

LEMMA SupplierMailStep ==
    ASSUME SupplierTyped, PortalInv, NEW k \in Buyers, NEW sent \in BOOLEAN,
           SupplierMail(k, sent)
    PROVE  SupplierTyped' /\ PortalInv'
<1>1. ChangeOK(NoChange) /\ change[k] # Switching
  BY DEF SupplierMail, ChangeOK, Switching
<1>2. CASE sent
  <2>1. /\ UNCHANGED <<supplier, account>> /\ change' = [change EXCEPT ![k] = NoChange]
        /\ astray => astray'
    BY <1>2 DEF SupplierMail
  <2>2. SupplierTyped'
    BY <1>1, <2>1, ChangesTyped DEF SupplierTyped
  <2> QED  BY <1>1, <2>1, <2>2, StillSwitching DEF PortalInv, Linked, Furnished
<1>3. CASE ~sent
  <2>1. PICK created : created = change[k].created
    OBVIOUS
  <2>2. /\ account' = "none"
        /\ supplier' = IF created THEN NoSupplier ELSE supplier
        /\ change' = [j \in Buyers |-> IF j = k THEN AfterTakeBack(created) ELSE Orphaned(j)]
    BY <1>3, <2>1 DEF SupplierMail
  <2>3. supplier' \in Supplier
    BY <2>2 DEF SupplierTyped, Supplier, NoSupplier, Status
  <2>4. ChangeOK(AfterTakeBack(created))
    BY DEF ChangeOK, AfterTakeBack
  <2>5. \A j \in Buyers : ChangeOK(change'[j])
    BY <2>2, <2>4, OrphansTyped
  <2>6. SupplierTyped'
    BY <2>2, <2>3, <2>5 DEF SupplierTyped, ChangeOK
  <2>7. Linked'
    BY <2>2 DEF Linked
  <2>8. Furnished'
    <3>1. CASE created
      BY <2>2, <3>1 DEF Furnished, NoSupplier
    <3>2. CASE ~created
      <4>1. change'[k] = Switching
        BY <2>2, <3>2 DEF AfterTakeBack
      <4> QED  BY <4>1 DEF Furnished
    <3> QED  BY <3>1, <3>2
  <2> QED  BY <2>6, <2>7, <2>8 DEF PortalInv
<1> QED  BY <1>2, <1>3

LEMMA SwitchOffStep ==
    ASSUME SupplierTyped, PortalInv, NEW k \in Buyers, SwitchOff(k)
    PROVE  SupplierTyped' /\ PortalInv'
<1>1. /\ change' = [change EXCEPT ![k] = NoChange] /\ ChangeOK(NoChange)
      /\ supplier' = [supplier EXCEPT !.enabled = FALSE] /\ account' = account
      /\ astray' = (account # "none")
  BY DEF SwitchOff, ChangeOK
<1>2. supplier' \in Supplier /\ supplier'.enabled = FALSE
  BY <1>1 DEF SupplierTyped, Supplier
<1>3. SupplierTyped'
  BY <1>1, <1>2, ChangesTyped DEF SupplierTyped
<1>4. account = "none" => Linked' /\ Furnished'
  BY <1>1, <1>2 DEF Linked, Furnished
<1> QED  BY <1>1, <1>3, <1>4 DEF PortalInv

LEMMA StopChangeStep ==
    ASSUME SupplierTyped, PortalInv, NEW k \in Buyers, StopChange(k)
    PROVE  SupplierTyped' /\ PortalInv'
<1>1. /\ change' = [change EXCEPT ![k] = NoChange] /\ ChangeOK(NoChange)
      /\ UNCHANGED <<supplier, account>>
      /\ astray' \/ (~astray /\ change[k] # Switching)
  BY DEF StopChange, ChangeOK
<1>2. SupplierTyped'
  BY <1>1, ChangesTyped DEF SupplierTyped
<1> QED  BY <1>1, <1>2, StillSwitching DEF PortalInv, Linked, Furnished

\* The users service changes or deletes the account.
LEMMA UsersStep ==
    ASSUME SupplierTyped, DeleteAccount \/ \E to \in Status : OverruleAccount(to)
    PROVE  SupplierTyped' /\ PortalInv'
<1>1. CASE DeleteAccount
  <2>1. \A j \in Buyers : ChangeOK(change'[j])
    BY <1>1, OrphansTyped DEF DeleteAccount
  <2> QED  BY <1>1, <2>1 DEF DeleteAccount, SupplierTyped, ChangeOK, PortalInv
<1>2. CASE \E to \in Status : OverruleAccount(to)
  BY <1>2 DEF OverruleAccount, SupplierTyped, ChangeOK, PortalInv
<1> QED  BY <1>1, <1>2

\* The highest number is read, as long as it has six digits.
LEMMA HighestRead ==
    ASSUME customers \in Nat
    PROVE  Highest \in Nat /\ Highest <= customers /\ (customers > Widest \/ Highest = customers)
  BY PartnersAssumption DEF Highest

LEMMA BeginSignupStep ==
    ASSUME SignupInv, NEW k \in Buyers, BeginSignup(k)
    PROVE  SignupInv'
<1> DEFINE s == [attempt |-> 1, read |-> Highest, since |-> customers]
<1>1. signup' = [signup EXCEPT ![k] = s] /\ UNCHANGED <<customers, refused>>
  BY DEF BeginSignup
<1>2. SignupOK(s)
  BY PartnersAssumption, HighestRead DEF SignupOK, SignupInv
<1> HIDE DEF s
<1> QED  BY <1>1, <1>2 DEF SignupInv, SignupOK, RefusedForCause

LEMMA CommitSignupStep ==
    ASSUME SignupInv, NEW k \in Buyers, CommitSignup(k)
    PROVE  SignupInv'
<1> PICK s : s = signup[k]
  OBVIOUS
<1>1. /\ s \in [attempt : 1..MaxAttempts, read : Nat, since : Nat]
      /\ s.read <= customers /\ s.since <= customers
      /\ customers > Widest \/ s.since + s.attempt - 1 <= s.read
      /\ customers \in Nat /\ Widest \in Nat
  BY PartnersAssumption DEF CommitSignup, SignupInv, SignupOK
<1>2. s.attempt \in 1..MaxAttempts /\ s.read \in Nat /\ s.since \in Nat /\ MaxAttempts \in Nat
  BY <1>1, PartnersAssumption
<1>3. CASE s.read = customers
  <2>1. customers' = customers + 1 /\ refused' = refused
    BY <1>3 DEF CommitSignup
  <2>2. signup' = [signup EXCEPT ![k] = NoSignup]
    BY <1>3 DEF CommitSignup
  <2>3. \A j \in Buyers : SignupOK(signup[j])'
    BY <1>1, <2>1, <2>2 DEF SignupInv, SignupOK
  <2> QED  BY <1>1, <2>1, <2>2, <2>3 DEF SignupInv, RefusedForCause
<1>4. CASE s.read # customers /\ s.attempt = MaxAttempts
  <2>1. customers' = customers /\ refused' = refused \cup {customers - s.since}
    BY <1>4 DEF CommitSignup
  <2>2. signup' = [signup EXCEPT ![k] = NoSignup]
    BY <1>4 DEF CommitSignup
  <2>3. customers > Widest \/ customers - s.since >= MaxAttempts
    BY <1>1, <1>2, <1>4
  <2>4. \A j \in Buyers : SignupOK(signup[j])'
    BY <1>1, <2>1, <2>2 DEF SignupInv, SignupOK
  <2> QED  BY <1>1, <2>1, <2>2, <2>3, <2>4 DEF SignupInv, RefusedForCause
<1>5. CASE s.read # customers /\ s.attempt # MaxAttempts
  <2> DEFINE n == [s EXCEPT !.attempt = s.attempt + 1, !.read = Highest]
  <2>1. customers' = customers /\ refused' = refused
    BY <1>5 DEF CommitSignup
  <2>2. signup' = [signup EXCEPT ![k] = n]
    BY <1>5 DEF CommitSignup
  <2>3. /\ n \in [attempt : 1..MaxAttempts, read : Nat, since : Nat]
        /\ n.read <= customers /\ n.since <= customers
        /\ customers > Widest \/ n.since + n.attempt - 1 <= n.read
    <3>1. s.attempt + 1 \in 1..MaxAttempts
      BY <1>2, <1>5
    <3>2. customers > Widest \/ s.since + s.attempt + 1 - 1 <= customers
      BY <1>1, <1>2, <1>5
    <3>3. n.attempt = s.attempt + 1 /\ n.read = Highest /\ n.since = s.since
      BY <1>1
    <3>4. Highest \in Nat /\ Highest <= customers /\ (customers > Widest \/ Highest = customers)
      BY <1>1, HighestRead
    <3>5. n \in [attempt : 1..MaxAttempts, read : Nat, since : Nat]
      BY <1>1, <3>1, <3>4
    <3> HIDE DEF n
    <3>6. customers > Widest \/ n.since + n.attempt - 1 <= n.read
      BY <1>1, <1>2, <3>2, <3>3, <3>4
    <3> QED  BY <1>1, <3>3, <3>4, <3>5, <3>6
  <2> HIDE DEF n
  <2>4. \A j \in Buyers : SignupOK(signup[j])'
    BY <1>1, <2>1, <2>2, <2>3 DEF SignupInv, SignupOK
  <2> QED  BY <1>1, <2>1, <2>2, <2>4 DEF SignupInv, RefusedForCause
<1> QED  BY <1>3, <1>4, <1>5

LEMMA PartnersInvStep ==
    ASSUME PartnersInv, [PartnersNext]_partnersVars
    PROVE  PartnersInv'
<1>1. CASE SupplierNext
  <2>1. UNCHANGED <<customers, signup, refused>>
    BY <1>1 DEF SupplierNext, CreateSupplier, SupplierMail, BeginSupplierUpdate, SwitchOff,
                CommitSupplierUpdate, StopChange, OverruleAccount, DeleteAccount, customerVars
  <2>2. SignupInv'
    BY <2>1 DEF PartnersInv, SignupInv, SignupOK, RefusedForCause
  <2>3. SupplierTyped' /\ PortalInv'
    BY <1>1, CreateSupplierStep, SupplierMailStep, BeginSupplierUpdateStep,
       CommitSupplierUpdateStep, SwitchOffStep, StopChangeStep, UsersStep
    DEF SupplierNext, PartnersInv
  <2> QED  BY <2>2, <2>3 DEF PartnersInv
<1>2. CASE CustomerNext
  <2>1. UNCHANGED <<supplier, account, change, astray>>
    BY <1>2 DEF CustomerNext, BeginSignup, CommitSignup, supplierVars
  <2>2. SupplierTyped' /\ PortalInv'
    BY <2>1 DEF PartnersInv, SupplierTyped, ChangeOK, PortalInv, Linked, Furnished
  <2>3. SignupInv'
    BY <1>2, BeginSignupStep, CommitSignupStep DEF CustomerNext, PartnersInv
  <2> QED  BY <2>2, <2>3 DEF PartnersInv
<1>3. CASE UNCHANGED partnersVars
  BY <1>3 DEF partnersVars, PartnersInv, SupplierTyped, ChangeOK, PortalInv, Linked, Furnished,
              SignupInv, SignupOK, RefusedForCause
<1> QED  BY <1>1, <1>2, <1>3 DEF PartnersNext

\* The account of a supplier agrees with its portal, and agrees again with the
\* next update that writes both after what set them apart: an update on an
\* outdated read, a take-back cut short or crossed, or the users service.  A
\* customer is refused for want of a number only if at least as many others were
\* created meanwhile as numbers were tried, while those have six digits.
THEOREM PartnersAreServed == PartnersSpec => []PartnersServed
<1>1. PartnersInv => PartnersServed
  BY DEF PartnersInv, PortalInv, Linked, Furnished, SignupInv, PartnersServed, PortalAgrees
<1> QED
  BY <1>1, PartnersInitInv, PartnersInvStep, PTL DEF PartnersSpec

-----------------------------------------------------------------------------
(* Proofs about the data behind a forecast.  The sums of whole cents do    *)
(* not depend on an order, so a feature is the same for two histories that *)
(* agree on the days it looks at.                                          *)

\* Two histories that agree before day i have the same features on day i.
LEMMA FeaturesLookBack ==
    ASSUME NEW a, NEW b, NEW i \in Nat, DOMAIN a = DOMAIN b, 0..(i - 1) \subseteq DOMAIN a,
           \A k \in 0..(i - 1) : a[k] = b[k]
    PROVE  FeaturesOf(a, i) = FeaturesOf(b, i)
<1>1. \A n, m \in Int : 0 <= n /\ m < i => SumFunctionOnSet(a, n..m) = SumFunctionOnSet(b, n..m)
  <2> SUFFICES ASSUME NEW n \in Int, NEW m \in Int, 0 <= n, m < i
               PROVE  SumFunctionOnSet(a, n..m) = SumFunctionOnSet(b, n..m)
    OBVIOUS
  <2>1. IsFiniteSet(n..m)
    BY FS_Interval
  <2>2. \A k \in n..m : a[k] = b[k]
    OBVIOUS
  <2> QED  BY <2>1, <2>2, SumAgrees
<1>2. \A w \in {1, 7, 14, 28} : Lag(a, i, w) = Lag(b, i, w)
  BY DEF Lag
<1>3. \A w \in {7, 14, 28} : TrailingMean(a, i, w) = TrailingMean(b, i, w)
  <2> SUFFICES ASSUME NEW w \in {7, 14, 28}, ~(i < w)
               PROVE  SumOver(a, Trailing(i, w)) = SumOver(b, Trailing(i, w))
    BY DEF TrailingMean
  <2>1. i - w \in Int /\ i - 1 \in Int /\ 0 <= i - w /\ i - 1 < i
    OBVIOUS
  <2> QED  BY <1>1, <2>1 DEF SumOver, Trailing
<1>4. \A w \in {7, 28} : TrailingVariance(a, i, w) = TrailingVariance(b, i, w)
  <2> SUFFICES ASSUME NEW w \in {7, 28}, ~(i < w)
               PROVE  TrailingVariance(a, i, w) = TrailingVariance(b, i, w)
    BY DEF TrailingVariance
  <2> DEFINE mean == TrailingMean(a, i, w)
             p == [k \in DOMAIN a |-> (a[k] - mean) * (a[k] - mean)]
             q == [k \in DOMAIN b |-> (b[k] - mean) * (b[k] - mean)]
  <2>1. mean = TrailingMean(b, i, w)
    BY <1>3
  <2>2. SumOver(p, Trailing(i, w)) = SumOver(q, Trailing(i, w))
    <3>1. IsFiniteSet((i - w)..(i - 1))
      BY FS_Interval
    <3>2. \A k \in (i - w)..(i - 1) : k \in 0..(i - 1) /\ k \in DOMAIN a /\ k \in DOMAIN b
      OBVIOUS
    <3> HIDE DEF mean
    <3>3. \A k \in (i - w)..(i - 1) : p[k] = q[k]
      BY <3>2
    <3> HIDE DEF p, q
    <3> QED  BY <3>1, <3>3, SumAgrees DEF SumOver, Trailing
  <2> QED  BY <2>1, <2>2 DEF TrailingVariance
<1>5. WeeklyMomentum(a, i) = WeeklyMomentum(b, i)
  <2> SUFFICES ASSUME ~(i < 14)
               PROVE  /\ SumOver(a, Trailing(i, 7)) = SumOver(b, Trailing(i, 7))
                      /\ SumOver(a, Trailing(i - 7, 7)) = SumOver(b, Trailing(i - 7, 7))
    BY DEF WeeklyMomentum
  <2>1. /\ i - 7 \in Int /\ i - 1 \in Int /\ 0 <= i - 7 /\ i - 1 < i
        /\ (i - 7) - 7 \in Int /\ (i - 7) - 1 \in Int /\ 0 <= (i - 7) - 7 /\ (i - 7) - 1 < i
    OBVIOUS
  <2> QED  BY <1>1, <2>1 DEF SumOver, Trailing
<1>6. ExpandingMean(a, i) = ExpandingMean(b, i)
  <2>1. i - i \in Int /\ i - 1 \in Int /\ 0 <= i - i /\ i - 1 < i
    OBVIOUS
  <2> QED  BY <1>1, <2>1 DEF ExpandingMean, SumOver, Trailing
<1> QED  BY <1>2, <1>3, <1>4, <1>5, <1>6 DEF FeaturesOf

\* A mean is unknown exactly if its window reaches before the first day.
LEMMA MeansNeedTheirWindow ==
    ASSUME NEW a, NEW i \in Nat, \A k \in 0..(i - 1) : a[k] \in Nat
    PROVE  \A w \in {7, 14, 28} : FeaturesOf(a, i).means[w] = null <=> i < w
<1>1. ASSUME NEW w \in {7, 14, 28}
      PROVE  TrailingMean(a, i, w) = null <=> i < w
  <2>1. CASE i < w
    BY <2>1 DEF TrailingMean
  <2>2. CASE ~(i < w)
    <3> DEFINE total == SumOver(a, Trailing(i, w))
    <3>1. IsFiniteSet((i - w)..(i - 1))
      BY FS_Interval
    <3>2. \A k \in (i - w)..(i - 1) : a[k] \in Nat
      BY <2>2
    <3>3. total \in Nat
      BY <3>1, <3>2, SumNat DEF SumOver, Trailing
    <3>4. RoundedQuotient(total, w) >= 0
      <4> HIDE DEF total
      <4> QED  BY <3>3 DEF RoundedQuotient
    <3>5. RoundedQuotient(total, w) # null
      <4> HIDE DEF total
      <4>1. RoundedQuotient(total, w) \in Int
        BY <3>3 DEF RoundedQuotient
      <4> QED  BY <3>4, <4>1 DEF null
    <3> QED  BY <2>2, <3>5 DEF TrailingMean
  <2> QED  BY <2>1, <2>2
<1> QED  BY <1>1 DEF FeaturesOf

-----------------------------------------------------------------------------
(* The calendar.                                                           *)


\* A finite set of integers has a least and a greatest element.
LEMMA LeastOf ==
    ASSUME NEW S \in SUBSET Int, IsFiniteSet(S), S # {}
    PROVE  Min(S) \in S /\ \A x \in S : Min(S) <= x
<1> DEFINE Least(s) == \E m \in s : \A y \in s : m <= y
           Bad == {s \in SUBSET S : s # {} /\ ~Least(s)}
<1>1. Least(S)
  <2> SUFFICES ASSUME Bad # {} PROVE FALSE
    OBVIOUS
  <2>0. Bad \in SUBSET SUBSET S
    OBVIOUS
  <2>1. PICK s \in Bad : IsFiniteSet(s) /\ \A r \in SUBSET s : r # s => r \notin Bad
    <3> HIDE DEF Bad
    <3> QED  BY <2>0, SmallestBad
  <2>2. PICK c \in s : TRUE
    OBVIOUS
  <2>3. s \ {c} = {} \/ Least(s \ {c})
    BY <2>1, <2>2
  <2>4. CASE s \ {c} = {}
    BY <2>1, <2>2, <2>4
  <2>5. CASE Least(s \ {c})
    <3>1. PICK m \in s \ {c} : \A y \in s \ {c} : m <= y
      BY <2>5
    <3>2. c \in Int /\ m \in Int
      BY <2>1, <2>2, <3>1
    <3>3. CASE m <= c
      <4>1. \A y \in s : m <= y
        BY <3>1, <3>3
      <4> QED  BY <2>1, <4>1
    <3>4. CASE c <= m
      <4>1. \A y \in s : c <= y
        BY <2>1, <3>1, <3>2, <3>4
      <4> QED  BY <2>1, <2>2, <4>1
    <3> QED  BY <3>2, <3>3, <3>4
  <2> QED  BY <2>3, <2>4, <2>5
<1> QED  BY <1>1 DEF Min

LEMMA GreatestOf ==
    ASSUME NEW S \in SUBSET Int, IsFiniteSet(S), S # {}
    PROVE  Max(S) \in S /\ \A x \in S : x <= Max(S)
<1> DEFINE Greatest(s) == \E m \in s : \A y \in s : m >= y
           Bad == {s \in SUBSET S : s # {} /\ ~Greatest(s)}
<1>1. Greatest(S)
  <2> SUFFICES ASSUME Bad # {} PROVE FALSE
    OBVIOUS
  <2>0. Bad \in SUBSET SUBSET S
    OBVIOUS
  <2>1. PICK s \in Bad : IsFiniteSet(s) /\ \A r \in SUBSET s : r # s => r \notin Bad
    <3> HIDE DEF Bad
    <3> QED  BY <2>0, SmallestBad
  <2>2. PICK c \in s : TRUE
    OBVIOUS
  <2>3. s \ {c} = {} \/ Greatest(s \ {c})
    BY <2>1, <2>2
  <2>4. CASE s \ {c} = {}
    BY <2>1, <2>2, <2>4
  <2>5. CASE Greatest(s \ {c})
    <3>1. PICK m \in s \ {c} : \A y \in s \ {c} : m >= y
      BY <2>5
    <3>2. c \in Int /\ m \in Int
      BY <2>1, <2>2, <3>1
    <3>3. CASE m >= c
      <4>1. \A y \in s : m >= y
        BY <3>1, <3>3
      <4> QED  BY <2>1, <4>1
    <3>4. CASE c >= m
      <4>1. \A y \in s : c >= y
        BY <2>1, <3>1, <3>2, <3>4
      <4> QED  BY <2>1, <2>2, <4>1
    <3> QED  BY <3>2, <3>3, <3>4
  <2> QED  BY <2>3, <2>4, <2>5
<1>2. Max(S) \in S /\ \A y \in S : Max(S) >= y
  BY <1>1 DEF Max
<1> QED  BY <1>2

\* The least and the greatest of a range.
LEMMA LeastOfRange ==
    ASSUME NEW m \in Int, NEW n \in Int, m <= n
    PROVE  Min(m..n) = m /\ Max(m..n) = n
<1>1. IsFiniteSet(m..n) /\ m..n \in SUBSET Int /\ m..n # {}
  <2>1. IsFiniteSet(m..n)
    BY FS_Interval
  <2>2. m \in m..n
    OBVIOUS
  <2> QED  BY <2>1, <2>2
<1>2. Min(m..n) \in m..n /\ \A x \in m..n : Min(m..n) <= x
  BY <1>1, LeastOf
<1>3. Max(m..n) \in m..n /\ \A x \in m..n : x <= Max(m..n)
  BY <1>1, GreatestOf
<1> QED  BY <1>2, <1>3

\* What is known of the sales that the rows are made of, and of the rows.
SalesTyped == DOMAIN sold \subseteq SaleTimes /\ \A t \in DOMAIN sold : sold[t] \in Nat

AskedSince(start) == {t \in DOMAIN sold : t >= start}
DaysOf(times) == {ColomboDay(t) : t \in times}

\* The rows are those of the sales that were asked for, from the first day of
\* a sale to the last.
RowsOf(times) ==
    /\ days = [d \in Min(DaysOf(times)) .. Max(DaysOf(times)) |->
                  [revenue |-> SumFunctionOnSet(sold, {t \in times : ColomboDay(t) = d}),
                   weekday |-> days[d].weekday, weekend |-> days[d].weekend,
                   operating |-> days[d].operating]]
    /\ times # {}

ForecastInv ==
    /\ SalesTyped
    /\ days = <<>> \/ RowsOf(AskedSince(since))
    /\ features = <<>>
         \/ /\ days # <<>>
            /\ features = [d \in DOMAIN days |-> FeaturesOf(Revenues(days), d - Min(DOMAIN days))]
    /\ forecast.is = "asked" =>
         /\ days # <<>> /\ forecast.recent = Recent(days)
         /\ \E horizon \in Horizons : forecast.future = FutureCalendar(days, horizon)

LEMMA SalesFinite ==
    ASSUME SalesTyped
    PROVE  IsFiniteSet(DOMAIN sold) /\ DOMAIN sold \subseteq 0..Now /\ Now \in Nat
<1>1. Now \in Nat /\ DOMAIN sold \subseteq 0..Now
  BY ForecastAssumption DEF SalesTyped
<1>2. IsFiniteSet(0..Now)
  BY <1>1, FS_Interval
<1> QED  BY <1>1, <1>2, FS_Subset

LEMMA AskedFinite ==
    ASSUME SalesTyped, NEW start
    PROVE  IsFiniteSet(AskedSince(start)) /\ AskedSince(start) \subseteq 0..Now /\ Now \in Nat
<1>1. AskedSince(start) \subseteq DOMAIN sold
  BY DEF AskedSince
<1>2. IsFiniteSet(DOMAIN sold) /\ DOMAIN sold \subseteq 0..Now /\ Now \in Nat
  BY SalesFinite
<1>3. IsFiniteSet(AskedSince(start))
  BY <1>1, <1>2, FS_Subset
<1> QED  BY <1>1, <1>2, <1>3

\* The rows of sales that were asked for.
LEMMA DatasetRows ==
    ASSUME SalesTyped, days = Dataset(sold, since), days # <<>>
    PROVE  RowsOf(AskedSince(since))
<1> DEFINE times == AskedSince(since)
           recorded == [t \in {u \in DOMAIN sold : u >= since} |-> sold[t]]
<1>1. DOMAIN recorded = times /\ times # {} /\ days = Calendar(recorded)
  BY DEF Dataset, AskedSince
<1>2. \A d : RevenueOf(recorded, d) = SumFunctionOnSet(sold, {t \in times : ColomboDay(t) = d})
  <2> SUFFICES ASSUME NEW d
               PROVE  RevenueOf(recorded, d)
                        = SumFunctionOnSet(sold, {t \in times : ColomboDay(t) = d})
    OBVIOUS
  <2> DEFINE part == {t \in times : ColomboDay(t) = d}
  <2>1. IsFiniteSet(part)
    <3>1. IsFiniteSet(times) /\ part \subseteq times
      BY AskedFinite
    <3> QED  BY <3>1, FS_Subset
  <2>2. \A t \in part : recorded[t] = sold[t]
    BY DEF AskedSince
  <2>3. RevenueOf(recorded, d) = SumFunctionOnSet(recorded, part)
    <3> HIDE DEF recorded, times
    <3>1. {t \in DOMAIN recorded : ColomboDay(t) = d} = part
      BY <1>1
    <3> HIDE DEF part
    <3> QED  BY <3>1 DEF RevenueOf
  <2>4. SumFunctionOnSet(recorded, part) = SumFunctionOnSet(sold, part)
    <3> HIDE DEF part, recorded
    <3> QED  BY <2>1, <2>2, SumAgrees
  <2> HIDE DEF recorded, times
  <2> QED  BY <2>3, <2>4
<1> HIDE DEF recorded, times
<1>3. days = [d \in Min(DaysOf(times)) .. Max(DaysOf(times)) |-> Row(recorded, d)]
  BY <1>1 DEF Calendar, DaysOf
<1>4. \A d : Row(recorded, d) =
              [revenue |-> SumFunctionOnSet(sold, {t \in times : ColomboDay(t) = d}),
               weekday |-> Row(recorded, d).weekday, weekend |-> Row(recorded, d).weekend,
               operating |-> Row(recorded, d).operating]
  BY <1>2 DEF Row
<1>5. days = [d \in Min(DaysOf(times)) .. Max(DaysOf(times)) |->
                 [revenue |-> SumFunctionOnSet(sold, {t \in times : ColomboDay(t) = d}),
                  weekday |-> days[d].weekday, weekend |-> days[d].weekend,
                  operating |-> days[d].operating]]
  BY <1>3, <1>4
<1> QED  BY <1>1, <1>5 DEF RowsOf, times

LEMMA DatasetIsRows ==
    SalesTyped /\ days = Dataset(sold, since) /\ days # <<>> => RowsOf(AskedSince(since))
BY DatasetRows

\* The days of the rows.
LEMMA DaysInRange ==
    ASSUME SalesTyped, RowsOf(AskedSince(since))
    PROVE  /\ DaysOf(AskedSince(since)) \subseteq DOMAIN days
           /\ days # <<>>
           /\ \E first, last \in Nat : first <= last /\ DOMAIN days = first..last
<1> DEFINE times == AskedSince(since)
           D == DaysOf(times)
<1>1. /\ IsFiniteSet(times) /\ times \subseteq 0..Now /\ Now \in Nat /\ times # {}
      /\ DOMAIN days = Min(D)..Max(D)
  BY AskedFinite DEF RowsOf
<1>2. D \subseteq 0..ColomboDay(Now) /\ ColomboDay(Now) \in Nat /\ D # {}
  <2>1. \A t \in times : t \in Nat /\ t <= Now
    BY <1>1
  <2> HIDE DEF times
  <2> QED  BY <1>1, <2>1 DEF DaysOf, ColomboDay, Ahead530, HalfHours
<1>3. IsFiniteSet(D)
  <2>1. IsFiniteSet(0..ColomboDay(Now))
    BY <1>2, FS_Interval
  <2> HIDE DEF D
  <2> QED  BY <1>2, <2>1, FS_Subset
<1> HIDE DEF D
<1>4. Min(D) \in D /\ Max(D) \in D /\ \A x \in D : Min(D) <= x /\ x <= Max(D)
  <2>1. D \in SUBSET Int
    BY <1>2
  <2>2. Min(D) \in D /\ \A x \in D : Min(D) <= x
    BY <1>2, <1>3, <2>1, LeastOf
  <2>3. Max(D) \in D /\ \A x \in D : x <= Max(D)
    BY <1>2, <1>3, <2>1, GreatestOf
  <2> QED  BY <2>2, <2>3
<1>5. Min(D) \in Nat /\ Max(D) \in Nat /\ Min(D) <= Max(D) /\ D \subseteq Min(D)..Max(D)
  <2>1. D \subseteq Nat
    BY <1>2
  <2>2. Min(D) \in Nat /\ Max(D) \in Nat /\ Min(D) <= Max(D)
    BY <1>4, <2>1
  <2>3. \A x \in D : x \in Nat /\ Min(D) <= x /\ x <= Max(D)
    BY <1>4, <2>1
  <2> QED  BY <2>2, <2>3
<1>6. days # <<>>
  <2>1. DOMAIN days # {}
    BY <1>1, <1>5
  <2> QED  BY <2>1
<1> QED  BY <1>1, <1>5, <1>6 DEF D

\* A half hour is in the day of the clock of Colombo.
LEMMA DayOfTime ==
    ASSUME NEW t \in Nat, NEW d \in Int
    PROVE  ColomboDay(t) = d <=> t \in Midnight(d)..DayEnd(d)
BY DEF ColomboDay, Midnight, DayEnd, Ahead530, HalfHours

\* Every sale is in the row of its day, and the rows are all that was sold.
LEMMA RowsAreComplete ==
    ASSUME SalesTyped, RowsOf(AskedSince(since))
    PROVE  /\ \A d \in DOMAIN days :
                 days[d].revenue =
                     SumFunctionOnSet(sold, {t \in AskedSince(since) : t \in Midnight(d)..DayEnd(d)})
           /\ SumFunction([d \in DOMAIN days |-> days[d].revenue])
                = SumFunctionOnSet(sold, AskedSince(since))
           /\ \A d \in DOMAIN days : days[d].revenue \in Nat
<1> DEFINE times == AskedSince(since)
           day == [t \in times |-> ColomboDay(t)]
           part(d) == {t \in times : ColomboDay(t) = d}
           h == [d \in DOMAIN days |-> days[d].revenue]
<1>1. /\ IsFiniteSet(times) /\ \A t \in times : t \in Nat /\ sold[t] \in Nat /\ t \in DOMAIN sold
  <2>1. IsFiniteSet(times) /\ times \subseteq 0..Now /\ Now \in Nat
    BY AskedFinite
  <2>2. \A t \in times : t \in DOMAIN sold
    BY DEF AskedSince
  <2> HIDE DEF times
  <2> QED  BY <2>1, <2>2 DEF SalesTyped
<1>2. PICK first, last \in Nat : DOMAIN days = first..last
  BY DaysInRange
<1>3. IsFiniteSet(DOMAIN days) /\ DOMAIN days \subseteq Nat
  <2>1. IsFiniteSet(first..last)
    BY FS_Interval
  <2> QED  BY <1>2, <2>1
<1>4. \A t \in times : ColomboDay(t) \in DOMAIN days
  BY DaysInRange DEF DaysOf
<1> HIDE DEF times
<1>5. \A d \in DOMAIN days : days[d].revenue = SumFunctionOnSet(sold, part(d))
  BY DEF RowsOf, times
<1>6. \A d \in DOMAIN days : part(d) = {t \in times : t \in Midnight(d)..DayEnd(d)}
  BY <1>1, <1>3, DayOfTime
<1>7. \A d \in DOMAIN days : days[d].revenue \in Nat
  <2> SUFFICES ASSUME NEW d \in DOMAIN days PROVE days[d].revenue \in Nat
    OBVIOUS
  <2>1. IsFiniteSet(part(d)) /\ \A t \in part(d) : sold[t] \in Nat
    BY <1>1, FS_Subset
  <2> HIDE DEF part
  <2> QED  BY <1>5, <2>1, SumNat
<1>8. SumFunctionOnSet(h, DOMAIN days) = SumFunctionOnSet(sold, times)
  <2>1. \A t \in times : sold[t] \in Int /\ day[t] \in DOMAIN days
    BY <1>1, <1>4
  <2>2. PICK p, q, r : p = [d \in DOMAIN days |-> part(d)] /\ q = day /\ r = h
    OBVIOUS
  <2>3. \A d \in DOMAIN days, t \in times : t \in p[d] <=> q[t] = d
    BY <2>2
  <2>4. \A d \in DOMAIN days : p[d] \subseteq times
    BY <2>2
  <2>5. \A d \in DOMAIN days : r[d] = SumFunctionOnSet(sold, p[d])
    <3> HIDE DEF part
    <3> QED  BY <1>5, <2>2
  <2>6. \A t \in times : sold[t] \in Int /\ q[t] \in DOMAIN days
    BY <2>1, <2>2
  <2>7. SumFunctionOnSet(r, DOMAIN days) = SumFunctionOnSet(sold, times)
    <3> HIDE DEF part, day, h
    <3>1. InParts(sold, q, r, p, times, DOMAIN days)
      BY <2>3, <2>4, <2>5, <2>6 DEF InParts
    <3> QED  BY <1>1, <1>3, <3>1, SumOfParts
  <2> QED  BY <2>2, <2>7
<1>9. SumFunction(h) = SumFunctionOnSet(sold, times)
  BY <1>8 DEF SumFunction
<1>10. \A d \in DOMAIN days :
         days[d].revenue = SumFunctionOnSet(sold, {t \in times : t \in Midnight(d)..DayEnd(d)})
  <2> HIDE DEF part
  <2> QED  BY <1>5, <1>6
<1> QED  BY <1>7, <1>9, <1>10 DEF times

\* Nothing that was sold on a day or later is in the features of the day.
LEMMA NothingLeaks ==
    ASSUME ForecastInv
    PROVE  NoLookAhead
<1> SUFFICES ASSUME NEW d \in DOMAIN features
             PROVE  LET known == Revenues(days)
                        i == d - Min(DOMAIN days)
                        other == [k \in DOMAIN known |->
                                      IF k < i THEN known[k] ELSE known[k] + 777]
                    IN  /\ FeaturesOf(other, i) = features[d]
                        /\ \A w \in {7, 14, 28} : features[d].means[w] = null <=> i < w
  BY DEF NoLookAhead
<1>1. /\ days # <<>> /\ SalesTyped /\ RowsOf(AskedSince(since))
      /\ features = [e \in DOMAIN days |-> FeaturesOf(Revenues(days), e - Min(DOMAIN days))]
  <2>1. features # <<>>
    OBVIOUS
  <2> QED  BY <2>1 DEF ForecastInv
<1>2. PICK first, last \in Nat : first <= last /\ DOMAIN days = first..last
  BY <1>1, DaysInRange
<1>3. Min(DOMAIN days) = first
  <2>1. Min(first..last) = first
    BY <1>2, LeastOfRange
  <2> QED  BY <1>2, <2>1
<1> DEFINE known == Revenues(days)
           i == d - first
           other == [k \in DOMAIN known |-> IF k < i THEN known[k] ELSE known[k] + 777]
<1>4. i \in Nat /\ i <= last - first /\ features[d] = FeaturesOf(known, i)
  BY <1>1, <1>2, <1>3
<1>5. known = [k \in 0..(last - first) |-> days[first + k].revenue]
  <2>1. Cardinality(DOMAIN days) = last - first + 1
    BY <1>2, FS_Interval
  <2>2. Cardinality(DOMAIN days) - 1 = last - first
    BY <1>2, <2>1
  <2> QED  BY <1>3, <2>2 DEF Revenues
<1>6. \A k \in 0..(i - 1) : k \in DOMAIN known /\ known[k] \in Nat
  <2>1. \A e \in DOMAIN days : days[e].revenue \in Nat
    BY <1>1, RowsAreComplete
  <2>2. \A k \in 0..(i - 1) : k \in 0..(last - first) /\ first + k \in first..last
    BY <1>2, <1>4
  <2> QED  BY <1>2, <1>5, <2>1, <2>2
<1> HIDE DEF known, i
<1>7. /\ DOMAIN other = DOMAIN known /\ 0..(i - 1) \subseteq DOMAIN other
      /\ \A k \in 0..(i - 1) : other[k] = known[k]
  <2>1. \A k \in 0..(i - 1) : k < i
    BY <1>4
  <2> QED  BY <1>6, <2>1
<1> HIDE DEF other
<1>8. FeaturesOf(other, i) = FeaturesOf(known, i)
  BY <1>4, <1>7, FeaturesLookBack
<1>9. \A w \in {7, 14, 28} : FeaturesOf(known, i).means[w] = null <=> i < w
  BY <1>4, <1>6, MeansNeedTheirWindow
<1> QED  BY <1>3, <1>4, <1>8, <1>9 DEF known, i, other

\* The days that the model is asked for follow the ninety days it is told, at
\* most, without a gap.
LEMMA ForecastFollows ==
    ASSUME ForecastInv, forecast.is = "asked"
    PROVE  LET coming == {forecast.future[h].day : h \in DOMAIN forecast.future}
           IN  /\ Cardinality(forecast.recent) <= 90
               /\ forecast.recent \cap coming = {}
               /\ forecast.recent \cup coming = Min(forecast.recent) .. Max(coming)
<1>1. days # <<>> /\ SalesTyped /\ RowsOf(AskedSince(since)) /\ forecast.recent = Recent(days)
  BY DEF ForecastInv
<1>2. PICK horizon \in Horizons : forecast.future = FutureCalendar(days, horizon)
  BY DEF ForecastInv
<1>3. horizon \in Nat /\ horizon >= 1
  BY ForecastAssumption
<1>4. PICK first, last \in Nat : first <= last /\ DOMAIN days = first..last
  BY <1>1, DaysInRange
<1>5. Max(DOMAIN days) = last
  <2>1. Max(first..last) = last
    BY <1>4, LeastOfRange
  <2> QED  BY <1>4, <2>1
<1> DEFINE coming == {forecast.future[h].day : h \in DOMAIN forecast.future}
           lowest == IF first > last - 90 THEN first ELSE last - 89
<1>6. forecast.recent = lowest..last /\ lowest \in Int /\ lowest <= last /\ last - 89 <= lowest
  <2>1. forecast.recent = {d \in first..last : d > last - 90}
    BY <1>1, <1>4, <1>5 DEF Recent
  <2> QED  BY <1>4, <2>1
<1>7. coming = (last + 1)..(last + horizon)
  <2>1. DOMAIN forecast.future = 0..(horizon - 1)
    BY <1>2 DEF FutureCalendar
  <2>2. \A h \in 0..(horizon - 1) : forecast.future[h].day = last + 1 + h
    BY <1>2, <1>5 DEF FutureCalendar, FuturePoint
  <2>3. coming = {last + 1 + h : h \in 0..(horizon - 1)}
    BY <2>1, <2>2
  <2>4. \A x \in (last + 1)..(last + horizon) :
           x - (last + 1) \in 0..(horizon - 1) /\ x = last + 1 + (x - (last + 1))
    BY <1>3, <1>4
  <2>5. \A h \in 0..(horizon - 1) : last + 1 + h \in (last + 1)..(last + horizon)
    BY <1>3, <1>4
  <2> HIDE DEF coming
  <2> QED  BY <2>3, <2>4, <2>5
<1> HIDE DEF lowest, coming
<1>8. Cardinality(forecast.recent) <= 90
  <2>1. Cardinality(lowest..last) = last - lowest + 1
    BY <1>4, <1>6, FS_Interval
  <2> QED  BY <1>4, <1>6, <2>1
<1>9. Min(lowest..last) = lowest /\ Max((last + 1)..(last + horizon)) = last + horizon
  <2>1. last + 1 \in Int /\ last + horizon \in Int /\ last + 1 <= last + horizon
    BY <1>3, <1>4
  <2>2. Min(lowest..last) = lowest
    BY <1>4, <1>6, LeastOfRange
  <2>3. Max((last + 1)..(last + horizon)) = last + horizon
    BY <2>1, LeastOfRange
  <2> QED  BY <2>2, <2>3
<1>10. /\ (lowest..last) \cap ((last + 1)..(last + horizon)) = {}
       /\ (lowest..last) \cup ((last + 1)..(last + horizon)) = lowest..(last + horizon)
  BY <1>3, <1>4, <1>6
<1> QED  BY <1>6, <1>7, <1>8, <1>9, <1>10 DEF coming

LEMMA ForecastInitInv == ForecastInit => ForecastInv
<1> SUFFICES ASSUME ForecastInit PROVE ForecastInv
  OBVIOUS
<1>1. SalesTyped
  <2>1. PICK times \in SUBSET SaleTimes : sold \in [times -> Totals]
    BY DEF ForecastInit
  <2> QED  BY <2>1, ForecastAssumption DEF SalesTyped
<1>2. days = <<>> /\ features = <<>> /\ forecast.is # "asked"
  BY DEF ForecastInit
<1> QED  BY <1>1, <1>2 DEF ForecastInv

LEMMA ForecastInvStep == ForecastInv /\ [ForecastNext]_forecastVars => ForecastInv'
<1> SUFFICES ASSUME ForecastInv, [ForecastNext]_forecastVars PROVE ForecastInv'
  OBVIOUS
<1>1. sold' = sold
  BY DEF ForecastNext, BuildDataset, GenerateFeatures, SalesForecast, TellSales, forecastVars
<1>2. SalesTyped /\ SalesTyped'
  BY <1>1 DEF ForecastInv, SalesTyped
<1>3. days' = Dataset(sold, since)' => days' = <<>> \/ RowsOf(AskedSince(since))'
  <2>1. (SalesTyped /\ days = Dataset(sold, since) /\ days # <<>> => RowsOf(AskedSince(since)))'
    BY DatasetIsRows, PTL
  <2> QED  BY <1>2, <2>1
<1>4. CASE BuildDataset
  <2>1. days' = Dataset(sold, since)' /\ features' = <<>> /\ forecast'.is # "asked"
    BY <1>1, <1>4 DEF BuildDataset
  <2> QED  BY <1>2, <1>3, <2>1 DEF ForecastInv
<1>5. CASE GenerateFeatures
  <2>1. /\ UNCHANGED <<sold, since, days, forecast>> /\ days # <<>>
        /\ features' = [d \in DOMAIN days |-> FeaturesOf(Revenues(days), d - Min(DOMAIN days))]
    BY <1>5 DEF GenerateFeatures
  <2>2. days' = <<>> \/ RowsOf(AskedSince(since))'
    BY <2>1 DEF ForecastInv, RowsOf, AskedSince
  <2>3. features' = [d \in DOMAIN days' |-> FeaturesOf(Revenues(days'), d - Min(DOMAIN days'))]
    BY <2>1
  <2> QED  BY <1>2, <2>1, <2>2, <2>3 DEF ForecastInv
<1>6. ASSUME NEW horizon \in Horizons, SalesForecast(horizon)
      PROVE  ForecastInv'
  <2>1. days' = Dataset(sold, since)' /\ features' = <<>>
    BY <1>1, <1>6 DEF SalesForecast
  <2>2. forecast'.is = "asked" =>
           /\ days' # <<>> /\ forecast'.recent = Recent(days')
           /\ forecast'.future = FutureCalendar(days', horizon)
    BY <1>6 DEF SalesForecast
  <2> QED  BY <1>2, <1>3, <2>1, <2>2 DEF ForecastInv
<1>7. ASSUME NEW hint \in Hints, TellSales(hint)
      PROVE  ForecastInv'
  <2>1. days' = <<>> /\ features' = <<>> /\ forecast'.is # "asked"
    BY <1>7 DEF TellSales
  <2> QED  BY <1>2, <2>1 DEF ForecastInv
<1>8. CASE UNCHANGED forecastVars
  <2>1. UNCHANGED <<sold, since, days, features, forecast>>
    BY <1>8 DEF forecastVars
  <2>2. days' = <<>> \/ RowsOf(AskedSince(since))'
    BY <2>1 DEF ForecastInv, RowsOf, AskedSince
  <2> QED  BY <1>2, <2>1, <2>2 DEF ForecastInv
<1> QED  BY <1>4, <1>5, <1>6, <1>7, <1>8 DEF ForecastNext

\* A forecast rests on all that was sold, each sale on its day by the clock of
\* Colombo, on nothing that is yet to be sold, and asks for the days that
\* follow (buildDataset, generateFeatures and salesForecast).
THEOREM ForecastsRestOnThePast == ForecastSpec => []ForecastsFromThePast
<1>1. ForecastInv => ForecastsFromThePast
  <2> SUFFICES ASSUME ForecastInv PROVE DatasetIsComplete /\ NoLookAhead
    BY DEF ForecastsFromThePast
  <2>1. CASE days = <<>>
    <3>1. forecast.is # "asked" /\ DOMAIN days = {}
      BY <2>1 DEF ForecastInv
    <3> QED  BY <2>1, <3>1, NothingLeaks DEF DatasetIsComplete
  <2>2. CASE days # <<>>
    <3>1. SalesTyped /\ RowsOf(AskedSince(since))
      BY <2>2 DEF ForecastInv
    <3>2. DatasetIsComplete
      BY <3>1, RowsAreComplete, ForecastFollows DEF DatasetIsComplete, AskedSince
    <3> QED  BY <3>2, NothingLeaks
  <2> QED  BY <2>1, <2>2
<1> QED  BY <1>1, ForecastInitInv, ForecastInvStep, PTL DEF ForecastSpec

-----------------------------------------------------------------------------
(* Proofs about advice.  The shop's own list is taken from an order in     *)
(* which no product comes twice, and of products that were not left out;   *)
(* what is left out was read after the question, and customers only buy    *)
(* more.                                                                   *)

\* An order of some products: none comes twice.
Order(ranking, set) ==
    /\ ranking \in Seq(set)
    /\ \A i, j \in DOMAIN ranking : i # j => ranking[i] # ranking[j]

LEMMA OrdersOfSet ==
    ASSUME NEW set, IsFiniteSet(set), NEW ranking \in SetToSeqs(set)
    PROVE  Order(ranking, set)
<1>1. Cardinality(set) \in Nat
  BY FS_CardinalityType
<1>2. ranking \in [1..Cardinality(set) -> set]
  BY DEF SetToSeqs
<1>3. \A i, j \in 1..Cardinality(set) : i # j => ranking[i] # ranking[j]
  BY DEF SetToSeqs
<1>4. ranking \in Seq(set) /\ DOMAIN ranking = 1..Cardinality(set)
  BY <1>1, <1>2
<1> QED  BY <1>3, <1>4 DEF Order

\* The first n are as many at most, of the same products.
LEMMA TopOfList ==
    ASSUME NEW set, NEW list \in Seq(set), NEW n \in Nat
    PROVE  /\ Top(list, n) \in Seq(set) /\ Len(Top(list, n)) <= n
           /\ Order(list, set) => Order(Top(list, n), set)
<1> DEFINE m == IF Len(list) < n THEN Len(list) ELSE n
<1>1. m \in Nat /\ m <= n /\ m <= Len(list)
  OBVIOUS
<1>2. Top(list, n) = SubSeq(list, 1, m)
  BY DEF Top
<1> HIDE DEF m
<1>3. PICK k \in Nat : k = m
  BY <1>1
<1>4. \A i \in 1..k : list[i] \in set
  BY <1>1, <1>3
<1>5. /\ SubSeq(list, 1, k) \in Seq(set)
      /\ Len(SubSeq(list, 1, k)) = k
      /\ \A i \in 1..k : SubSeq(list, 1, k)[i] = list[i]
  BY <1>1, <1>3, <1>4
<1>6. DOMAIN SubSeq(list, 1, k) = 1..k
  BY <1>5
<1> QED  BY <1>1, <1>2, <1>3, <1>5, <1>6 DEF Order

\* The places of a list that are in a set go up by one at most.
LEMMA PlacesGoUp ==
    ASSUME NEW S, NEW list \in Seq(S), NEW set
    PROVE  /\ Place(list, set, 0) = 0
           /\ \A i \in 0..Len(list) : Place(list, set, i) \in Nat
           /\ \A i \in 1..Len(list) :
                 Place(list, set, i) = Place(list, set, i - 1) +
                                          IF list[i] \in set THEN 1 ELSE 0
<1>1. Place(list, set, 0) = 0
  <2>1. {j \in 1..0 : list[j] \in set} = {}
    OBVIOUS
  <2> QED  BY <2>1, FS_EmptySet DEF Place
<1>2. \A i \in 0..Len(list) : IsFiniteSet({j \in 1..i : list[j] \in set})
  <2> TAKE i \in 0..Len(list)
  <2>1. IsFiniteSet(1..i)
    BY FS_Interval
  <2> QED  BY <2>1, FS_Subset
<1>3. \A i \in 0..Len(list) : Place(list, set, i) \in Nat
  BY <1>2, FS_CardinalityType DEF Place
<1>4. ASSUME NEW i \in 1..Len(list)
      PROVE  Place(list, set, i) = Place(list, set, i - 1) + IF list[i] \in set THEN 1 ELSE 0
  <2> DEFINE s == {j \in 1..i - 1 : list[j] \in set}
  <2>1. IsFiniteSet(s) /\ i \notin s
    BY <1>2
  <2>2. CASE list[i] \in set
    <3>1. {j \in 1..i : list[j] \in set} = s \cup {i}
      BY <2>2
    <3>2. Cardinality(s \cup {i}) = Cardinality(s) + 1
      BY <2>1, FS_AddElement
    <3> QED  BY <2>2, <3>1, <3>2 DEF Place
  <2>3. CASE list[i] \notin set
    <3>1. {j \in 1..i : list[j] \in set} = s
      BY <2>3
    <3>2. Place(list, set, i - 1) \in Nat
      BY <1>3
    <3>3. Place(list, set, i) = Place(list, set, i - 1)
      BY <3>1 DEF Place
    <3> QED  BY <2>3, <3>2, <3>3
  <2> QED  BY <2>2, <2>3
<1> QED  BY <1>1, <1>3, <1>4

\* So every number up to the last is the place of an element of the set.
LEMMA PlaceOf ==
    ASSUME NEW S, NEW list \in Seq(S), NEW set, NEW k \in 1..Place(list, set, Len(list))
    PROVE  \E i \in DOMAIN list : list[i] \in set /\ Place(list, set, i) = k
<1> DEFINE P(i) == Place(list, set, i)
<1>1. /\ P(0) = 0
      /\ \A i \in 0..Len(list) : P(i) \in Nat
      /\ \A i \in 1..Len(list) : P(i) = P(i - 1) + IF list[i] \in set THEN 1 ELSE 0
  BY PlacesGoUp
<1> DEFINE reached == {i \in 0..Len(list) : P(i) >= k}
<1>2. Len(list) \in reached /\ reached \in SUBSET Nat
  BY <1>1
<1>3. PICK i \in reached : \A j \in reached : i <= j
  <2>1. reached # {} /\ reached \in SUBSET Int
    BY <1>2
  <2>2. IsFiniteSet(0..Len(list))
    BY FS_Interval
  <2>3. IsFiniteSet(reached)
    BY <2>2, FS_Subset
  <2> HIDE DEF reached
  <2> QED  BY <2>1, <2>3, LeastOf
<1>4. i \in 1..Len(list) /\ P(i) >= k
  BY <1>1, <1>3
<1>5. P(i - 1) < k
  <2>1. i - 1 \in 0..Len(list) /\ i - 1 \notin reached
    BY <1>3, <1>4
  <2> QED  BY <1>1, <2>1
<1> HIDE DEF P, reached
<1>6. list[i] \in set /\ P(i) = k
  <2>1. P(i) \in Nat /\ P(i - 1) \in Nat
    BY <1>1, <1>4
  <2>2. P(i) = P(i - 1) + IF list[i] \in set THEN 1 ELSE 0
    BY <1>1, <1>4
  <2>3. list[i] \in set
    BY <1>4, <1>5, <2>1, <2>2
  <2> QED  BY <1>4, <1>5, <2>1, <2>2, <2>3
<1>7. i \in DOMAIN list
  BY <1>4
<1> QED  BY <1>6, <1>7 DEF P

\* Filtering keeps the order, and what is in the set only.
LEMMA OnlyOfList ==
    ASSUME NEW S, NEW list \in Seq(S), NEW set
    PROVE  /\ Only(list, set) \in Seq(S \cap set)
           /\ Order(list, S) => Order(Only(list, set), S \cap set)
<1> DEFINE At(k) == CHOOSE i \in DOMAIN list : list[i] \in set /\ Place(list, set, i) = k
<1>0. Len(list) \in 0..Len(list)
  OBVIOUS
<1>1. PICK m \in Nat : m = Place(list, set, Len(list))
  <2>1. \A i \in 0..Len(list) : Place(list, set, i) \in Nat
    BY PlacesGoUp
  <2> QED  BY <1>0, <2>1
<1>2. \A k \in 1..m : At(k) \in DOMAIN list /\ list[At(k)] \in set /\ Place(list, set, At(k)) = k
  BY <1>1, PlaceOf
<1>3. Only(list, set) = [k \in 1..m |-> list[At(k)]]
  BY <1>1 DEF Only
<1> HIDE DEF At
<1>4. \A k \in 1..m : list[At(k)] \in S \cap set
  BY <1>2
<1>5. [k \in 1..m |-> list[At(k)]] \in Seq(S \cap set)
  BY <1>4
<1>6. ASSUME Order(list, S) PROVE Order(Only(list, set), S \cap set)
  <2>1. \A j, k \in 1..m : j # k => At(j) # At(k)
    BY <1>2
  <2>2. \A j, k \in 1..m : j # k => list[At(j)] # list[At(k)]
    BY <1>2, <1>6, <2>1 DEF Order
  <2>3. DOMAIN Only(list, set) = 1..m
    BY <1>3
  <2> QED  BY <1>3, <1>5, <2>2, <2>3 DEF Order
<1> QED  BY <1>3, <1>5, <1>6

\* An order names as many products as it is long.
LEMMA OrderNames ==
    ASSUME NEW set, NEW ranking, Order(ranking, set)
    PROVE  Cardinality(ToSet(ranking)) = Len(ranking) /\ ToSet(ranking) \subseteq set
<1>1. ranking \in Seq(set) /\ Len(ranking) \in Nat /\ DOMAIN ranking = 1..Len(ranking)
  BY DEF Order
<1>2. ranking \in Bijection(1..Len(ranking), ToSet(ranking))
  <2>1. ranking \in [1..Len(ranking) -> ToSet(ranking)]
    BY <1>1 DEF ToSet
  <2>2. \A i, j \in 1..Len(ranking) : ranking[i] = ranking[j] => i = j
    BY <1>1 DEF Order
  <2>3. \A x \in ToSet(ranking) : \E i \in 1..Len(ranking) : ranking[i] = x
    BY <1>1 DEF ToSet
  <2> QED  BY <2>1, <2>2, <2>3 DEF Bijection, Injection, Surjection, IsInjective
<1>3. ExistsBijection(1..Len(ranking), ToSet(ranking))
  BY <1>2 DEF ExistsBijection
<1>4. Cardinality(ToSet(ranking)) = Len(ranking)
  BY <1>1, <1>3, FS_CountingElements
<1>5. ToSet(ranking) \subseteq set
  BY <1>1 DEF ToSet
<1> QED  BY <1>4, <1>5

-----------------------------------------------------------------------------
(* The question being answered.                                            *)

Owners == {"CUSTOMER", "LOYALTY"}

Question == [
    at : {"idle", "model", "purchases", "ranking", "products", "answered"},
    context : Contexts \cup {"LOYALTY", "none"},
    customer : Shoppers \cup {"none"},
    about : SUBSET Goods, byId : SUBSET Goods, n : Nat, had : SUBSET Goods,
    excluded : SUBSET Goods, ranked : Seq(Goods), list : Seq(Goods),
    from : {"none", "model", "shop", "ok", "badRequest", "notFound", "unavailable", "error",
            "answered", "failed"}]

\* What the customer had is what the customer has, until that is read.
PurchasesGrow ==
    advice.context \in Owners =>
        /\ advice.customer \in Shoppers
        /\ advice.at \in {"model", "purchases"} =>
               advice.had \subseteq Purchased(bought, advice.customer)

\* What the question is about, and what the customer had, is left out.
LeftOutSeen ==
    advice.at \in {"ranking", "products"} =>
        /\ advice.byId \subseteq advice.excluded
        /\ advice.context \in Owners => advice.had \subseteq advice.excluded

RankedSeen == advice.at = "products" => Order(advice.ranked, Goods \ advice.excluded)

AdviceInv ==
    /\ bought \in [Shoppers -> [Goods -> Nat]]
    /\ advice \in Question
    /\ advice.context = "LOYALTY" => advice.byId = {}
    /\ PurchasesGrow
    /\ LeftOutSeen
    /\ RankedSeen
    /\ AdviceIsNew

LEMMA NoQuestionOK ==
    /\ NoQuestion \in Question /\ NoQuestion.at = "idle" /\ NoQuestion.context = "none"
    /\ NoQuestion.byId = {} /\ NoQuestion.list = <<>>
  BY DEF NoQuestion, Question

LEMMA AdviceInitInv == AdviceInit => AdviceInv
<1> SUFFICES ASSUME AdviceInit PROVE AdviceInv
  OBVIOUS
<1>1. bought \in [Shoppers -> [Goods -> Nat]]
  BY DEF AdviceInit
<1>2. advice = NoQuestion
  BY DEF AdviceInit
<1> QED
  BY <1>1, <1>2, NoQuestionOK
  DEF AdviceInv, PurchasesGrow, LeftOutSeen, RankedSeen, AdviceIsNew, Owners

\* What the replies are called: none is called the shop's.
LEMMA RepliesNamed ==
    /\ \A known, priced, history, wellFormed \in BOOLEAN, status \in Statuses :
           ForecastReply(known, priced, history, status, wellFormed) \in
               {"notFound", "badRequest", "unavailable", "error", "ok"}
    /\ \A statuses : OverviewReply(statuses) \in {"failed", "answered"}
<1>1. \A status \in Statuses :
          Classified(status) \in {"notFound", "badRequest", "unavailable", "error", "ok"}
  BY DEF Statuses, Classified
<1> QED  BY <1>1 DEF ForecastReply, OverviewReply

\* A question is asked.
LEMMA AskStep ==
    ASSUME AdviceInv, UNCHANGED bought,
           advice' \in Question, advice'.at \in {"idle", "model", "purchases"},
           advice'.context = "LOYALTY" => advice'.byId = {},
           advice'.context \in Owners =>
               /\ advice'.customer \in Shoppers
               /\ advice'.had = Purchased(bought, advice'.customer)
    PROVE  AdviceInv'
  BY DEF AdviceInv, PurchasesGrow, LeftOutSeen, RankedSeen, AdviceIsNew

LEMMA AdviceInvStep == AdviceInv /\ [AdviceNext]_adviceVars => AdviceInv'
<1> SUFFICES ASSUME AdviceInv, [AdviceNext]_adviceVars PROVE AdviceInv'
  OBVIOUS
<1> USE DEF PurchasesGrow, LeftOutSeen, RankedSeen, Owners
<1>t. /\ bought \in [Shoppers -> [Goods -> Nat]] /\ advice \in Question
      /\ advice.context = "LOYALTY" => advice.byId = {}
      /\ IsFiniteSet(Goods)
  BY AdviceAssumption DEF AdviceInv
<1>p. \A b, customer : Purchased(b, customer) \subseteq Goods
  BY DEF Purchased
<1>1. CASE UNCHANGED adviceVars
  BY <1>1 DEF adviceVars, AdviceInv, AdviceIsNew, Purchased, Order
<1>2. ASSUME NEW context \in Contexts, NEW customer \in Shoppers,
             NEW about \in SUBSET Goods, NEW byId \in SUBSET Goods, NEW n \in {1, 2},
             AskAdvice(context, customer, about, byId, n)
      PROVE  AdviceInv'
  <2>1. advice' = [NoQuestion EXCEPT !.at = "model", !.context = context,
                      !.customer = customer, !.about = about, !.byId = byId, !.n = n,
                      !.had = Purchased(bought, customer)]
        /\ UNCHANGED bought
    BY <1>2 DEF AskAdvice
  <2>2. advice' \in Question
    <3>1. Purchased(bought, customer) \in SUBSET Goods /\ n \in Nat
      BY <1>p
    <3>2. PICK had \in SUBSET Goods : had = Purchased(bought, customer)
      BY <3>1
    <3>3. advice' = [at |-> "model", context |-> context, customer |-> customer,
                     about |-> about, byId |-> byId, n |-> n, had |-> had, excluded |-> {},
                     ranked |-> <<>>, list |-> <<>>, from |-> "none"]
      BY <2>1, <3>2 DEF NoQuestion
    <3>4. <<>> \in Seq(Goods) /\ {} \in SUBSET Goods
      OBVIOUS
    <3> QED  BY <3>1, <3>3, <3>4 DEF Question
  <2>3. /\ advice'.at = "model" /\ advice'.context = context /\ advice'.customer = customer
        /\ advice'.had = Purchased(bought, customer)
    BY <2>1 DEF NoQuestion
  <2>4. context # "LOYALTY"
    BY DEF Contexts
  <2> QED  BY <2>1, <2>2, <2>3, <2>4, AskStep
<1>3. ASSUME NEW customer \in Shoppers, NEW n \in {1, 2}, AskLoyalty(customer, n)
      PROVE  AdviceInv'
  <2>1. advice' = [NoQuestion EXCEPT !.at = "purchases", !.context = "LOYALTY",
                      !.customer = customer, !.n = n, !.had = Purchased(bought, customer)]
        /\ UNCHANGED bought
    BY <1>3 DEF AskLoyalty
  <2>2. advice' \in Question
    <3>1. Purchased(bought, customer) \in SUBSET Goods /\ n \in Nat
      BY <1>p
    <3>2. PICK had \in SUBSET Goods : had = Purchased(bought, customer)
      BY <3>1
    <3>3. advice' = [at |-> "purchases", context |-> "LOYALTY", customer |-> customer,
                     about |-> {}, byId |-> {}, n |-> n, had |-> had, excluded |-> {},
                     ranked |-> <<>>, list |-> <<>>, from |-> "none"]
      BY <2>1, <3>2 DEF NoQuestion
    <3>4. <<>> \in Seq(Goods) /\ {} \in SUBSET Goods
      OBVIOUS
    <3> QED  BY <3>1, <3>3, <3>4 DEF Question
  <2>3. /\ advice'.at = "purchases" /\ advice'.customer = customer /\ advice'.byId = {}
        /\ advice'.had = Purchased(bought, customer)
    BY <2>1 DEF NoQuestion
  <2> QED  BY <2>1, <2>2, <2>3, AskStep
<1>4. ASSUME NEW r \in {"notFound", "badRequest", "unavailable", "error", "ok", "failed", "answered"},
             advice' = [NoQuestion EXCEPT !.at = "answered", !.from = r], UNCHANGED bought
      PROVE  AdviceInv'
  <2>1. advice' \in Question
    BY <1>4, NoQuestionOK DEF Question
  <2>2. /\ advice'.at = "answered" /\ advice'.context = "none" /\ advice'.from # "shop"
        /\ advice'.list = <<>> /\ advice'.n = 0
    BY <1>4 DEF NoQuestion
  <2>3. ToSet(advice'.list) = {} /\ Len(advice'.list) = 0
    BY <2>2 DEF ToSet
  <2> QED  BY <1>t, <1>4, <2>1, <2>2, <2>3 DEF AdviceInv, AdviceIsNew
<1>5. ASSUME NEW known \in BOOLEAN, NEW priced \in BOOLEAN, NEW history \in BOOLEAN,
             NEW wellFormed \in BOOLEAN, NEW status \in Statuses,
             AskForecast(known, priced, history, status, wellFormed)
      PROVE  AdviceInv'
  <2>1. PICK r \in {"notFound", "badRequest", "unavailable", "error", "ok"} :
            r = ForecastReply(known, priced, history, status, wellFormed)
    BY RepliesNamed
  <2> QED  BY <1>4, <1>5, <2>1 DEF AskForecast
<1>6. ASSUME NEW statuses, AskOverview(statuses) PROVE AdviceInv'
  <2>1. PICK r \in {"failed", "answered"} : r = OverviewReply(statuses)
    BY RepliesNamed
  <2> QED  BY <1>4, <1>6, <2>1 DEF AskOverview
<1>7. ASSUME NEW q, q = [advice EXCEPT !.at = "purchases"], advice.at = "model",
             advice' = q, UNCHANGED bought
      PROVE  AdviceInv'
  <2>1. advice' \in Question /\ advice'.at = "purchases"
        /\ advice'.context = advice.context /\ advice'.byId = advice.byId
        /\ advice'.customer = advice.customer /\ advice'.had = advice.had
    BY <1>t, <1>7 DEF Question
  <2> QED  BY <1>t, <1>7, <2>1 DEF AdviceInv, AdviceIsNew, Purchased
<1>8. CASE ModelFails
  BY <1>7, <1>8 DEF ModelFails
<1>9. ASSUME NEW list \in BoundedSeq(Goods \cup {Alien}, 2), ModelRecommends(list)
      PROVE  AdviceInv'
  <2> DEFINE grounded == Grounded(shelf, list)
  <2>1. CASE grounded = <<>>
    BY <1>7, <1>9, <2>1 DEF ModelRecommends
  <2>2. CASE grounded # <<>>
    <3>1. list \in Seq(Goods \cup {Alien})
      <4>1. PICK m \in 0..2 : list \in [1..m -> Goods \cup {Alien}]
        BY DEF BoundedSeq, SeqOf
      <4> QED  BY <4>1
    <3>2. grounded \in Seq((Goods \cup {Alien}) \cap {good \in Goods : shelf[good].active})
      BY <3>1, OnlyOfList DEF Grounded
    <3>3. grounded \in Seq(Goods)
      BY <3>2
    <3> HIDE DEF grounded
    <3>4. PICK l \in Seq(Goods) : l = Top(grounded, advice.n) /\ Len(l) <= advice.n
      BY <1>t, <3>3, TopOfList DEF Question
    <3>5. advice' = [advice EXCEPT !.at = "answered", !.from = "model", !.list = l]
          /\ UNCHANGED bought
      BY <1>9, <2>2, <3>4 DEF ModelRecommends, grounded
    <3>6. advice' \in Question /\ advice'.at = "answered" /\ advice'.from = "model"
          /\ advice'.list = l /\ advice'.n = advice.n /\ advice'.byId = advice.byId
          /\ advice'.context = advice.context /\ advice'.customer = advice.customer
      BY <1>t, <3>5 DEF Question
    <3>7. ToSet(l) \subseteq Goods
      BY DEF ToSet
    <3> QED  BY <1>t, <3>4, <3>5, <3>6, <3>7 DEF AdviceInv, AdviceIsNew
  <2> QED  BY <2>1, <2>2
<1>10. CASE ReadPurchases
  <2>1. PICK e : e = LeftOut(advice, bought)
    OBVIOUS
  <2>2. e \subseteq Goods /\ advice.byId \subseteq e
        /\ (advice.context \in Owners => Purchased(bought, advice.customer) \subseteq e)
    BY <1>t, <1>p, <2>1 DEF LeftOut, Question
  <2>3. advice.at = "purchases" /\ advice' = [advice EXCEPT !.at = "ranking", !.excluded = e]
        /\ UNCHANGED bought
    BY <1>10, <2>1 DEF ReadPurchases
  <2>4. advice' \in Question /\ advice'.at = "ranking" /\ advice'.excluded = e
        /\ advice'.context = advice.context /\ advice'.byId = advice.byId
        /\ advice'.customer = advice.customer /\ advice'.had = advice.had
    BY <1>t, <2>2, <2>3 DEF Question
  <2> QED  BY <1>t, <2>2, <2>3, <2>4 DEF AdviceInv, AdviceIsNew
<1>11. CASE ReadRanking
  <2>1. PICK ranking \in Rankings(bought, advice.excluded) :
            advice' = [advice EXCEPT !.at = "products",
                          !.ranked = IF advice.context = "LOYALTY" THEN Top(ranking, advice.n)
                                     ELSE ranking]
    BY <1>11 DEF ReadRanking
  <2>2. advice.at = "ranking" /\ UNCHANGED bought
    BY <1>11 DEF ReadRanking
  <2> DEFINE some == {good \in Goods \ advice.excluded : Sold(bought, good) > 0}
  <2>3. IsFiniteSet(some)
    BY <1>t, FS_Subset
  <2>4. ranking \in SetToSeqs(some)
    BY DEF Rankings
  <2>5. Order(ranking, some)
    BY <2>3, <2>4, OrdersOfSet
  <2>6. Order(ranking, Goods \ advice.excluded)
    BY <2>5 DEF Order
  <2>7. Order(Top(ranking, advice.n), Goods \ advice.excluded)
    <3>1. ranking \in Seq(Goods \ advice.excluded) /\ advice.n \in Nat
      BY <1>t, <2>6 DEF Order, Question
    <3> QED  BY <2>6, <3>1, TopOfList
  <2>8. PICK l : l = IF advice.context = "LOYALTY" THEN Top(ranking, advice.n) ELSE ranking
    OBVIOUS
  <2>9. Order(l, Goods \ advice.excluded)
    BY <2>6, <2>7, <2>8
  <2>10. l \in Seq(Goods)
    BY <2>9 DEF Order
  <2>11. advice' = [advice EXCEPT !.at = "products", !.ranked = l]
    BY <2>1, <2>8
  <2>12. advice' \in Question /\ advice'.at = "products" /\ advice'.ranked = l
         /\ advice'.excluded = advice.excluded
         /\ advice'.context = advice.context /\ advice'.byId = advice.byId
         /\ advice'.customer = advice.customer /\ advice'.had = advice.had
    BY <1>t, <2>10, <2>11 DEF Question
  <2> QED  BY <1>t, <2>2, <2>9, <2>12 DEF AdviceInv, AdviceIsNew
<1>12. ASSUME NEW l, NEW S \in SUBSET Goods, Order(l, S), Len(l) <= advice.n,
              advice.at = "products", UNCHANGED bought,
              advice' = [advice EXCEPT !.at = "answered", !.from = "shop", !.list = l],
              S \cap advice.byId = {},
              advice.context = "CUSTOMER" \/ (advice.context = "LOYALTY" /\ advice.ranked # <<>>)
                  => S \cap advice.had = {}
       PROVE  AdviceInv'
  <2>1. l \in Seq(Goods)
    BY <1>12 DEF Order
  <2>2. advice' \in Question /\ advice'.at = "answered" /\ advice'.from = "shop"
        /\ advice'.list = l /\ advice'.n = advice.n /\ advice'.byId = advice.byId
        /\ advice'.context = advice.context /\ advice'.customer = advice.customer
        /\ advice'.had = advice.had /\ advice'.ranked = advice.ranked
    BY <1>t, <1>12, <2>1 DEF Question
  <2>3. Cardinality(ToSet(l)) = Len(l) /\ ToSet(l) \subseteq S
    BY <1>12, OrderNames
  <2> QED  BY <1>t, <1>12, <2>2, <2>3 DEF AdviceInv, AdviceIsNew
<1>13. CASE ReadProducts
  <2> DEFINE new == Goods \ advice.excluded
             able == {good \in Goods : shelf[good].active /\ shelf[good].stock > 0}
  <2>1. PICK ranking \in IF advice.ranked # <<>> THEN {advice.ranked} ELSE SetToSeqs(new) :
            advice' = [advice EXCEPT !.at = "answered", !.from = "shop",
                                     !.list = Kept(shelf, ranking, advice.n)]
    BY <1>13 DEF ReadProducts
  <2>2. advice.at = "products" /\ advice.context # "LOYALTY" /\ UNCHANGED bought
    BY <1>13 DEF ReadProducts
  <2>3. IsFiniteSet(new)
    BY <1>t, FS_Subset
  <2>4. Order(ranking, new)
    BY <2>1, <2>2, <2>3, OrdersOfSet DEF AdviceInv
  <2>5. ranking \in Seq(new)
    BY <2>4 DEF Order
  <2>6. Order(Only(ranking, able), new \cap able)
    BY <2>4, <2>5, OnlyOfList
  <2>7. Only(ranking, able) \in Seq(new \cap able)
    BY <2>6 DEF Order
  <2>8. advice.n \in Nat
    BY <1>t DEF Question
  <2>9. PICK l : l = Kept(shelf, ranking, advice.n)
    OBVIOUS
  <2>10. Order(l, new \cap able) /\ Len(l) <= advice.n
    BY <2>6, <2>7, <2>8, <2>9, TopOfList DEF Kept
  <2>11. (new \cap able) \cap advice.byId = {}
         /\ (advice.context \in Owners => (new \cap able) \cap advice.had = {})
    BY <2>2 DEF AdviceInv
  <2> HIDE DEF new, able
  <2>12. new \cap able \in SUBSET Goods
    BY DEF new
  <2> QED  BY <1>12, <2>1, <2>2, <2>9, <2>10, <2>11, <2>12
<1>14. CASE ReadLoyalty
  <2> DEFINE shown == {good \in Goods : /\ shelf[good].active
                                        /\ \/ advice.ranked = <<>>
                                           \/ good \in ToSet(advice.ranked)}
  <2>1. PICK ranking \in SetToSeqs(shown) :
            advice' = [advice EXCEPT !.at = "answered", !.from = "shop",
                                     !.list = Top(ranking, advice.n)]
    BY <1>14 DEF ReadLoyalty
  <2>2. advice.at = "products" /\ advice.context = "LOYALTY" /\ UNCHANGED bought
    BY <1>14 DEF ReadLoyalty
  <2>3. IsFiniteSet(shown)
    BY <1>t, FS_Subset
  <2>4. Order(ranking, shown) /\ advice.n \in Nat
    BY <1>t, <2>1, <2>3, OrdersOfSet DEF Question
  <2>5. ranking \in Seq(shown)
    BY <2>4 DEF Order
  <2>6. PICK l : l = Top(ranking, advice.n)
    OBVIOUS
  <2>7. Order(l, shown) /\ Len(l) <= advice.n
    BY <2>4, <2>5, <2>6, TopOfList
  <2>8. advice.ranked # <<>> => shown \cap advice.had = {}
    <3>1. ToSet(advice.ranked) \subseteq Goods \ advice.excluded
      BY <2>2, OrderNames DEF AdviceInv
    <3> QED  BY <2>2, <3>1 DEF AdviceInv
  <2>9. shown \cap advice.byId = {} /\ shown \in SUBSET Goods
    BY <1>t, <2>2
  <2> HIDE DEF shown
  <2> QED  BY <1>12, <2>1, <2>2, <2>6, <2>7, <2>8, <2>9
<1>15. CASE CloseAdvice
  BY <1>15, NoQuestionOK, AskStep DEF CloseAdvice
<1>16. ASSUME NEW customer \in Shoppers, NEW good \in Goods, SellGood(customer, good)
       PROVE  AdviceInv'
  <2>1. /\ bought' = [bought EXCEPT ![customer][good] = @ + 1] /\ UNCHANGED advice
    BY <1>16 DEF SellGood
  <2>2. bought' \in [Shoppers -> [Goods -> Nat]]
    BY <1>t, <2>1
  <2>3. \A c \in Shoppers, g \in Goods : bought'[c][g] >= bought[c][g]
    BY <1>t, <2>1
  <2>4. \A c \in Shoppers : Purchased(bought, c) \subseteq Purchased(bought', c)
    BY <1>t, <2>2, <2>3 DEF Purchased
  <2> QED  BY <2>1, <2>2, <2>4 DEF AdviceInv, AdviceIsNew, Order
<1>17. ASSUME NEW good \in Goods, ArchiveGood(good) PROVE AdviceInv'
  <2>1. UNCHANGED <<bought, advice>>
    BY <1>17 DEF ArchiveGood
  <2> QED  BY <2>1 DEF AdviceInv, AdviceIsNew, Purchased, Order
<1>18. ASSUME NEW customer \in Shoppers, NEW good \in Goods, NEW restocked \in BOOLEAN,
              RefundGood(customer, good, restocked)
       PROVE  AdviceInv'
  <2>1. /\ bought[customer][good] > 0
        /\ bought' = [bought EXCEPT ![customer][good] = @ - 1]
        /\ advice' = IF customer = advice.customer /\ bought[customer][good] = 1
                     THEN [advice EXCEPT !.had = @ \ {good}] ELSE advice
    BY <1>18 DEF RefundGood
  <2>2. bought' \in [Shoppers -> [Goods -> Nat]]
    BY <1>t, <2>1
  <2>3. PICK had \in SUBSET Goods :
            /\ advice' = [advice EXCEPT !.had = had] /\ had \subseteq advice.had
            /\ customer = advice.customer /\ bought[customer][good] = 1 => good \notin had
    <3>1. CASE customer = advice.customer /\ bought[customer][good] = 1
      <4>1. advice.had \ {good} \in SUBSET Goods
        BY <1>t DEF Question
      <4> QED  BY <2>1, <3>1, <4>1
    <3>2. CASE ~(customer = advice.customer /\ bought[customer][good] = 1)
      <4>1. advice.had \in SUBSET Goods /\ advice = [advice EXCEPT !.had = advice.had]
        BY <1>t DEF Question
      <4> QED  BY <2>1, <3>2, <4>1
    <3> QED  BY <3>1, <3>2
  <2>4. /\ advice' \in Question /\ advice'.had = had
        /\ advice'.at = advice.at /\ advice'.context = advice.context
        /\ advice'.customer = advice.customer /\ advice'.byId = advice.byId
        /\ advice'.n = advice.n /\ advice'.excluded = advice.excluded
        /\ advice'.ranked = advice.ranked /\ advice'.list = advice.list
        /\ advice'.from = advice.from
    BY <1>t, <2>3 DEF Question
  <2>5. \A c \in Shoppers, g \in Goods :
            bought'[c][g] = IF c = customer /\ g = good THEN bought[c][g] - 1 ELSE bought[c][g]
    BY <1>t, <2>1
  <2>6. \A c \in Shoppers : \A g \in Purchased(bought, c) :
            g \in Purchased(bought', c) \/ (c = customer /\ g = good /\ bought[c][g] = 1)
    BY <1>t, <2>5 DEF Purchased
  <2>7. PurchasesGrow'
    <3> SUFFICES ASSUME advice.context \in Owners, advice.at \in {"model", "purchases"}
                 PROVE  had \subseteq Purchased(bought', advice.customer)
      BY <2>4 DEF AdviceInv
    <3>1. advice.customer \in Shoppers /\ advice.had \subseteq Purchased(bought, advice.customer)
      BY DEF AdviceInv
    <3> QED  BY <2>3, <2>6, <3>1
  <2>8. LeftOutSeen' /\ RankedSeen' /\ AdviceIsNew'
    BY <2>3, <2>4 DEF AdviceInv, AdviceIsNew, Order
  <2> QED  BY <1>t, <2>2, <2>4, <2>7, <2>8 DEF AdviceInv
<1> QED
  BY <1>1, <1>2, <1>3, <1>5, <1>6, <1>8, <1>9, <1>10, <1>11, <1>13, <1>14, <1>15, <1>16, <1>17,
     <1>18
  DEF AdviceNext

\* The shop's own recommendations name no product twice, none the question is
\* about and none the customer had bought, whatever is sold, refunded or archived
\* between the reads (getRecommendations, localRecommendations and loyalty).
THEOREM AdviceStaysNew == AdviceSpec => []AdviceIsNew
<1>1. AdviceInv => AdviceIsNew
  BY DEF AdviceInv
<1> QED  BY <1>1, AdviceInitInv, AdviceInvStep, PTL DEF AdviceSpec

-----------------------------------------------------------------------------
(* What every variable may hold.  The invariants above say it of the       *)
(* variables their arguments need; the rest is what requests hold, how far *)
(* counters go and what was noted of them, service by service: first staff *)
(* and roles.                                                              *)

\* What is counted and noted of the roles.
StaffCounts ==
    /\ demoted \in BOOLEAN /\ outdated \in BOOLEAN
    /\ regranted \subseteq Roles /\ writes \in 0..MaxWrites

LEMMA StaffCountsStep == StaffCounts /\ [StaffNext]_staffVars => StaffCounts'
<1> SUFFICES ASSUME StaffCounts, [StaffNext]_staffVars PROVE StaffCounts'
  OBVIOUS
<1> USE StaffAssumption
<1>1. ASSUME UNCHANGED <<demoted, outdated, regranted, writes>>
      PROVE  StaffCounts'
  BY <1>1 DEF StaffCounts
<1>2. ASSUME writes < MaxWrites, writes' = writes + 1
      PROVE  writes' \in 0..MaxWrites
  BY <1>2 DEF StaffCounts
<1>3. ASSUME NEW k \in StaffRequests, CommitCreate(k)
      PROVE  StaffCounts'
  <2>1. writes < MaxWrites /\ writes' = writes + 1 /\ UNCHANGED <<demoted, outdated, regranted>>
    BY <1>3 DEF CommitCreate, Write
  <2> QED  BY <1>2, <2>1 DEF StaffCounts
<1>4. ASSUME NEW k \in StaffRequests, CommitUpdateAccess(k)
      PROVE  StaffCounts'
  <2>1. writes < MaxWrites /\ writes' = writes + 1 /\ UNCHANGED regranted
    BY <1>4 DEF CommitUpdateAccess, Write
  <2>2. demoted' \in BOOLEAN /\ outdated' \in BOOLEAN
    BY <1>4 DEF CommitUpdateAccess
  <2> QED  BY <1>2, <2>1, <2>2 DEF StaffCounts
<1>5. ASSUME NEW k \in StaffRequests, CommitRemove(k)
      PROVE  StaffCounts'
  <2>1. writes < MaxWrites /\ writes' = writes + 1 /\ UNCHANGED <<demoted, regranted>>
    BY <1>5 DEF CommitRemove, Write
  <2>2. outdated' \in BOOLEAN
    BY <1>5 DEF CommitRemove
  <2> QED  BY <1>2, <2>1, <2>2 DEF StaffCounts
<1>6. ASSUME NEW k \in StaffRequests, NEW sent \in BOOLEAN, Mail(k, sent)
      PROVE  StaffCounts'
  <2>1. UNCHANGED <<demoted, regranted, writes>>
    BY <1>6 DEF Mail
  <2>2. outdated' \in BOOLEAN
    BY <1>6 DEF Mail
  <2> QED  BY <2>1, <2>2 DEF StaffCounts
<1>7. ASSUME NEW a \in Employees, NEW r \in Roles, NEW g \in Grants, UpdateRole(a, r, g)
      PROVE  StaffCounts'
  <2>1. writes < MaxWrites /\ writes' = writes + 1 /\ UNCHANGED <<demoted, outdated>>
    BY <1>7 DEF UpdateRole, Write
  <2>2. regranted' = regranted \cup {r}
    BY <1>7 DEF UpdateRole
  <2> QED  BY <1>2, <2>1, <2>2 DEF StaffCounts
<1> QED
  BY <1>1, <1>3, <1>4, <1>5, <1>6, <1>7
  DEF StaffNext, staffVars, BeginCreate, BeginUpdateAccess, BeginRemove, Ask, Refuse

LEMMA StaffTypes == StaffInv /\ SuperInv /\ StaffCounts => StaffTypeOK
<1> SUFFICES ASSUME StaffInv, SuperInv, StaffCounts PROVE StaffTypeOK
  OBVIOUS
<1>1. DOMAIN asked = StaffRequests /\ \A k \in StaffRequests : StaffRequestOK(asked[k])
  BY DEF StaffInv, StaffTyped, StaffRequest, Creation, Update, Removal, StaffRequestOK, AllRoles
<1> QED
  BY <1>1 DEF StaffTypeOK, StaffInv, StaffTyped, SuperInv, StaffRows, StaffCounts, AllRoles

\* The variables of staff and roles keep their types.
LEMMA StaffTypesKept == StaffSpec => []StaffTypeOK
<1>1. ASSUME StaffInit PROVE StaffCounts
  <2>1. demoted = FALSE /\ outdated = FALSE /\ regranted = {} /\ writes = 0
    BY <1>1 DEF StaffInit
  <2>2. writes \in 0..MaxWrites
    BY <2>1, StaffAssumption
  <2> QED  BY <2>1, <2>2 DEF StaffCounts
<1>2. StaffInv /\ SuperInv /\ [StaffNext]_staffVars => StaffInv' /\ SuperInv'
  BY StaffInvStep, SuperStep
<1> QED
  BY <1>1, <1>2, StaffInitInv, SuperInitInv, StaffCountsStep, StaffTypes, PTL DEF StaffSpec

-----------------------------------------------------------------------------
(* Warranties: one ends on a date, whichever way its months are added.     *)

WarrantyRow ==
    {NoWarranty} \cup [status : {"PENDING"}] \cup [status : {"VOIDED"}]
    \cup [status : {"ACTIVE", "VOIDED"}, start : Dates, end : Dates, by : {"sale", "link"}]

WarrantiesTyped ==
    /\ policy \in [Policies -> {"none", "ACTIVE", "INACTIVE"}]
    /\ policyWork \in [Desks -> {Free} \cup [op : {"activate"}, policy : Policies]]
    /\ goods \in [Units -> {"stock", "sold", "returned"}]
    /\ warranty \in [Units -> WarrantyRow]
    /\ link \in [Links -> {"open", "used"}]
    /\ opened \in [Desks -> {Free} \cup [op : {"open"}, unit : Links, at : Moments]]
    /\ doubled \in BOOLEAN /\ crossed \subseteq Links

\* A warranty of Duration months from a moment ends on a date.
LEMMA EndsOnDate ==
    ASSUME NEW at \in Moments
    PROVE  at \in Dates /\ calculateWarrantyEndDate(at, Duration) \in Dates
           /\ RolledOver(at, Duration) \in Dates
<1>1. at = <<at[1], at[2]>> /\ at[1] \in 0..11 /\ at[2] \in 1..31 /\ Duration \in Nat
  BY WarrantiesAssumption
<1>2. \A month \in Int : Days(month) \in 28..31
  BY DEF Days
<1> HIDE DEF Days
<1> PICK month \in Nat : month = at[1] + Duration
  BY <1>1
<1>3. month \in 0..(11 + Duration) /\ Days(month) \in 28..31
  BY <1>1, <1>2
<1>4. \A m, d : m \in 0..(11 + Duration + 1) /\ d \in 1..31 => <<m, d>> \in Dates
  BY DEF Dates
<1>5. at \in Dates
  BY <1>1, <1>4
<1>6. calculateWarrantyEndDate(at, Duration) \in Dates
  BY <1>1, <1>3, <1>4 DEF calculateWarrantyEndDate
<1>7. RolledOver(at, Duration) \in Dates
  <2>1. CASE at[2] <= Days(month)
    BY <1>1, <1>3, <1>4, <2>1 DEF RolledOver
  <2>2. CASE ~(at[2] <= Days(month))
    BY <1>1, <1>3, <1>4, <2>2 DEF RolledOver
  <2> QED  BY <2>1, <2>2
<1> QED  BY <1>5, <1>6, <1>7

LEMMA WarrantiesTypedStep == WarrantiesTyped /\ [WarrantiesNext]_warrantyVars => WarrantiesTyped'
<1> SUFFICES ASSUME WarrantiesTyped, [WarrantiesNext]_warrantyVars PROVE WarrantiesTyped'
  OBVIOUS
<1> USE WarrantiesAssumption
<1>1. CASE UNCHANGED warrantyVars
  BY <1>1 DEF warrantyVars, WarrantiesTyped
<1>2. ASSUME NEW k \in Desks, NEW p \in Policies, BeginPolicy(k, p)
      PROVE  WarrantiesTyped'
  BY <1>2 DEF BeginPolicy, WarrantiesTyped, goodsVars
<1>3. ASSUME NEW k \in Desks, CommitPolicy(k)
      PROVE  WarrantiesTyped'
  <2>1. policyWork[k].policy \in Policies
    BY <1>3 DEF CommitPolicy, WarrantiesTyped
  <2>2. /\ policy' \in [Policies -> {"none", "ACTIVE", "INACTIVE"}]
        /\ policyWork' \in [Desks -> {Free} \cup [op : {"activate"}, policy : Policies]]
    BY <1>3, <2>1 DEF CommitPolicy, WarrantiesTyped
  <2>3. doubled' \in BOOLEAN
    BY <1>3 DEF CommitPolicy
  <2> QED  BY <1>3, <2>2, <2>3 DEF CommitPolicy, WarrantiesTyped, goodsVars
<1>4. ASSUME NEW p \in Policies, EndPolicy(p)
      PROVE  WarrantiesTyped'
  BY <1>4 DEF EndPolicy, WarrantiesTyped, goodsVars
<1>5. ASSUME NEW u \in Units, NEW at \in Moments, SellUnit(u, at)
      PROVE  WarrantiesTyped'
  <2> DEFINE w == [status |-> "ACTIVE", start |-> at, by |-> "sale",
                   end |-> calculateWarrantyEndDate(at, Duration)]
  <2>1. w \in WarrantyRow
    BY EndsOnDate DEF WarrantyRow
  <2>2. warranty' = warranty \/ warranty' = [warranty EXCEPT ![u] = w]
    BY <1>5 DEF SellUnit
  <2> HIDE DEF w
  <2>3. warranty' \in [Units -> WarrantyRow]
    BY <2>1, <2>2 DEF WarrantiesTyped
  <2> QED  BY <1>5, <2>3 DEF SellUnit, WarrantiesTyped, policyVars
<1>6. ASSUME NEW u \in Units, ReturnUnit(u)
      PROVE  WarrantiesTyped'
  <2>1. warranty[u] \in WarrantyRow
    BY DEF WarrantiesTyped
  <2>2. Voided(warranty[u]) \in WarrantyRow
    BY <2>1 DEF WarrantyRow, Voided, NoWarranty
  <2>3. warranty' \in [Units -> WarrantyRow]
    BY <1>6, <2>2 DEF ReturnUnit, WarrantiesTyped
  <2>4. crossed' \subseteq Links
    BY <1>6 DEF ReturnUnit, WarrantiesTyped
  <2> QED  BY <1>6, <2>3, <2>4 DEF ReturnUnit, WarrantiesTyped, policyVars
<1>7. ASSUME NEW k \in Desks, NEW u \in Links, NEW at \in Moments, BeginActivation(k, u, at)
      PROVE  WarrantiesTyped'
  BY <1>7 DEF BeginActivation, WarrantiesTyped, policyVars
<1>8. ASSUME NEW k \in Desks, CommitActivation(k)
      PROVE  WarrantiesTyped'
  <2>1. PICK u \in Links, at \in Moments : u = opened[k].unit /\ at = opened[k].at
    BY <1>8 DEF CommitActivation, WarrantiesTyped
  <2> DEFINE w == [status |-> "ACTIVE", start |-> at, by |-> "link",
                   end |-> RolledOver(at, Duration)]
  <2>2. w \in WarrantyRow
    BY EndsOnDate DEF WarrantyRow
  <2>3. warranty' = warranty \/ warranty' = [warranty EXCEPT ![u] = w]
    BY <1>8, <2>1 DEF CommitActivation
  <2> HIDE DEF w
  <2>4. warranty' \in [Units -> WarrantyRow]
    BY <2>2, <2>3 DEF WarrantiesTyped
  <2>5. link' \in [Links -> {"open", "used"}]
    BY <1>8, <2>1 DEF CommitActivation, WarrantiesTyped
  <2>6. opened' \in [Desks -> {Free} \cup [op : {"open"}, unit : Links, at : Moments]]
    BY <1>8 DEF CommitActivation, WarrantiesTyped
  <2> QED  BY <1>8, <2>4, <2>5, <2>6 DEF CommitActivation, WarrantiesTyped, policyVars
<1> QED
  BY <1>1, <1>2, <1>3, <1>4, <1>5, <1>6, <1>7, <1>8 DEF WarrantiesNext

\* The variables of warranties keep their types.
LEMMA WarrantiesTypesKept == WarrantiesSpec => []WarrantiesTypeOK
<1>1. ASSUME WarrantiesInit PROVE WarrantiesTyped
  <2>1. warranty \in [Units -> WarrantyRow]
    <3>1. [status |-> "PENDING"] \in WarrantyRow /\ NoWarranty \in WarrantyRow
      BY DEF WarrantyRow
    <3> QED  BY <1>1, <3>1 DEF WarrantiesInit
  <2>2. doubled \in BOOLEAN
    BY <1>1 DEF WarrantiesInit
  <2>3. /\ policy \in [Policies -> {"none", "ACTIVE", "INACTIVE"}]
        /\ goods \in [Units -> {"stock", "sold", "returned"}]
        /\ link \in [Links -> {"open", "used"}] /\ crossed \subseteq Links
    BY <1>1 DEF WarrantiesInit
  <2>4. /\ policyWork \in [Desks -> {Free} \cup [op : {"activate"}, policy : Policies]]
        /\ opened \in [Desks -> {Free} \cup [op : {"open"}, unit : Links, at : Moments]]
    BY <1>1 DEF WarrantiesInit
  <2> QED  BY <2>1, <2>2, <2>3, <2>4 DEF WarrantiesTyped
<1>2. WarrantiesTyped => WarrantiesTypeOK
  BY DEF WarrantiesTyped, WarrantiesTypeOK, WarrantyRow
<1> QED  BY <1>1, <1>2, WarrantiesTypedStep, PTL DEF WarrantiesSpec

-----------------------------------------------------------------------------
(* The media and the barcode of a product: a request goes from one kind to *)
(* the next and takes along what it read.                                  *)

Kinds == {"image", "video", "logo"}
ToPut == [op : {"put"}, kind : Kinds, old : 0..MaxObjects]
ToWrite == [op : {"write"}, kind : Kinds, old : 0..MaxObjects, object : Objects]
ToDrop == [op : {"drop"}, kind : {"image", "video"}, object : Objects]
ToUnlogo == [op : {"unlogo"}, old : 0..MaxObjects]
ToRetain == [op : {"retain"}, read : SUBSET Objects, keep : SUBSET Objects]
ToRemove == [op : {"remove"}, waste : SUBSET Objects]
UploadRequest == {Vacant} \cup ToPut \cup ToWrite \cup ToDrop \cup ToUnlogo \cup ToRetain
                 \cup ToRemove

\* The media, and what requests hold.
MediaTyped ==
    /\ objects \subseteq Objects /\ put \in 0..MaxObjects
    /\ images \subseteq Objects /\ video \subseteq Objects /\ logo \in 0..MaxObjects
    /\ upload \in [Uploaders -> UploadRequest]
    /\ adrift \subseteq Objects /\ crowded \in BOOLEAN

\* What a request may hold by its kind.
LEMMA UploadShape ==
    ASSUME MediaTyped, NEW k \in Uploaders
    PROVE  /\ upload[k] = Vacant \/ upload[k] \in ToPut \/ upload[k] \in ToWrite
              \/ upload[k] \in ToDrop \/ upload[k] \in ToUnlogo \/ upload[k] \in ToRetain
              \/ upload[k] \in ToRemove
           /\ upload[k].op = "put" => upload[k] \in ToPut
           /\ upload[k].op = "write" => upload[k] \in ToWrite
           /\ upload[k].op = "drop" => upload[k] \in ToDrop
           /\ upload[k].op = "unlogo" => upload[k] \in ToUnlogo
           /\ upload[k].op = "retain" => upload[k] \in ToRetain
           /\ upload[k].op = "remove" => upload[k] \in ToRemove
<1>1. upload[k] \in UploadRequest
  BY DEF MediaTyped
<1> QED
  BY <1>1 DEF UploadRequest, Vacant, ToPut, ToWrite, ToDrop, ToUnlogo, ToRetain, ToRemove

\* A request comes, goes on or is over.
LEMMA UploadNext ==
    ASSUME MediaTyped, NEW k \in Uploaders, NEW r \in UploadRequest,
           upload' = [upload EXCEPT ![k] = r]
    PROVE  upload' \in [Uploaders -> UploadRequest]
  BY DEF MediaTyped

\* A request goes on to what it has to remove.
LEMMA UploadRemoves ==
    ASSUME MediaTyped, NEW k \in Uploaders, NEW waste \in SUBSET Objects, Removing(k, waste)
    PROVE  upload' \in [Uploaders -> UploadRequest]
<1> DEFINE r == IF waste = {} THEN Vacant ELSE [op |-> "remove", waste |-> waste]
<1>1. r \in UploadRequest
  BY DEF UploadRequest, ToRemove
<1>2. upload' = [upload EXCEPT ![k] = r]
  BY DEF Removing
<1> HIDE DEF r
<1> QED  BY <1>1, <1>2, UploadNext

LEMMA BeginMediaTyped ==
    ASSUME MediaTyped, NEW k \in Uploaders,
           \/ \E kind \in Kinds : BeginUpload(k, kind)
           \/ \E kind \in {"image", "video"}, o \in Objects : BeginDrop(k, kind, o)
           \/ \E keep \in SUBSET images : BeginRetain(k, keep)
           \/ BeginUnlogo(k)
    PROVE  MediaTyped'
<1>1. PICK r \in UploadRequest : upload' = [upload EXCEPT ![k] = r]
  <2>1. ASSUME NEW kind \in Kinds, BeginUpload(k, kind)
        PROVE  \E r \in UploadRequest : upload' = [upload EXCEPT ![k] = r]
    <3> DEFINE r == [op |-> "put", kind |-> kind, old |-> IF kind = "logo" THEN logo ELSE 0]
    <3>1. r \in UploadRequest
      BY CatalogAssumption DEF MediaTyped, UploadRequest, ToPut
    <3>2. upload' = [upload EXCEPT ![k] = r]
      BY <2>1 DEF BeginUpload
    <3> QED  BY <3>1, <3>2
  <2>2. ASSUME NEW kind \in {"image", "video"}, NEW o \in Objects, BeginDrop(k, kind, o)
        PROVE  \E r \in UploadRequest : upload' = [upload EXCEPT ![k] = r]
    <3>1. [op |-> "drop", kind |-> kind, object |-> o] \in UploadRequest
      BY DEF UploadRequest, ToDrop
    <3> QED  BY <2>2, <3>1 DEF BeginDrop
  <2>3. ASSUME NEW keep \in SUBSET images, BeginRetain(k, keep)
        PROVE  \E r \in UploadRequest : upload' = [upload EXCEPT ![k] = r]
    <3>1. [op |-> "retain", read |-> images, keep |-> keep] \in UploadRequest
      BY DEF MediaTyped, UploadRequest, ToRetain
    <3> QED  BY <2>3, <3>1 DEF BeginRetain
  <2>4. ASSUME BeginUnlogo(k)
        PROVE  \E r \in UploadRequest : upload' = [upload EXCEPT ![k] = r]
    <3>1. [op |-> "unlogo", old |-> logo] \in UploadRequest
      BY DEF MediaTyped, UploadRequest, ToUnlogo
    <3> QED  BY <2>4, <3>1 DEF BeginUnlogo
  <2> QED  BY <2>1, <2>2, <2>3, <2>4
<1>2. UNCHANGED <<objects, put, images, video, logo, adrift, crowded>>
  BY DEF BeginUpload, BeginDrop, BeginRetain, BeginUnlogo
<1>3. upload' \in [Uploaders -> UploadRequest]
  BY <1>1, UploadNext
<1> QED  BY <1>2, <1>3 DEF MediaTyped

LEMMA MediaTypedStep == MediaTyped /\ [CatalogNext]_catalogVars => MediaTyped'
<1> SUFFICES ASSUME MediaTyped, [CatalogNext]_catalogVars PROVE MediaTyped'
  OBVIOUS
<1> USE CatalogAssumption
<1>1. CASE BarcodeNext \/ UNCHANGED catalogVars
  <2>1. UNCHANGED media
    BY <1>1 DEF BarcodeNext, BeginGenerate, DrawTaken, Draw, TypeBarcode, catalogVars, media
  <2> QED  BY <2>1 DEF media, MediaTyped
<1>2. ASSUME NEW k \in Uploaders, PutObject(k)
      PROVE  MediaTyped'
  <2> DEFINE r == [op |-> "write", kind |-> upload[k].kind, old |-> upload[k].old,
                   object |-> put + 1]
  <2>1. put + 1 \in Objects /\ put + 1 \in 0..MaxObjects
    BY <1>2 DEF PutObject, MediaTyped, Objects
  <2>2. upload[k] \in ToPut
    BY <1>2, UploadShape DEF PutObject
  <2>3. r \in UploadRequest
    BY <2>1, <2>2 DEF UploadRequest, ToPut, ToWrite
  <2>4. upload' = [upload EXCEPT ![k] = r]
    BY <1>2 DEF PutObject
  <2> HIDE DEF r
  <2>5. upload' \in [Uploaders -> UploadRequest]
    BY <2>3, <2>4, UploadNext
  <2> QED  BY <1>2, <2>1, <2>5 DEF PutObject, MediaTyped
<1>3. ASSUME NEW k \in Uploaders, WriteImage(k)
      PROVE  MediaTyped'
  <2>1. upload[k].object \in Objects
    BY <1>3, UploadShape DEF WriteImage, Writing, ToWrite
  <2>2. upload' \in [Uploaders -> UploadRequest]
    BY <1>3, UploadRemoves DEF WriteImage
  <2>3. crowded' \in BOOLEAN
    BY <1>3 DEF WriteImage
  <2> QED  BY <1>3, <2>1, <2>2, <2>3 DEF WriteImage, MediaTyped
<1>4. ASSUME NEW k \in Uploaders, WriteVideo(k)
      PROVE  MediaTyped'
  <2>1. upload[k].object \in Objects
    BY <1>4, UploadShape DEF WriteVideo, Writing, ToWrite
  <2>2. upload' \in [Uploaders -> UploadRequest]
    BY <1>4, UploadRemoves DEF WriteVideo
  <2> QED  BY <1>4, <2>1, <2>2 DEF WriteVideo, MediaTyped
<1>5. ASSUME NEW k \in Uploaders, WriteLogo(k)
      PROVE  MediaTyped'
  <2>1. upload[k].object \in Objects /\ upload[k].old \in 0..MaxObjects
    BY <1>5, UploadShape DEF WriteLogo, Writing, ToWrite
  <2>2. {upload[k].old} \ {0} \in SUBSET Objects
    BY <2>1 DEF Objects
  <2>3. {logo} \ {0, upload[k].old} \subseteq Objects /\ upload[k].object \in 0..MaxObjects
    BY <2>1 DEF Objects, MediaTyped
  <2>4. upload' \in [Uploaders -> UploadRequest]
    BY <1>5, <2>2, UploadRemoves DEF WriteLogo
  <2> QED  BY <1>5, <2>3, <2>4 DEF WriteLogo, MediaTyped
<1>6. ASSUME NEW k \in Uploaders, FailRow(k)
      PROVE  MediaTyped'
  <2>1. {upload[k].object} \in SUBSET Objects
    BY <1>6, UploadShape DEF FailRow, ToWrite
  <2>2. upload' \in [Uploaders -> UploadRequest]
    BY <1>6, <2>1, UploadRemoves DEF FailRow, Compensation
  <2> QED  BY <1>6, <2>2 DEF FailRow, MediaTyped
<1>7. ASSUME NEW k \in Uploaders, CommitDrop(k)
      PROVE  MediaTyped'
  <2>1. {upload[k].object} \in SUBSET Objects
    BY <1>7, UploadShape DEF CommitDrop, ToDrop
  <2>2. upload' \in [Uploaders -> UploadRequest]
    BY <1>7, <2>1, UploadRemoves DEF CommitDrop
  <2> QED  BY <1>7, <2>2 DEF CommitDrop, MediaTyped
<1>8. ASSUME NEW k \in Uploaders, CommitUnlogo(k)
      PROVE  MediaTyped'
  <2>1. upload[k].old \in 0..MaxObjects
    BY <1>8, UploadShape DEF CommitUnlogo, ToUnlogo
  <2>2. {upload[k].old} \ {0} \in SUBSET Objects /\ {logo} \ {0, upload[k].old} \subseteq Objects
    BY <2>1 DEF Objects, MediaTyped
  <2>3. upload' \in [Uploaders -> UploadRequest]
    BY <1>8, <2>2, UploadRemoves DEF CommitUnlogo
  <2> QED  BY <1>8, <2>2, <2>3 DEF CommitUnlogo, MediaTyped
<1>9. ASSUME NEW k \in Uploaders, CommitRetain(k)
      PROVE  MediaTyped'
  <2>1. Unretained(upload[k].read, upload[k].keep) \in SUBSET Objects
    BY <1>9, UploadShape DEF CommitRetain, ToRetain, Unretained
  <2>2. upload' \in [Uploaders -> UploadRequest]
    BY <1>9, <2>1, UploadRemoves DEF CommitRetain
  <2> QED  BY <1>9, <2>2 DEF CommitRetain, MediaTyped
<1>10. ASSUME NEW k \in Uploaders, NEW o \in Objects, NEW ok \in BOOLEAN, RemoveObject(k, o, ok)
       PROVE  MediaTyped'
  <2>1. upload[k].waste \ {o} \in SUBSET Objects
    BY <1>10, UploadShape DEF RemoveObject, ToRemove
  <2>2. upload' \in [Uploaders -> UploadRequest]
    BY <1>10, <2>1, UploadRemoves DEF RemoveObject
  <2>3. objects' \subseteq Objects /\ adrift' \subseteq Objects
    BY <1>10 DEF RemoveObject, MediaTyped
  <2> QED  BY <1>10, <2>2, <2>3 DEF RemoveObject, MediaTyped
<1>11. ASSUME NEW k \in Uploaders, Interrupt(k)
       PROVE  MediaTyped'
  <2>1. Held(k) \subseteq Objects
    BY UploadShape DEF Held, ToWrite, ToRemove
  <2>2. Vacant \in UploadRequest
    BY DEF UploadRequest
  <2>3. upload' \in [Uploaders -> UploadRequest]
    BY <1>11, <2>2, UploadNext DEF Interrupt
  <2> QED  BY <1>11, <2>1, <2>3 DEF Interrupt, MediaTyped
<1> QED
  BY <1>1, <1>2, <1>3, <1>4, <1>5, <1>6, <1>7, <1>8, <1>9, <1>10, <1>11, BeginMediaTyped
  DEF CatalogNext, MediaNext, Kinds

\* The barcodes.
CodesTyped ==
    /\ barcode \in Barcodes \cup {"none"}
    /\ draw \in [Uploaders -> 0..MaxDraws]
    /\ told \subseteq Barcodes

LEMMA CodesTypedStep == CodesTyped /\ [CatalogNext]_catalogVars => CodesTyped'
<1> SUFFICES ASSUME CodesTyped, [CatalogNext]_catalogVars PROVE CodesTyped'
  OBVIOUS
<1> USE CatalogAssumption
<1>1. ASSUME NEW k \in Uploaders, BeginGenerate(k)
      PROVE  CodesTyped'
  <2>1. CASE barcode = "none"
    <3>1. draw' = [draw EXCEPT ![k] = 1] /\ UNCHANGED <<told, barcode>>
      BY <1>1, <2>1 DEF BeginGenerate
    <3>2. 1 \in 0..MaxDraws
      OBVIOUS
    <3> QED  BY <3>1, <3>2 DEF CodesTyped
  <2>2. CASE barcode # "none"
    BY <1>1, <2>2 DEF BeginGenerate, CodesTyped
  <2> QED  BY <2>1, <2>2
<1>2. ASSUME NEW k \in Uploaders, DrawTaken(k)
      PROVE  CodesTyped'
  <2>1. draw[k] \in 0..MaxDraws
    BY DEF CodesTyped
  <2>2. (IF draw[k] < MaxDraws THEN draw[k] + 1 ELSE 0) \in 0..MaxDraws
    BY <2>1
  <2> QED  BY <1>2, <2>2 DEF DrawTaken, CodesTyped
<1>3. ASSUME NEW k \in Uploaders, NEW b \in Barcodes, Draw(k, b)
      PROVE  CodesTyped'
  <2>1. barcode' = (IF barcode = "none" THEN b ELSE barcode)
    BY <1>3 DEF Draw, Unless
  <2>2. barcode' \in Barcodes
    BY <2>1 DEF CodesTyped
  <2> QED  BY <1>3, <2>2 DEF Draw, CodesTyped
<1>4. ASSUME NEW b \in Barcodes, TypeBarcode(b)
      PROVE  CodesTyped'
  BY <1>4 DEF TypeBarcode, CodesTyped
<1>5. CASE MediaNext \/ UNCHANGED catalogVars
  <2>1. UNCHANGED codes
    BY <1>5 DEF MediaNext, BeginUpload, BeginDrop, BeginRetain, RemoveObject, PutObject, WriteImage,
                WriteVideo, WriteLogo, FailRow, CommitDrop, CommitRetain, BeginUnlogo, CommitUnlogo,
                Interrupt, catalogVars, codes
  <2> QED  BY <2>1 DEF codes, CodesTyped
<1> QED  BY <1>1, <1>2, <1>3, <1>4, <1>5 DEF CatalogNext, BarcodeNext

\* The variables of media and barcodes keep their types.
LEMMA CatalogTypesKept == CatalogSpec => []CatalogTypeOK
<1>1. ASSUME CatalogInit PROVE MediaTyped /\ CodesTyped
  <2>1. crowded \in BOOLEAN
    BY <1>1 DEF CatalogInit
  <2>2. /\ objects \subseteq Objects /\ put \in 0..MaxObjects /\ images \subseteq Objects
        /\ video \subseteq Objects /\ logo \in 0..MaxObjects /\ adrift \subseteq Objects
    BY <1>1, CatalogAssumption DEF CatalogInit
  <2>3. upload \in [Uploaders -> UploadRequest]
    BY <1>1 DEF CatalogInit, UploadRequest
  <2>4. CodesTyped
    BY <1>1, CatalogAssumption DEF CatalogInit, CodesTyped
  <2> QED  BY <2>1, <2>2, <2>3, <2>4 DEF MediaTyped
<1>2. ASSUME MediaTyped, CodesTyped PROVE CatalogTypeOK
  <2>1. \A k \in Uploaders : UploadOK(upload[k])
    BY <1>2, UploadShape DEF UploadOK, ToPut, ToWrite, ToDrop, ToUnlogo, ToRetain, ToRemove, Kinds
  <2> QED  BY <1>2, <2>1 DEF MediaTyped, CodesTyped, CatalogTypeOK
<1> QED  BY <1>1, <1>2, MediaTypedStep, CodesTypedStep, PTL DEF CatalogSpec

-----------------------------------------------------------------------------
(* The defaults of an organization.                                        *)

Choosing == [op : {"choose", "ensure"}, row : Rows, new : BOOLEAN, seen : SUBSET Rows,
             to : Sites \cup {AsItWas}]
GivingUp == [op : {"unset", "delete"}, row : Rows, needed : BOOLEAN]
Starting == [op : {"initial"}, row : Rows, to : Sites]
Listing == [tenant : Tenants, found : BOOLEAN]

\* What requests ask for, and what is noted of them.
CallsTyped ==
    /\ table \in {"theme", "dashboard", "rule"}
    /\ choice \in [Callers -> {Unused} \cup Choosing \cup GivingUp \cup Starting]
    /\ beside \subseteq Rows /\ hasty \in BOOLEAN /\ site \in [Rows -> Sites]

ListsTyped ==
    /\ ensuring \in [Callers -> {NotCalled} \cup Listing]
    /\ templates \in 0..MaxStandard /\ twice \in BOOLEAN

LEMMA CallTyped ==
    ASSUME CallsTyped, NEW k \in Callers, NEW c \in Choosing \cup GivingUp \cup Starting, Call(k, c)
    PROVE  CallsTyped'
  BY DEF Call, CallsTyped

\* The requests of a table.
LEMMA BeginChoiceTyped ==
    ASSUME CallsTyped, NEW k \in Callers, NEW r \in Rows,
           \/ CreateTheme(k, r) \/ SetDefault(k, r) \/ EnsureTheme(k)
           \/ CreateLoyaltyRule(k, r) \/ UpdateLoyaltyRule(k, r)
           \/ UpdateDashboard(k, r, AsItWas)
           \/ \E to \in Sites :
                 CreateDashboard(k, r, to) \/ UpdateDashboard(k, r, to) \/ BeginInitial(k, r, to)
           \/ \E op \in {"unset", "delete"} : BeginGiveUp(k, op, r)
    PROVE  CallsTyped'
<1>1. ASSUME NEW op \in {"choose", "ensure"}, NEW s \in Rows,
             NEW to \in Sites \cup {AsItWas}, Choose(k, op, s, to)
      PROVE  CallsTyped'
  <2> DEFINE c == [op |-> op, row |-> s, new |-> row[s] = "none", seen |-> Chosen, to |-> to]
  <2>1. c \in Choosing
    BY DEF Choosing, Chosen
  <2>2. Call(k, c)
    BY <1>1 DEF Choose
  <2> HIDE DEF c
  <2> QED  BY <2>1, <2>2, CallTyped
<1>2. ASSUME NEW op \in {"unset", "delete"}, BeginGiveUp(k, op, r)
      PROVE  CallsTyped'
  <2> DEFINE c == [op |-> op, row |-> r, needed |-> Needed(r)]
  <2>1. c \in GivingUp
    BY DEF GivingUp, Needed
  <2>2. Call(k, c)
    BY <1>2 DEF BeginGiveUp
  <2> HIDE DEF c
  <2> QED  BY <2>1, <2>2, CallTyped
<1>3. ASSUME NEW to \in Sites, BeginInitial(k, r, to)
      PROVE  CallsTyped'
  <2> DEFINE c == [op |-> "initial", row |-> r, to |-> to]
  <2>1. c \in Starting
    BY DEF Starting
  <2>2. Call(k, c)
    BY <1>3 DEF BeginInitial
  <2> HIDE DEF c
  <2> QED  BY <2>1, <2>2, CallTyped
<1>4. Standard \in Rows
  BY DefaultsAssumption
<1> QED
  BY <1>1, <1>2, <1>3, <1>4
  DEF CreateTheme, SetDefault, EnsureTheme, CreateDashboard, UpdateDashboard,
      CreateLoyaltyRule, UpdateLoyaltyRule

LEMMA CallsTypedStep == CallsTyped /\ [DefaultsNext]_defaultsVars => CallsTyped'
<1> SUFFICES ASSUME CallsTyped, [DefaultsNext]_defaultsVars PROVE CallsTyped'
  OBVIOUS
<1>1. CASE TemplateNext \/ UNCHANGED defaultsVars
  <2>1. UNCHANGED <<table, choice, site, beside, hasty>>
    BY <1>1 DEF TemplateNext, CommitTemplate, BeginTemplate, tableVars, defaultsVars
  <2> QED  BY <2>1 DEF CallsTyped
<1>2. ASSUME NEW r \in Rows, NEW to, NEW known, Settle(r, to, known)
      PROVE  beside' \subseteq Rows
  BY <1>2 DEF Settle, CallsTyped
<1>3. ASSUME NEW k \in Callers, Hang(k)
      PROVE  choice' \in [Callers -> {Unused} \cup Choosing \cup GivingUp \cup Starting]
  BY <1>3 DEF Hang, CallsTyped
<1>4. ASSUME NEW k \in Callers, CommitChoose(k)
      PROVE  CallsTyped'
  <2> PICK c : c = choice[k]
    OBVIOUS
  <2>1. /\ c.op \in {"choose", "ensure"} /\ Hang(k) /\ UNCHANGED <<table, hasty>>
        /\ site' = [site EXCEPT ![c.row] = SiteOf(c)] /\ Settle(c.row, SiteOf(c), c.seen)
    BY <1>4 DEF CommitChoose
  <2>2. c.row \in Rows /\ c.to \in Sites \cup {AsItWas}
    BY <2>1 DEF CallsTyped, Choosing, GivingUp, Starting, Unused
  <2>3. SiteOf(c) \in Sites
    BY <2>2 DEF SiteOf, CallsTyped
  <2>4. site' \in [Rows -> Sites]
    BY <2>1, <2>2, <2>3 DEF CallsTyped
  <2> QED  BY <1>2, <1>3, <2>1, <2>2, <2>4 DEF CallsTyped
<1>5. ASSUME NEW k \in Callers, CommitGiveUp(k)
      PROVE  CallsTyped'
  <2>1. hasty' \in BOOLEAN
    BY <1>5 DEF CommitGiveUp
  <2>2. beside' = beside /\ table' = table /\ Hang(k)
    BY <1>5 DEF CommitGiveUp
  <2>3. site' \in [Rows -> Sites]
    BY <1>5 DEF CommitGiveUp, CallsTyped, Sites
  <2> QED  BY <1>3, <2>1, <2>2, <2>3 DEF CallsTyped
<1>6. ASSUME NEW k \in Callers, CommitInitial(k)
      PROVE  CallsTyped'
  <2> PICK c : c = choice[k]
    OBVIOUS
  <2>1. /\ c.op = "initial" /\ Hang(k) /\ UNCHANGED <<table, hasty>>
        /\ site' = [site EXCEPT ![c.row] = c.to] /\ Settle(c.row, c.to, {})
    BY <1>6 DEF CommitInitial
  <2>2. c.row \in Rows /\ c.to \in Sites
    BY <2>1 DEF CallsTyped, Choosing, GivingUp, Starting, Unused
  <2> QED  BY <1>2, <1>3, <2>1, <2>2 DEF CallsTyped
<1>7. ASSUME NEW k \in Callers, FailChoice(k)
      PROVE  CallsTyped'
  BY <1>3, <1>7 DEF FailChoice, CallsTyped
<1>8. ASSUME NEW r \in Rows, NEW to \in Sites,
             AddPlain(r, to) \/ MoveDashboard(r, to) \/ Fork(r, to)
      PROVE  CallsTyped'
  <2>1. beside' \subseteq Rows
    BY <1>2, <1>8 DEF AddPlain, MoveDashboard, Fork, CallsTyped
  <2>2. site' \in [Rows -> Sites] /\ UNCHANGED <<table, choice, hasty>>
    BY <1>8 DEF AddPlain, MoveDashboard, Fork, CallsTyped
  <2> QED  BY <2>1, <2>2 DEF CallsTyped
<1>9. Standard \in Rows
  BY DefaultsAssumption
<1> QED
  BY <1>1, <1>4, <1>5, <1>6, <1>7, <1>8, <1>9, BeginChoiceTyped
  DEF DefaultsNext, ChoiceNext

LEMMA ListsTypedStep == ListsTyped /\ [DefaultsNext]_defaultsVars => ListsTyped'
<1> SUFFICES ASSUME ListsTyped, [DefaultsNext]_defaultsVars PROVE ListsTyped'
  OBVIOUS
<1>1. CASE ChoiceNext \/ UNCHANGED defaultsVars
  <2>1. UNCHANGED templateVars
    BY <1>1 DEF ChoiceNext, CreateTheme, SetDefault, EnsureTheme, CreateDashboard, UpdateDashboard,
                BeginInitial, CreateLoyaltyRule, UpdateLoyaltyRule, BeginGiveUp, Choose, Call,
                CommitChoose, CommitGiveUp, CommitInitial, FailChoice, AddPlain, MoveDashboard, Fork,
                defaultsVars, templateVars
  <2> QED  BY <2>1 DEF ListsTyped, templateVars
<1>2. ASSUME NEW k \in Callers, NEW o \in Tenants, BeginTemplate(k, o)
      PROVE  ListsTyped'
  <2> DEFINE c == [tenant |-> o, found |-> templates > 0]
  <2>1. c \in Listing
    BY DEF Listing
  <2>2. ensuring' = [ensuring EXCEPT ![k] = c] /\ templates' = templates
    BY <1>2 DEF BeginTemplate
  <2>3. twice' \in BOOLEAN
    BY <1>2 DEF BeginTemplate
  <2> HIDE DEF c
  <2> QED  BY <2>1, <2>2, <2>3 DEF ListsTyped
<1>3. ASSUME NEW k \in Callers, CommitTemplate(k)
      PROVE  ListsTyped'
  <2>1. templates' \in 0..MaxStandard
    <3>1. CASE ensuring[k].found
      BY <1>3, <3>1 DEF CommitTemplate, ListsTyped
    <3>2. CASE ~ensuring[k].found
      BY <1>3, <3>2, DefaultsAssumption DEF CommitTemplate, ListsTyped
    <3> QED  BY <3>1, <3>2
  <2>2. ensuring' = [ensuring EXCEPT ![k] = NotCalled] /\ twice' = twice
    BY <1>3 DEF CommitTemplate
  <2> QED  BY <2>1, <2>2 DEF ListsTyped
<1> QED  BY <1>1, <1>2, <1>3 DEF DefaultsNext, TemplateNext

\* The variables of defaults keep their types.
LEMMA DefaultsTypesKept == DefaultsSpec => []DefaultsTypeOK
<1>1. ASSUME DefaultsInit PROVE CallsTyped /\ ListsTyped
  <2>1. /\ beside \subseteq Rows /\ hasty \in BOOLEAN /\ site \in [Rows -> Sites]
        /\ twice \in BOOLEAN /\ templates = 0
    BY <1>1 DEF DefaultsInit, Sites
  <2>2. /\ table \in {"theme", "dashboard", "rule"}
        /\ choice = [k \in Callers |-> Unused] /\ ensuring = [k \in Callers |-> NotCalled]
    BY <1>1 DEF DefaultsInit
  <2> QED  BY <2>1, <2>2, DefaultsAssumption DEF CallsTyped, ListsTyped
<1>2. ASSUME DefaultsInv, CallsTyped, ListsTyped PROVE DefaultsTypeOK
  <2>1. DOMAIN choice = Callers /\ \A k \in Callers : ChoiceOK(choice[k])
    BY <1>2 DEF CallsTyped, ChoiceOK, Choosing, GivingUp, Starting
  <2>2. \A k \in Callers : ensuring[k] = NotCalled \/ ensuring[k] \in Listing
    BY <1>2 DEF ListsTyped
  <2> QED
    BY <1>2, <2>1, <2>2
    DEF DefaultsInv, ChoicesTyped, CallsTyped, ListsTyped, Listing, DefaultsTypeOK
<1> QED
  BY <1>1, <1>2, DefaultsInvariant, CallsTypedStep, ListsTypedStep, PTL DEF DefaultsSpec

-----------------------------------------------------------------------------
(* Suppliers and customers: a number is refused no more often than there   *)
(* can be customers.                                                       *)

\* What is noted of suppliers, and how many customers there can be.
PartnersCounts ==
    /\ astray \in BOOLEAN
    /\ customers <= MaxCustomers /\ refused \subseteq 0..MaxCustomers

\* A creation in progress started with no more customers than there are.
LEMMA SignupBounds ==
    ASSUME SignupInv, customers <= MaxCustomers, NEW k \in Buyers, signup[k] # NoSignup
    PROVE  /\ signup[k] \in [attempt : 1..MaxAttempts, read : 0..MaxCustomers, since : 0..MaxCustomers]
           /\ customers - signup[k].since \in 0..MaxCustomers
<1> PICK s : s = signup[k]
  OBVIOUS
<1>1. /\ s \in [attempt : 1..MaxAttempts, read : Nat, since : Nat]
      /\ s.read <= customers /\ s.since <= customers /\ customers \in Nat
  BY DEF SignupInv, SignupOK
<1>2. MaxAttempts \in Nat /\ MaxCustomers \in Nat
  BY PartnersAssumption
<1>3. s.attempt \in 1..MaxAttempts /\ s.read \in Nat /\ s.since \in Nat
  BY <1>1
<1>4. s.read \in 0..MaxCustomers /\ s.since \in 0..MaxCustomers
      /\ customers - s.since \in 0..MaxCustomers
  BY <1>1, <1>2, <1>3
<1>5. s \in [attempt : 1..MaxAttempts, read : 0..MaxCustomers, since : 0..MaxCustomers]
  BY <1>1, <1>4
<1> QED  BY <1>4, <1>5

LEMMA PartnersCountsStep ==
    PartnersInv /\ PartnersCounts /\ [PartnersNext]_partnersVars => PartnersCounts'
<1> SUFFICES ASSUME PartnersInv, PartnersCounts, [PartnersNext]_partnersVars
             PROVE  PartnersCounts'
  OBVIOUS
<1>1. CASE UNCHANGED partnersVars
  BY <1>1 DEF partnersVars, PartnersCounts
<1>2. CASE SupplierNext
  <2>1. UNCHANGED <<customers, refused>>
    BY <1>2 DEF SupplierNext, CreateSupplier, SupplierMail, BeginSupplierUpdate, SwitchOff,
                CommitSupplierUpdate, StopChange, OverruleAccount, DeleteAccount, customerVars
  <2>2. astray' = astray \/ astray' \in BOOLEAN
    BY <1>2 DEF SupplierNext, CreateSupplier, SupplierMail, BeginSupplierUpdate, SwitchOff,
                CommitSupplierUpdate, StopChange, OverruleAccount, DeleteAccount
  <2> QED  BY <2>1, <2>2 DEF PartnersCounts
<1>3. ASSUME NEW k \in Buyers, BeginSignup(k)
      PROVE  PartnersCounts'
  BY <1>3 DEF BeginSignup, supplierVars, PartnersCounts
<1>4. ASSUME NEW k \in Buyers, CommitSignup(k)
      PROVE  PartnersCounts'
  <2>1. customers \in Nat /\ MaxCustomers \in Nat /\ customers < MaxCustomers
    BY <1>4, PartnersAssumption DEF PartnersInv, SignupInv, CommitSignup
  <2>2. customers' \in {customers, customers + 1}
    BY <1>4 DEF CommitSignup
  <2>3. customers' <= MaxCustomers
    BY <2>1, <2>2
  <2>4. customers - signup[k].since \in 0..MaxCustomers
    BY <1>4, SignupBounds DEF CommitSignup, PartnersInv, PartnersCounts
  <2>5. refused' = refused \/ refused' = refused \cup {customers - signup[k].since}
    BY <1>4 DEF CommitSignup
  <2>6. UNCHANGED astray
    BY <1>4 DEF CommitSignup, supplierVars
  <2> QED  BY <2>3, <2>4, <2>5, <2>6 DEF PartnersCounts
<1> QED  BY <1>1, <1>2, <1>3, <1>4 DEF PartnersNext, CustomerNext

\* The variables of suppliers and customers keep their types.
LEMMA PartnersTypesKept == PartnersSpec => []PartnersTypeOK
<1>1. ASSUME PartnersInit PROVE PartnersCounts
  <2>1. astray = FALSE /\ customers = 0 /\ refused = {}
    BY <1>1 DEF PartnersInit
  <2>2. 0 <= MaxCustomers
    BY PartnersAssumption
  <2> QED  BY <2>1, <2>2 DEF PartnersCounts
<1>2. ASSUME PartnersInv, PartnersCounts PROVE PartnersTypeOK
  <2>1. supplier \in Supplier /\ account \in Status \cup {"none"}
        /\ \A k \in Buyers : ChangeOK(change[k])
    BY <1>2 DEF PartnersInv, SupplierTyped
  <2>2. \A k \in Buyers : signup[k] = NoSignup \/
            signup[k] \in [attempt : 1..MaxAttempts, read : 0..MaxCustomers, since : 0..MaxCustomers]
    BY <1>2, SignupBounds DEF PartnersInv, PartnersCounts
  <2>3. customers \in 0..MaxCustomers
    BY <1>2, PartnersAssumption DEF PartnersInv, SignupInv, PartnersCounts
  <2> QED  BY <1>2, <2>1, <2>2, <2>3 DEF PartnersCounts, PartnersTypeOK
<1> QED
  BY <1>1, <1>2, PartnersInitInv, PartnersInvStep, PartnersCountsStep, PTL DEF PartnersSpec

-----------------------------------------------------------------------------
(* Advice: what the shelf holds does not fall below nothing.               *)

ShelfTyped == shelf \in [Goods -> [active : BOOLEAN, stock : Nat]]

LEMMA ShelfTypedStep ==
    ShelfTyped /\ [AdviceNext]_adviceVars => ShelfTyped'
<1> SUFFICES ASSUME ShelfTyped, [AdviceNext]_adviceVars PROVE ShelfTyped'
  OBVIOUS
<1>1. ASSUME NEW customer \in Shoppers, NEW good \in Goods, SellGood(customer, good)
      PROVE  ShelfTyped'
  BY <1>1 DEF SellGood, ShelfTyped
<1>2. ASSUME NEW good \in Goods, ArchiveGood(good)
      PROVE  ShelfTyped'
  BY <1>2 DEF ArchiveGood, ShelfTyped
<1>3. CASE UNCHANGED shelf
  BY <1>3 DEF ShelfTyped
<1>4. ASSUME NEW customer \in Shoppers, NEW good \in Goods, NEW restocked \in BOOLEAN,
             RefundGood(customer, good, restocked)
      PROVE  ShelfTyped'
  BY <1>4 DEF RefundGood, ShelfTyped
<1> QED
  BY <1>1, <1>2, <1>3, <1>4
  DEF AdviceNext, adviceVars, AskAdvice, AskForecast, AskOverview, ModelRecommends, AskLoyalty,
      ModelFails, ReadPurchases, ReadRanking, ReadProducts, ReadLoyalty, CloseAdvice

\* The variables of advice keep their types.
LEMMA AdviceTypesKept == AdviceSpec => []AdviceTypeOK
<1>1. ASSUME AdviceInit PROVE ShelfTyped
  <2>1. shelf \in [Goods -> [active : {TRUE}, stock : {0, 1}]]
    BY <1>1 DEF AdviceInit
  <2>2. [active : {TRUE}, stock : {0, 1}] \subseteq [active : BOOLEAN, stock : Nat]
    <3>1. {TRUE} \subseteq BOOLEAN /\ {0, 1} \subseteq Nat
      OBVIOUS
    <3> QED  BY <3>1, Zenon
  <2> QED  BY <2>1, <2>2 DEF ShelfTyped
<1>2. ASSUME AdviceInv, ShelfTyped PROVE AdviceTypeOK
  <2>1. bought \in [Shoppers -> [Goods -> Nat]] /\ advice \in Question
    BY <1>2 DEF AdviceInv
  <2>2. /\ advice.at \in {"idle", "model", "purchases", "ranking", "products", "answered"}
        /\ advice.list \in Seq(Goods) /\ advice.ranked \in Seq(Goods)
        /\ advice.excluded \subseteq Goods
    BY <2>1 DEF Question
  <2>3. ToSet(advice.list) \subseteq Goods /\ ToSet(advice.ranked) \subseteq Goods
    BY <2>2 DEF ToSet
  <2> QED  BY <1>2, <2>1, <2>2, <2>3 DEF ShelfTyped, AdviceTypeOK
<1> QED
  BY <1>1, <1>2, AdviceInitInv, AdviceInvStep, ShelfTypedStep, PTL DEF AdviceSpec

-----------------------------------------------------------------------------
(* Forecasts: the rows of a dataset have a weekday and an amount, and the  *)
(* features are those of its days.                                         *)

WeekdaysCounted == \A d \in DOMAIN days : days[d].weekday \in 0..6

LEMMA RowsOfNone == DOMAIN <<>> = {}
  OBVIOUS

LEMMA CalendarCounted ==
    \A s, start : \A d \in DOMAIN Dataset(s, start) : Dataset(s, start)[d].weekday \in 0..6
<1> SUFFICES ASSUME NEW s, NEW start, NEW d \in DOMAIN Dataset(s, start)
             PROVE  Dataset(s, start)[d].weekday \in 0..6
  OBVIOUS
<1> DEFINE recorded == [t \in {u \in DOMAIN s : u >= start} |-> s[t]]
           traded == {ColomboDay(t) : t \in DOMAIN recorded}
<1>1. Dataset(s, start) = Calendar(recorded)
  BY RowsOfNone DEF Dataset
<1>2. Calendar(recorded) = [e \in Min(traded) .. Max(traded) |-> Row(recorded, e)]
  BY DEF Calendar
<1>3. d \in Min(traded) .. Max(traded) /\ Dataset(s, start)[d] = Row(recorded, d)
  BY <1>1, <1>2
<1>4. d \in Int
  BY <1>3
<1>5. Dataset(s, start)[d].weekday = UtcWeekday(Midnight(d))
  BY <1>3 DEF Row
<1>6. UtcWeekday(Midnight(d)) \in 0..6
  <2>1. Midnight(d) \in Int
    BY <1>4 DEF Midnight, HalfHours, Ahead530
  <2>2. UtcDay(Midnight(d)) \in Int
    BY <2>1 DEF UtcDay, HalfHours
  <2> QED  BY <2>2 DEF UtcWeekday
<1> QED  BY <1>5, <1>6

LEMMA WeekdaysCountedStep ==
    WeekdaysCounted /\ [ForecastNext]_forecastVars => WeekdaysCounted'
<1> SUFFICES ASSUME WeekdaysCounted, [ForecastNext]_forecastVars PROVE WeekdaysCounted'
  OBVIOUS
<1>1. CASE days' = Dataset(sold, since')
  BY <1>1, CalendarCounted DEF WeekdaysCounted
<1>2. CASE days' = <<>>
  BY <1>2, RowsOfNone DEF WeekdaysCounted
<1>3. CASE UNCHANGED days
  BY <1>3 DEF WeekdaysCounted
<1> QED
  BY <1>1, <1>2, <1>3
  DEF ForecastNext, BuildDataset, GenerateFeatures, SalesForecast, TellSales, forecastVars

\* The variables of forecasts keep their types.
LEMMA ForecastTypesKept == ForecastSpec => []ForecastTypeOK
<1>1. ASSUME ForecastInit PROVE WeekdaysCounted
  <2>1. days = <<>>
    BY <1>1 DEF ForecastInit
  <2> QED  BY <2>1, RowsOfNone DEF WeekdaysCounted
<1>2. ASSUME ForecastInv, WeekdaysCounted PROVE ForecastTypeOK
  <2>1. SalesTyped
    BY <1>2 DEF ForecastInv
  <2>2. ASSUME NEW d \in DOMAIN days PROVE days[d].revenue \in Nat
    <3> DEFINE recorded == AskedSince(since)
               day == {t \in recorded : ColomboDay(t) = d}
    <3>1. RowsOf(recorded)
      BY <1>2, <2>2, RowsOfNone DEF ForecastInv
    <3>2. days[d].revenue = SumFunctionOnSet(sold, day)
      BY <2>2, <3>1 DEF RowsOf
    <3>3. IsFiniteSet(recorded) /\ day \subseteq recorded
      BY <2>1, AskedFinite
    <3>4. IsFiniteSet(day)
      BY <3>3, FS_Subset
    <3>5. \A t \in day : sold[t] \in Nat
      BY <2>1 DEF SalesTyped, AskedSince
    <3>6. SumFunctionOnSet(sold, day) \in Nat
      BY <3>4, <3>5, SumNat
    <3> QED  BY <3>2, <3>6
  <2>3. features = <<>> \/ DOMAIN features = DOMAIN days
    BY <1>2 DEF ForecastInv
  <2> QED  BY <1>2, <2>1, <2>2, <2>3 DEF SalesTyped, WeekdaysCounted, ForecastTypeOK
<1> QED
  BY <1>1, <1>2, ForecastInitInv, ForecastInvStep, WeekdaysCountedStep, PTL DEF ForecastSpec

-----------------------------------------------------------------------------
(* A purchase order: reviews and receipts keep the length of the lists.    *)

OrderBounds == Len(responses) <= MaxResponses /\ Len(shipments) <= MaxShipments

LEMMA OrderBoundsStep ==
    PurchasingTyped /\ OrderBounds /\ [PurchasingNext]_purchasingVars => OrderBounds'
<1> SUFFICES ASSUME PurchasingTyped, OrderBounds, [PurchasingNext]_purchasingVars
             PROVE  OrderBounds'
  OBVIOUS
<1> USE PurchasingAssumption
<1>1. responses \in Seq(Response) /\ shipments \in Seq(ShipmentStatus)
  BY DEF PurchasingTyped
<1>2. Len(responses') <= MaxResponses \/ UNCHANGED responses
  <2>1. ASSUME NEW c \in Clerks, CommitRespond(c)
        PROVE  Len(responses') <= MaxResponses
    BY <1>1, <2>1 DEF CommitRespond
  <2>2. ASSUME NEW c \in Clerks, CommitReview(c)
        PROVE  Len(responses') <= MaxResponses
    <3>1. Len(responses') = Len(responses)
      BY <1>1, <2>2 DEF CommitReview
    <3> QED  BY <3>1 DEF OrderBounds
  <2> QED
    BY <2>1, <2>2
    DEF PurchasingNext, purchasingVars, Create, BeginApprove, CommitApprove, BeginReceive,
        CountReceived, CommitReceive, BeginRespond, BeginReview, BeginDispatch, CommitDispatch,
        Abandon, Start
<1>3. Len(shipments') <= MaxShipments \/ UNCHANGED shipments
  <2>1. ASSUME NEW c \in Clerks, CommitDispatch(c)
        PROVE  Len(shipments') <= MaxShipments
    BY <1>1, <2>1 DEF CommitDispatch
  <2>2. ASSUME NEW c \in Clerks, CommitReceive(c)
        PROVE  Len(shipments') <= MaxShipments
    <3>1. DOMAIN shipments' = 1..Len(shipments) /\ Len(shipments) \in Nat
      BY <1>1, <2>2 DEF CommitReceive, AfterReceipt
    <3>2. Len(shipments') = Len(shipments)
      BY <1>1, <2>2 DEF CommitReceive, AfterReceipt
    <3> QED  BY <3>2 DEF OrderBounds
  <2> QED
    BY <2>1, <2>2
    DEF PurchasingNext, purchasingVars, Create, BeginApprove, CommitApprove, BeginReceive,
        CountReceived, CommitRespond, BeginRespond, BeginReview, CommitReview, BeginDispatch,
        Abandon, Start
<1> QED  BY <1>2, <1>3 DEF OrderBounds

LEMMA PurchasingTypes == PurchasingInv /\ OrderBounds => PurchasingTypeOK
<1> SUFFICES ASSUME PurchasingInv, OrderBounds PROVE PurchasingTypeOK
  OBVIOUS
<1>1. PurchasingTyped
  BY DEF PurchasingInv
<1>2. ASSUME NEW c \in Clerks PROVE RequestOK(request[c])
  <2>1. request[c] \in Request
    BY <1>1 DEF PurchasingTyped
  <2> QED  BY <2>1 DEF Request, RequestOK
<1>3. DOMAIN request = Clerks
  BY <1>1 DEF PurchasingTyped
<1>4. applied \subseteq 1..MaxResponses
  BY <1>1, PurchasingAssumption DEF PurchasingTyped, OrderBounds
<1> QED  BY <1>1, <1>2, <1>3, <1>4 DEF PurchasingTyped, OrderBounds, PurchasingTypeOK

\* The variables of a purchase order keep their types.
LEMMA PurchasingTypesKept == PurchasingSpec => []PurchasingTypeOK
<1>1. PurchasingInit => OrderBounds
  <2> SUFFICES ASSUME PurchasingInit PROVE OrderBounds
    OBVIOUS
  <2>1. responses = <<>> /\ shipments = <<>>
    BY DEF PurchasingInit
  <2> QED  BY <2>1, PurchasingAssumption DEF OrderBounds
<1>2. PurchasingInv => PurchasingTyped
  BY DEF PurchasingInv
<1> QED
  BY <1>1, <1>2, PurchasingInitInv, PurchasingInvStep, OrderBoundsStep, PurchasingTypes, PTL
  DEF PurchasingSpec

-----------------------------------------------------------------------------
(* Promotions: the rounds of the worker, and the notes.                    *)

RoundsTyped ==
    /\ phase \in {"idle", "launching", "delivering"}
    /\ tardy \subseteq Rules /\ overlaid \subseteq Rules

LEMMA RoundsTypedStep ==
    ASSUME PromotionsTyped, RoundsTyped, [PromotionsNext]_promotionVars
    PROVE  RoundsTyped'
<1> USE PromotionsAssumption DEF RoundsTyped
<1>1. ASSUME UNCHANGED <<tardy, overlaid>>,
             UNCHANGED worker \/ phase' \in {"idle", "launching", "delivering"}
      PROVE  RoundsTyped'
  BY <1>1 DEF worker
<1>2. ASSUME NEW k \in Editors, CommitEdit(k)
      PROVE  RoundsTyped'
  <2>1. edit[k].rule \in Rules
    BY <1>2 DEF CommitEdit, NoEdit, Edit, PromotionsTyped
  <2> QED  BY <1>2, <2>1 DEF CommitEdit, Written, worker
<1>3. ASSUME NEW k \in Editors, CommitRemoval(k)
      PROVE  RoundsTyped'
  <2>1. edit[k].rule \in Rules
    BY <1>3 DEF CommitRemoval, NoEdit, Edit, PromotionsTyped
  <2> QED  BY <1>3, <2>1 DEF CommitRemoval, Written, worker
<1>4. ASSUME NEW b \in toLaunch, FailLaunch(b)
      PROVE  RoundsTyped'
  BY <1>4 DEF FailLaunch, AfterFailure, office
<1>5. CASE \/ \E r \in Editable, start \in Starts, end \in Ends : CreateRule(r, start, end)
           \/ \E r \in Editable, status \in {"ACTIVE", "INACTIVE"} : SetStatus(r, status)
           \/ \E k \in Editors, r \in Editable :
                 \/ \E start \in Starts : BeginStart(k, r, start)
                 \/ \E end \in Ends : BeginEnd(k, r, end)
                 \/ BeginRemoval(k, r)
           \/ \E k \in Editors : RefuseEdit(k)
           \/ \E r \in Rules : Price(r)
           \/ \E done \in BOOLEAN : Sell(done)
           \/ Tick
  BY <1>1, <1>5 DEF CreateRule, SetStatus, BeginStart, BeginEnd, BeginRemoval, Note, RefuseEdit,
                    Price, Sell, Tick, office
<1>6. CASE StartRound \/ Deliver \/ EndRound \/ \E b \in toLaunch : Launch(b)
  BY <1>1, <1>6 DEF StartRound, Deliver, EndRound, Launch, office
<1>7. CASE UNCHANGED promotionVars
  BY <1>1, <1>7 DEF promotionVars, worker
<1> QED
  BY <1>2, <1>3, <1>4, <1>5, <1>6, <1>7 DEF PromotionsNext, WorkerStep

LEMMA PromotionsTypes == PromotionsTyped /\ RoundsTyped => PromotionsTypeOK
<1> SUFFICES ASSUME PromotionsTyped, RoundsTyped PROVE PromotionsTypeOK
  OBVIOUS
<1>1. \A k \in Editors : EditOK(edit[k])
  BY DEF PromotionsTyped, EditOK, Edit
<1>2. \A r \in Rules : launched[r].times \in Nat /\ launched[r].terms \in Nat
  BY DEF PromotionsTyped, Announcement
<1> QED  BY <1>1, <1>2 DEF PromotionsTyped, RoundsTyped, PromotionsTypeOK, Bargain, Starts


-----------------------------------------------------------------------------
(* The services together.  A behaviour of the back office is a behaviour   *)
(* of each service, so each keeps together with the others what it keeps   *)
(* alone.                                                                  *)

LEMMA BackOfficeStart ==
    BackOfficeInit => /\ StaffInit /\ WarrantiesInit /\ CatalogInit /\ DefaultsInit
                      /\ PartnersInit /\ AdviceInit /\ ForecastInit /\ PurchasingInit
                      /\ PromotionsInit
  BY DEF BackOfficeInit

LEMMA BackOfficeStep ==
    [BackOfficeNext]_backOfficeVars =>
        /\ [StaffNext]_staffVars /\ [WarrantiesNext]_warrantyVars /\ [CatalogNext]_catalogVars
        /\ [DefaultsNext]_defaultsVars /\ [PartnersNext]_partnersVars
        /\ [AdviceNext]_adviceVars /\ [ForecastNext]_forecastVars
        /\ [PurchasingNext]_purchasingVars /\ [PromotionsNext]_promotionVars
<1> SUFFICES ASSUME [BackOfficeNext]_backOfficeVars
             PROVE  /\ [StaffNext]_staffVars /\ [WarrantiesNext]_warrantyVars
                    /\ [CatalogNext]_catalogVars /\ [DefaultsNext]_defaultsVars
                    /\ [PartnersNext]_partnersVars /\ [AdviceNext]_adviceVars
                    /\ [ForecastNext]_forecastVars /\ [PurchasingNext]_purchasingVars
                    /\ [PromotionsNext]_promotionVars
  OBVIOUS
<1>1. CASE BackOfficeNext
  BY <1>1 DEF BackOfficeNext, CatalogNext, DefaultsNext, PartnersNext
<1>2. CASE UNCHANGED backOfficeVars
  BY <1>2 DEF backOfficeVars
<1> QED  BY <1>1, <1>2

\* The back office is each of its services to whoever looks at that one only.
LEMMA ServicesWorkTogether ==
    BackOfficeSpec => /\ StaffSpec /\ WarrantiesSpec /\ CatalogSpec
                      /\ DefaultsSpec /\ PartnersSpec /\ AdviceSpec
                      /\ ForecastSpec /\ PurchasingSpec
  BY BackOfficeStart, BackOfficeStep, PTL
  DEF BackOfficeSpec, StaffSpec, WarrantiesSpec, CatalogSpec, DefaultsSpec, PartnersSpec,
      AdviceSpec, ForecastSpec, PurchasingSpec

\* Together, too, the services keep the roles, warranties, media, defaults,
\* partners, forecasts, advice, purchase orders and promotions as they keep them
\* alone.
THEOREM BackOfficeIsSafe ==
    BackOfficeSpec => /\ [](SuperAdminStays /\ NoEscalation /\ WarrantiesKept /\ CatalogAgrees
                              /\ OneDefault /\ PartnersServed /\ ForecastsFromThePast
                              /\ AdviceIsNew /\ OrderTellsTruth /\ TermsHold)
                      /\ ThemeKept /\ StatusMovesOn
<1>1. BackOfficeSpec => []PromotionsInv
  BY BackOfficeStart, BackOfficeStep, PromotionsInitInv, PromotionsInvStep, PTL DEF BackOfficeSpec
<1>2. PromotionsInv => TermsHold
  BY PromotionsKeepTerms
<1> QED
  BY <1>1, <1>2, ServicesWorkTogether, ManagersLendNoPower, SuperAdminRemains, OrderIsTrue,
     StatusOnlyMovesOn, WarrantiesAreKept, CatalogDoesAgree, OneIsChosen, ThemeIsKept,
     PartnersAreServed, ForecastsRestOnThePast, AdviceStaysNew, PTL

\* Together, too, every variable of the services keeps its type: the rows stay
\* rows of their tables, requests hold what their kind holds, and counters stay
\* in their bounds.
THEOREM BackOfficeTypeCorrect == BackOfficeSpec => []BackOfficeTypeOK
<1>1. BackOfficeSpec => [](focus \in Parts)
  <2>1. BackOfficeInit => focus \in Parts
    BY DEF BackOfficeInit
  <2>2. focus \in Parts /\ [BackOfficeNext]_backOfficeVars => (focus \in Parts)'
    BY DEF BackOfficeNext, backOfficeVars
  <2> QED  BY <2>1, <2>2, PTL DEF BackOfficeSpec
<1>2. PromotionsInit => RoundsTyped
  BY PromotionsAssumption DEF PromotionsInit, RoundsTyped
<1>3. PromotionsInv => PromotionsTyped
  BY DEF PromotionsInv
<1>4. PromotionsTyped /\ RoundsTyped /\ [PromotionsNext]_promotionVars => RoundsTyped'
  BY RoundsTypedStep
<1>5. BackOfficeSpec => []PromotionsTypeOK
  BY <1>2, <1>3, <1>4, BackOfficeStart, BackOfficeStep, PromotionsInitInv, PromotionsInvStep,
     PromotionsTypes, PTL
  DEF BackOfficeSpec
<1>6. /\ focus \in Parts /\ StaffTypeOK /\ WarrantiesTypeOK /\ CatalogTypeOK /\ DefaultsTypeOK
      /\ PartnersTypeOK /\ AdviceTypeOK /\ ForecastTypeOK /\ PurchasingTypeOK /\ PromotionsTypeOK
      => BackOfficeTypeOK
  BY DEF BackOfficeTypeOK
<1> QED
  BY <1>1, <1>5, <1>6, ServicesWorkTogether, StaffTypesKept, WarrantiesTypesKept, CatalogTypesKept,
     DefaultsTypesKept, PartnersTypesKept, AdviceTypesKept, ForecastTypesKept,
     PurchasingTypesKept, PTL
=============================================================================
