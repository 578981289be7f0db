------------------------------- MODULE Staff -------------------------------
(***************************************************************************)
(* Users, roles and who may change them: src/modules/users/users.service.ts*)
(* and src/modules/roles/roles.service.ts behind the guards of             *)
(* src/common/auth.                                                        *)
(*                                                                         *)
(* A request is let through and checked first (Begin...) and written later,*)
(* in one transaction that looks at nothing again (Commit...).  What the   *)
(* actor may do is read once, by the guard.  What a change of access does  *)
(* to the sessions of the user is in Sessions.                             *)
(***************************************************************************)
EXTENDS Integers, FiniteSets

CONSTANTS
    Employees,     \* rows of User, there or not
    StaffRequests, \* the requests served at one time
    Super,         \* the role SUPER_ADMIN
    Roles,         \* the other roles
    RoleSets,      \* the sets of roles a user can be given
    Grants,        \* the sets of permission keys a role can be given
    AdminKey,      \* users:manage, which ADMIN_PERMISSION_KEYS holds
    Founders,      \* the super administrators at the start
    Managers,      \* the users with a role that holds AdminKey at the start
    ManagerRole,   \* that role
    MaxWrites      \* bound: the writes of all requests together

ASSUME StaffAssumption ==
    /\ Super \notin Roles /\ ManagerRole \in Roles
    /\ RoleSets \subseteq SUBSET (Roles \cup {Super})
    /\ \E g \in Grants : AdminKey \in g
    /\ \E g \in Grants : AdminKey \notin g
    /\ Founders \subseteq Employees /\ Managers \subseteq Employees \ Founders
    /\ Founders # {} /\ MaxWrites \in Nat

VARIABLES
    employee,  \* User: status ("none": no row) and roles
    grants,    \* RolePermission
    asked,     \* the request in progress
    demoted,   \* history: a super administrator was given other roles
    outdated,     \* history: a removal or deactivation was written on an outdated check
    lent,      \* history: <<user, role>> a manager who is no super administrator gave
    regranted, \* history: roles whose permissions were replaced
    writes     \* bound: the writes so far

staffVars == <<employee, grants, asked, demoted, outdated, lent, regranted, writes>>

Open(k) == asked[k].op # "idle"
Rest == [op |-> "idle"]

AdminUser == [status : {"ACTIVE", "INACTIVE", "none"}, roles : SUBSET (Roles \cup {Super})]

StaffRequestOK(r) ==
    \/ r = Rest
    \/ r \in [op : {"create", "mail"}, target : Employees, roles : SUBSET (Roles \cup {Super}),
              super : BOOLEAN]
    \/ r \in [op : {"update"}, target : Employees, status : {"ACTIVE", "INACTIVE", "same"},
              roles : SUBSET (Roles \cup {Super}), keep : BOOLEAN, super : BOOLEAN]
    \/ r \in [op : {"remove"}, target : Employees]

StaffTypeOK ==
    /\ employee \in [Employees -> AdminUser]
    /\ grants \in [Roles -> Grants]
    /\ DOMAIN asked = StaffRequests /\ \A k \in StaffRequests : StaffRequestOK(asked[k])
    /\ demoted \in BOOLEAN /\ outdated \in BOOLEAN
    /\ lent \subseteq Employees \X (Roles \cup {Super}) /\ regranted \subseteq Roles
    /\ writes \in 0..MaxWrites

Hired(u) == employee[u].status # "none"
IsSuper(u) == Super \in employee[u].roles
Keys(u) == UNION {grants[r] : r \in employee[u].roles \ {Super}}

\* PermissionsGuard for a handler that requires users:manage.
MayManage(a) ==
    employee[a].status = "ACTIVE" /\ (IsSuper(a) \/ AdminKey \in Keys(a))

StaffInit ==
    /\ grants = [r \in Roles |-> IF r = ManagerRole
                                   THEN CHOOSE g \in Grants : AdminKey \in g
                                   ELSE CHOOSE g \in Grants : AdminKey \notin g]
    /\ employee = [u \in Employees |->
          [status |-> IF u \in Founders \cup Managers THEN "ACTIVE" ELSE "none",
           roles |-> CASE u \in Founders -> {Super} [] u \in Managers -> {ManagerRole}
                       [] OTHER -> {}]]
    /\ asked = [k \in StaffRequests |-> Rest]
    /\ demoted = FALSE /\ outdated = FALSE /\ lent = {} /\ regranted = {} /\ writes = 0

Ask(k, r) ==
    /\ ~Open(k)
    /\ asked' = [asked EXCEPT ![k] = r]
    /\ UNCHANGED <<employee, grants, demoted, outdated, lent, regranted, writes>>

Reply(k) == asked' = [asked EXCEPT ![k] = Rest]

Write == writes < MaxWrites /\ writes' = writes + 1

-----------------------------------------------------------------------------
(* The checks.                                                             *)

ActiveSupers == {u \in Employees : employee[u].status = "ACTIVE" /\ IsSuper(u)}

\* assertNotLastSuperAdmin.
NotLast(u) == IsSuper(u) => Cardinality(ActiveSupers) > 1

\* Fault: a manager gives any role.
AnyRoles(a, rs) == Hired(a)

\* validateAssignments: a manager gives away what it holds and may not administer.
MayAssign(a, rs) ==
    ~IsSuper(a) => \A r \in rs : r # Super /\ AdminKey \notin grants[r] /\ grants[r] \subseteq Keys(a)

\* assertCanManageTarget.
MayTouch(a, u) == IsSuper(a) \/ ~IsSuper(u)

Lending(k, u, rs) ==
    lent' = {p \in lent : p[1] # u} \cup (IF asked[k].super THEN {} ELSE {u} \X rs)

-----------------------------------------------------------------------------
(* create: the row, then the mail; a mail that fails deletes the row.      *)

BeginCreate(k, a, u, rs) ==
    /\ MayManage(a) /\ MayAssign(a, rs) /\ ~Hired(u)
    /\ Ask(k, [op |-> "create", target |-> u, roles |-> rs, super |-> IsSuper(a)])

CommitCreate(k) ==
    LET u == asked[k].target IN
    /\ asked[k].op = "create"
    /\ ~Hired(u)                                  \* the address is unique
    /\ Write
    /\ employee' = [employee EXCEPT ![u] = [@ EXCEPT !.status = "ACTIVE",
                                                     !.roles = asked[k].roles]]
    /\ asked' = [asked EXCEPT ![k].op = "mail"]
    /\ Lending(k, u, asked[k].roles)
    /\ UNCHANGED <<grants, demoted, outdated, regranted>>

Gone(u) == [employee EXCEPT ![u] = [status |-> "none", roles |-> {}]]

Mail(k, sent) ==
    LET u == asked[k].target IN
    /\ asked[k].op = "mail"
    /\ employee' = IF sent THEN employee ELSE Gone(u)
    /\ lent' = IF sent THEN lent ELSE {p \in lent : p[1] # u}
    /\ outdated' = (outdated \/ (~sent /\ ActiveSupers = {u}))
    /\ Reply(k)
    /\ UNCHANGED <<grants, demoted, regranted, writes>>

-----------------------------------------------------------------------------
(* updateAccess and remove.                                                *)

BeginUpdateAccess(k, a, u, status, rs, keep) ==
    /\ MayManage(a) /\ Hired(u) /\ MayTouch(a, u)
    /\ status = "INACTIVE" => a # u /\ NotLast(u)
    /\ keep \/ MayAssign(a, rs)
    /\ Ask(k, [op |-> "update", target |-> u, status |-> status, roles |-> rs,
               keep |-> keep, super |-> IsSuper(a)])

\* Fault: an update that names no roles takes those there are.
Wiped(u, status, rs, keep) ==
    [employee EXCEPT ![u] = [status |-> IF status = "same" THEN @.status ELSE status,
                             roles |-> rs]]

Changed(u, status, rs, keep) ==
    [employee EXCEPT ![u] = [status |-> IF status = "same" THEN @.status ELSE status,
                             roles |-> IF keep THEN @.roles ELSE rs]]

CommitUpdateAccess(k) ==
    LET r == asked[k]
        drops == ~r.keep /\ IsSuper(r.target) /\ Super \notin r.roles
    IN
    /\ r.op = "update" /\ Hired(r.target)
    /\ Write
    /\ employee' = Changed(r.target, r.status, r.roles, r.keep)
    /\ demoted' = (demoted \/ drops)
    /\ outdated' = (outdated \/ (r.status = "INACTIVE" /\ ActiveSupers = {r.target}))
    /\ IF r.keep THEN UNCHANGED lent ELSE Lending(k, r.target, r.roles)
    /\ Reply(k)
    /\ UNCHANGED <<grants, regranted>>

BeginRemove(k, a, u) ==
    /\ MayManage(a) /\ a # u /\ Hired(u) /\ MayTouch(a, u) /\ NotLast(u)
    /\ Ask(k, [op |-> "remove", target |-> u])

CommitRemove(k) ==
    LET u == asked[k].target IN
    /\ asked[k].op = "remove" /\ Hired(u)
    /\ Write
    /\ employee' = Gone(u)
    /\ lent' = {p \in lent : p[1] # u}
    /\ outdated' = (outdated \/ ActiveSupers = {u})
    /\ Reply(k)
    /\ UNCHANGED <<grants, demoted, regranted>>

\* A row that has gone, business history, an address in use: the write fails.
Refuse(k) ==
    /\ Open(k)
    /\ Reply(k)
    /\ UNCHANGED <<employee, grants, demoted, outdated, lent, regranted, writes>>

-----------------------------------------------------------------------------

\* update of a role: its permissions are replaced.
UpdateRole(a, r, g) ==
    /\ employee[a].status = "ACTIVE" /\ IsSuper(a)
    /\ Write
    /\ grants' = [grants EXCEPT ![r] = g]
    /\ regranted' = regranted \cup {r}
    /\ UNCHANGED <<employee, asked, demoted, outdated, lent>>

\* An update of access changes the status or the roles; that a caller may change
\* both at once is left out (a bound).
StaffNext ==
    \/ \E k \in StaffRequests, a \in Employees, u \in Employees :
          \/ \E rs \in RoleSets : BeginCreate(k, a, u, rs)
          \/ \E status \in {"ACTIVE", "INACTIVE"} : BeginUpdateAccess(k, a, u, status, {}, TRUE)
          \/ \E rs \in RoleSets : BeginUpdateAccess(k, a, u, "same", rs, FALSE)
          \/ BeginRemove(k, a, u)
    \/ \E k \in StaffRequests :
          CommitCreate(k) \/ CommitUpdateAccess(k) \/ CommitRemove(k) \/ Refuse(k)
    \/ \E k \in StaffRequests, sent \in BOOLEAN : Mail(k, sent)
    \/ \E a \in Employees, r \in Roles, g \in Grants : UpdateRole(a, r, g)

StaffSpec == StaffInit /\ [][StaffNext]_staffVars

-----------------------------------------------------------------------------

\* users.service.ts: "The organization must keep at least one active super
\* administrator."
SuperAdminKept == ActiveSupers # {}

\* The organization keeps an active super administrator through every series
\* of removals and deactivations, unless one was given other roles (which no
\* check covers) or a removal was written on a check that no longer held.
SuperAdminStays == demoted \/ outdated \/ ActiveSupers # {}

\* Nobody comes to administer users by the hand of a manager: a role that a
\* manager gave is not SUPER_ADMIN and administers nothing, unless a super
\* administrator replaced its permissions.
NoEscalation ==
    \A p \in lent : p[2] # Super /\ (p[2] \notin regranted => AdminKey \notin grants[p[2]])
=============================================================================
