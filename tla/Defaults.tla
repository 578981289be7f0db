------------------------------ MODULE Defaults ------------------------------
(***************************************************************************)
(* The tables of which one row is the chosen one: the default visual theme *)
(* of an organization, the default dashboard of a user, the active loyalty *)
(* rule; and the system template that every list looks for                 *)
(* (src/modules/dashboard/*, src/modules/loyalty/loyalty.service.ts).      *)
(*                                                                         *)
(* A row is chosen in one transaction of two statements: the rows that are *)
(* chosen at its start are unset, then the row is written.  Rows chosen in *)
(* between are not seen.  No code makes a shared dashboard: it is there.   *)
(* A dashboard may be for one branch; themes and rules are not.            *)
(***************************************************************************)
EXTENDS Integers, FiniteSets

CONSTANTS
    Rows,       \* the rows of each table
    Standard,   \* the theme named Default
    Callers,    \* the requests served at one time
    Tenants,    \* the organizations
    Shops,      \* the branches
    Dashboards, \* bound: the rows that dashboards use
    MaxStandard \* bound: the themes and templates named Default

ASSUME DefaultsAssumption ==
    /\ Standard \in Rows /\ Dashboards \subseteq Rows
    /\ MaxStandard \in Nat \ {0, 1}

VARIABLES
    table,      \* the table that is looked at: no step touches two of them
    row,        \* its rows: "none", "plain" or "chosen"
    choice,     \* the request in progress
    beside,     \* history: rows that were chosen beside one nothing looked for
    site,       \* the branch a dashboard is for
    hasty,      \* history: a theme was unset or deleted on an outdated check
    ensuring,   \* a list in progress: its organization and what it found
    templates,  \* the system templates named Default
    twice       \* history: the lists of two organizations overlapped

defaultsVars == <<table, row, choice, site, beside, hasty, ensuring, templates, twice>>

Unused == [op |-> "unused"]
NotCalled == [found |-> "nothingYet"]
NoShop == "noBranch"
Sites == Shops \cup {NoShop}

\* An update that does not speak of the branch.
AsItWas == "asItWas"

ChoiceOK(c) ==
    \/ c = Unused
    \/ c \in [op : {"choose", "ensure"}, row : Rows, new : BOOLEAN, seen : SUBSET Rows,
              to : Sites \cup {AsItWas}]
    \/ c \in [op : {"unset", "delete"}, row : Rows, needed : BOOLEAN]
    \/ c \in [op : {"initial"}, row : Rows, to : Sites]

DefaultsTypeOK ==
    /\ table \in {"theme", "dashboard", "rule"}
    /\ row \in [Rows -> {"none", "plain", "chosen"}]
    /\ DOMAIN choice = Callers /\ \A k \in Callers : ChoiceOK(choice[k])
    /\ beside \subseteq Rows /\ hasty \in BOOLEAN
    /\ site \in [Rows -> Sites]
    /\ \A k \in Callers :
          ensuring[k] = NotCalled \/ ensuring[k] \in [tenant : Tenants, found : BOOLEAN]
    /\ templates \in 0..MaxStandard /\ twice \in BOOLEAN

DefaultsInit ==
    /\ table \in {"theme", "dashboard", "rule"}
    /\ row = [r \in Rows |-> "none"]
    /\ choice = [k \in Callers |-> Unused]
    /\ site = [r \in Rows |-> NoShop]
    /\ beside = {} /\ hasty = FALSE
    /\ ensuring = [k \in Callers |-> NotCalled] /\ templates = 0 /\ twice = FALSE

tableVars == <<table, row, choice, site, beside, hasty>>
templateVars == <<ensuring, templates, twice>>

There == {r \in Rows : row[r] # "none"}
Spare(r) == row[r] = "none" /\ (table = "dashboard" => r \in Dashboards)
Chosen == {r \in Rows : row[r] = "chosen"}

\* A row is chosen in a branch: was another one, that is not known?
Settle(r, to, known) ==
    beside' = IF \E s \in Chosen \ ({r} \cup known) : site[s] = to
              THEN beside \cup {r} ELSE beside \ {r}

Call(k, c) ==
    /\ choice[k] = Unused
    /\ choice' = [choice EXCEPT ![k] = c]
    /\ UNCHANGED <<table, row, site, beside, hasty, templateVars>>

Hang(k) == choice' = [choice EXCEPT ![k] = Unused]

-----------------------------------------------------------------------------

\* Fault: the rows that are chosen are not unset.
NoneUnset(r, seen) == {}

Unset(r, seen) == {s \in seen \ {r} : row[s] = "chosen"}

\* The first statement of a transaction that chooses a row.
Choose(k, op, r, to) ==
    Call(k, [op |-> op, row |-> r, new |-> row[r] = "none", seen |-> Chosen, to |-> to])

\* create of a theme: the default one, or the first.
CreateTheme(k, r) ==
    /\ table = "theme" /\ r # Standard /\ Spare(r)
    /\ Choose(k, "choose", r, AsItWas)

\* setDefault, and update of a theme that makes it the default.
SetDefault(k, r) ==
    /\ table = "theme" /\ r \in There
    /\ Choose(k, "choose", r, AsItWas)

\* list of the themes: the one named Default is made, or chosen again.  Within
\* the process one list does this at a time.
EnsureTheme(k) ==
    /\ table = "theme" /\ row[Standard] # "chosen"
    /\ \A j \in Callers : choice[j].op # "ensure"
    /\ Choose(k, "ensure", Standard, AsItWas)

\* create of a default dashboard.  One that is to be created beside a default
\* one of its branch overwrites that and chooses nothing.
CreateDashboard(k, r, to) ==
    /\ table = "dashboard" /\ Spare(r)
    /\ Choose(k, "choose", r, to)

UpdateDashboard(k, r, to) ==
    /\ table = "dashboard" /\ r \in There
    /\ Choose(k, "choose", r, to)

\* Every new rule is the active one.
CreateLoyaltyRule(k, r) ==
    /\ table = "rule" /\ Spare(r)
    /\ Choose(k, "choose", r, AsItWas)

UpdateLoyaltyRule(k, r) ==
    /\ table = "rule" /\ r \in There
    /\ Choose(k, "choose", r, AsItWas)

\* The branch of what is chosen.
SiteOf(c) == IF c.to = AsItWas THEN site[c.row] ELSE c.to

CommitChoose(k) ==
    LET c == choice[k] IN
    /\ c.op \in {"choose", "ensure"}
    /\ c.new <=> row[c.row] = "none"
    /\ row' = [s \in Rows |-> CASE s = c.row -> "chosen"
                                [] s \in Unset(c.row, c.seen) -> "plain"
                                [] OTHER -> row[s]]
    /\ site' = [site EXCEPT ![c.row] = SiteOf(c)]
    /\ Settle(c.row, SiteOf(c), c.seen)
    /\ Hang(k)
    /\ UNCHANGED <<table, hasty, templateVars>>

\* create of a theme or a dashboard that is not to be the default.
AddPlain(r, to) ==
    /\ table # "rule" /\ r # Standard /\ Spare(r)
    /\ to = NoShop \/ (table = "dashboard" /\ to \in Shops)
    /\ row' = [row EXCEPT ![r] = "plain"]
    /\ site' = [site EXCEPT ![r] = to]
    /\ UNCHANGED <<table, choice, beside, hasty, templateVars>>

\* update of the branch of a dashboard.
MoveDashboard(r, to) ==
    /\ table = "dashboard" /\ r \in There /\ to # site[r]
    /\ site' = [site EXCEPT ![r] = to]
    /\ Settle(r, to, {})
    /\ UNCHANGED <<table, row, choice, hasty, templateVars>>

\* Fault: the default theme is given up whatever else there is.
AnyTime(r) == row[r] # "none"

\* The default theme is unset or deleted only if it is the last one.
MayGiveUp(r) ==
    row[r] # "none" /\ (table = "theme" /\ row[r] = "chosen" => There = {r})

\* Without this row, the others would have no chosen one.
Needed(r) == Chosen = {r} /\ There # {r}

BeginGiveUp(k, op, r) ==
    /\ op = "delete" => table # "rule"
    /\ MayGiveUp(r)
    /\ Call(k, [op |-> op, row |-> r, needed |-> Needed(r)])

CommitGiveUp(k) ==
    LET c == choice[k] IN
    /\ c.op \in {"unset", "delete"} /\ row[c.row] # "none"
    /\ row' = [row EXCEPT ![c.row] = IF c.op = "delete" THEN "none" ELSE "plain"]
    /\ site' = IF c.op = "delete" THEN [site EXCEPT ![c.row] = NoShop] ELSE site
    /\ hasty' = (hasty \/ (Needed(c.row) /\ ~c.needed))
    /\ Hang(k)
    /\ UNCHANGED <<table, beside, templateVars>>

\* What a list of the default dashboards finds: all, or those of its branch.
Listed(to) == IF to = NoShop THEN Chosen ELSE {s \in Chosen : site[s] = to}

\* list of the default dashboards, of a branch or of all, that finds none, not
\* even a shared one; other branches may have theirs.
BeginInitial(k, r, to) ==
    /\ table = "dashboard" /\ Spare(r) /\ Listed(to) = {}
    /\ Call(k, [op |-> "initial", row |-> r, to |-> to])

CommitInitial(k) ==
    LET c == choice[k] IN
    /\ c.op = "initial" /\ row[c.row] = "none"
    /\ row' = [row EXCEPT ![c.row] = "chosen"]
    /\ site' = [site EXCEPT ![c.row] = c.to]
    /\ Settle(c.row, c.to, {})
    /\ Hang(k)
    /\ UNCHANGED <<table, hasty, templateVars>>

\* updateLayout and applyTemplate of a shared dashboard.
Fork(r, to) ==
    /\ table = "dashboard" /\ Spare(r)
    /\ row' = [row EXCEPT ![r] = "chosen"]
    /\ site' = [site EXCEPT ![r] = to]
    /\ Settle(r, to, {})
    /\ UNCHANGED <<table, choice, hasty, templateVars>>

\* A row that has gone, or has come, fails the request.
FailChoice(k) ==
    /\ choice[k] # Unused
    /\ Hang(k)
    /\ UNCHANGED <<table, row, site, beside, hasty, templateVars>>

-----------------------------------------------------------------------------
(* ensureDefaultTemplate: the lock is of the organization, the template is *)
(* of all.                                                                 *)

\* Fault: a list does not wait for the one in flight.
Unlocked(o) == o \in Tenants

Lockable(o) == \A k \in Callers : ensuring[k] # NotCalled => ensuring[k].tenant # o

BeginTemplate(k, o) ==
    /\ ensuring[k] = NotCalled /\ Lockable(o)
    /\ ensuring' = [ensuring EXCEPT ![k] = [tenant |-> o, found |-> templates > 0]]
    /\ twice' = (twice \/ \E j \in Callers : ensuring[j] # NotCalled /\ ensuring[j].tenant # o)
    /\ UNCHANGED <<templates, tableVars>>

CommitTemplate(k) ==
    /\ ensuring[k] # NotCalled
    /\ ensuring[k].found \/ templates < MaxStandard
    /\ templates' = IF ensuring[k].found THEN templates ELSE templates + 1
    /\ ensuring' = [ensuring EXCEPT ![k] = NotCalled]
    /\ UNCHANGED <<twice, tableVars>>

ChoiceNext ==
    \/ \E k \in Callers, r \in Rows :
          \/ CreateTheme(k, r) \/ SetDefault(k, r)
          \/ CreateLoyaltyRule(k, r) \/ UpdateLoyaltyRule(k, r)
          \/ UpdateDashboard(k, r, AsItWas)
          \/ \E to \in Sites :
                CreateDashboard(k, r, to) \/ UpdateDashboard(k, r, to) \/ BeginInitial(k, r, to)
          \/ \E op \in {"unset", "delete"} : BeginGiveUp(k, op, r)
    \/ \E k \in Callers :
          EnsureTheme(k) \/ CommitChoose(k) \/ CommitGiveUp(k) \/ CommitInitial(k) \/ FailChoice(k)
    \/ \E r \in Rows, to \in Sites : AddPlain(r, to) \/ MoveDashboard(r, to) \/ Fork(r, to)

TemplateNext ==
    \E k \in Callers : CommitTemplate(k) \/ \E o \in Tenants : BeginTemplate(k, o)

DefaultsNext == ChoiceNext \/ TemplateNext

DefaultsSpec == DefaultsInit /\ [][DefaultsNext]_defaultsVars

-----------------------------------------------------------------------------

\* One theme, one loyalty rule and one dashboard of each branch at most is the
\* chosen one, but for a row that was chosen while another one was, that was
\* forked from a shared dashboard or that was moved to the branch, until it is
\* chosen again; and there is one system template, unless the lists of two
\* organizations overlapped.  A user may have a default dashboard in each of
\* several branches: a list makes one where it finds none.
OneDefault ==
    /\ \A r, s \in Chosen \ beside : site[r] = site[s] => r = s
    /\ twice \/ templates <= 1

\* An organization that has a default theme among several keeps one, unless
\* the theme was unset or deleted on an outdated check.
ThemeKept ==
    [][table = "theme" /\ ~hasty' /\ Chosen # {} /\ Cardinality(There) > 1
        => Chosen' # {}]_defaultsVars
=============================================================================
