------------------------------ MODULE Partners ------------------------------
(***************************************************************************)
(* The account a supplier has for the portal, and the numbers customers    *)
(* are given: suppliers.service.ts, users.service.ts and                   *)
(* customers.service.ts of src/modules.                                    *)
(*                                                                         *)
(* A supplier is read before the transaction that writes it; the password  *)
(* is mailed after it, and what was written is taken back if the mail      *)
(* fails: that of a new supplier in one transaction, that of an update in  *)
(* two statements.  The account is a user like others: the users service   *)
(* changes and deletes it too.  A customer's number is the highest one     *)
(* read plus one; the unique index refuses one that was taken in between.  *)
(***************************************************************************)
EXTENDS Integers, FiniteSets

CONSTANTS
    Buyers,        \* the requests served at one time
    MaxAttempts,   \* the numbers tried for one customer (5 in the code)
    Widest,        \* the highest number of six digits (999999 in the code)
    MaxCustomers   \* bound: the customers ever created

ASSUME PartnersAssumption ==
    MaxAttempts \in Nat \ {0} /\ Widest \in Nat /\ MaxCustomers \in Nat

VARIABLES
    supplier,   \* Supplier: there, status, portalEnabled
    account,    \* the status of the portal's user, or "none"
    change,     \* the request in progress
    astray,     \* history: the account and the portal went separate ways
    customers,  \* the numbers of the customers are 1 to customers
    signup,     \* the creation of a customer in progress
    refused     \* history: the customers that came before a creation gave up

partnersVars == <<supplier, account, change, astray, customers, signup, refused>>
supplierVars == <<supplier, account, change, astray>>
customerVars == <<customers, signup, refused>>

Status == {"ACTIVE", "INACTIVE"}
Supplier == [there : BOOLEAN, status : Status, enabled : BOOLEAN]
NoSupplier == [there |-> FALSE, status |-> "ACTIVE", enabled |-> FALSE]
NoChange == [op |-> "none"]
Switching == [op |-> "switch"]
NoSignup == [attempt |-> 0]

ChangeOK(c) ==
    \/ c = NoChange
    \/ c \in [op : {"update"}, status : Status \cup {"same"}, portal : {"on", "off", "same"},
              enabled : BOOLEAN, account : Status \cup {"none", "gone"}]
    \/ c \in [op : {"mail"}, created : BOOLEAN, own : BOOLEAN]
    \/ c = Switching

PartnersTypeOK ==
    /\ supplier \in Supplier /\ account \in Status \cup {"none"}
    /\ \A k \in Buyers : ChangeOK(change[k])
    /\ astray \in BOOLEAN
    /\ customers \in 0..MaxCustomers
    /\ \A k \in Buyers : signup[k] = NoSignup \/
          signup[k] \in [attempt : 1..MaxAttempts, read : 0..MaxCustomers, since : 0..MaxCustomers]
    /\ refused \subseteq 0..MaxCustomers

PartnersInit ==
    /\ supplier = NoSupplier /\ account = "none"
    /\ change = [k \in Buyers |-> NoChange]
    /\ astray = FALSE
    /\ customers = 0
    /\ signup = [k \in Buyers |-> NoSignup]
    /\ refused = {}

-----------------------------------------------------------------------------

ToMail(created) == [op |-> "mail", created |-> created, own |-> TRUE]

\* create: the supplier and, if the portal is enabled, its account.  A change
\* that is in progress is of a supplier that has gone.
CreateSupplier(k, enabled) ==
    /\ ~supplier.there /\ \A j \in Buyers : change[j] = NoChange
    /\ supplier' = [there |-> TRUE, status |-> "ACTIVE", enabled |-> enabled]
    /\ account' = IF enabled THEN "ACTIVE" ELSE "none"
    /\ change' = IF enabled THEN [change EXCEPT ![k] = ToMail(TRUE)] ELSE change
    /\ astray' = FALSE
    /\ UNCHANGED customerVars

BeginSupplierUpdate(k, status, portal) ==
    /\ change[k] = NoChange /\ supplier.there
    /\ change' = [change EXCEPT ![k] = [op |-> "update", status |-> status, portal |-> portal,
                                        enabled |-> supplier.enabled, account |-> account]]
    /\ UNCHANGED <<supplier, account, astray, customerVars>>

\* Fault: an active supplier has an active account whether the portal is
\* enabled or not.
Blind(c) ==
    CASE c.portal = "on" -> "ACTIVE"
      [] c.portal = "off" -> "INACTIVE"
      [] c.portal = "same" -> c.status

\* The account that an update leaves if it writes one, by what was read.
Granted(c) ==
    CASE c.portal = "on" -> "ACTIVE"
      [] c.portal = "off" -> "INACTIVE"
      [] c.portal = "same" -> IF c.status = "ACTIVE" /\ c.enabled THEN "ACTIVE" ELSE "INACTIVE"

\* An update writes the account, or leaves the portal off without one.
Settles(c) == c.portal # "same" \/ (c.status # "same" /\ account # "none")

\* An account that was not there when it was read is left alone, one that has
\* gone does not come back, and one that is to be made must not be there.
CommitSupplierUpdate(k) ==
    LET c == change[k]
        needs == c.portal = "on" /\ c.account = "none"
    IN
    /\ c.op = "update" /\ supplier.there
    /\ needs => account = "none"
    /\ supplier' = [supplier EXCEPT !.status = IF c.status = "same" THEN @ ELSE c.status,
                                    !.enabled = IF c.portal = "same" THEN @ ELSE c.portal = "on"]
    /\ account' = IF needs \/ (account # "none" /\ c.account \in Status
                               /\ (c.portal # "same" \/ c.status # "same"))
                    THEN Granted(c) ELSE account
    /\ astray' = \/ c.enabled # supplier.enabled \/ c.account # account
                 \/ astray /\ ~Settles(c)
    /\ change' = [change EXCEPT ![k] = IF needs THEN ToMail(FALSE) ELSE NoChange]
    /\ UNCHANGED customerVars

\* The account is deleted: to an update that read it, and to the mail for it,
\* it has gone.
Orphaned(j) ==
    CASE change[j].op = "update" /\ change[j].account \in Status ->
            [change[j] EXCEPT !.account = "gone"]
      [] change[j].op = "mail" -> [change[j] EXCEPT !.own = FALSE]
      [] OTHER -> change[j]

\* What is left to do when the account has been taken back.
AfterTakeBack(created) == IF created THEN NoChange ELSE Switching

\* The password is sent, or the account is taken back, which fails if it has
\* gone; with it goes the supplier that has just been created.
SupplierMail(k, sent) ==
    LET c == change[k] IN
    /\ c.op = "mail" /\ (~sent => c.own)
    /\ supplier' = IF sent \/ ~c.created THEN supplier ELSE NoSupplier
    /\ account' = IF sent THEN account ELSE "none"
    /\ change' = IF sent THEN [change EXCEPT ![k] = NoChange]
                 ELSE [j \in Buyers |-> IF j = k THEN AfterTakeBack(c.created) ELSE Orphaned(j)]
    /\ astray' = (astray /\ (sent \/ ~c.created))
    /\ UNCHANGED customerVars

\* The second statement of the take-back; another update may have made an
\* account meanwhile.
SwitchOff(k) ==
    /\ change[k] = Switching /\ supplier.there
    /\ supplier' = [supplier EXCEPT !.enabled = FALSE]
    /\ astray' = (account # "none")
    /\ change' = [change EXCEPT ![k] = NoChange]
    /\ UNCHANGED <<account, customerVars>>

\* A write fails, or the process stops: the mail is never sent, or the portal
\* not switched off.
StopChange(k) ==
    /\ change[k] # NoChange
    /\ astray' = (astray \/ change[k] = Switching)
    /\ change' = [change EXCEPT ![k] = NoChange]
    /\ UNCHANGED <<supplier, account, customerVars>>

\* updateAccess of the users service.
OverruleAccount(to) ==
    /\ account \notin {"none", to}
    /\ account' = to /\ astray' = TRUE
    /\ UNCHANGED <<supplier, change, customerVars>>

\* remove of the users service.
DeleteAccount ==
    /\ account # "none"
    /\ account' = "none" /\ astray' = TRUE
    /\ change' = [j \in Buyers |-> Orphaned(j)]
    /\ UNCHANGED <<supplier, customerVars>>

-----------------------------------------------------------------------------

\* The highest number among the codes.  Those are sorted as strings: behind one
\* of six digits, the first of seven is not seen.
Highest == IF customers > Widest THEN Widest ELSE customers

BeginSignup(k) ==
    /\ signup[k] = NoSignup /\ customers < MaxCustomers
    /\ signup' = [signup EXCEPT ![k] = [attempt |-> 1, read |-> Highest, since |-> customers]]
    /\ UNCHANGED <<customers, refused, supplierVars>>

\* createWithGeneratedNumber, and another attempt if the number was taken.
CommitSignup(k) ==
    LET s == signup[k]
        free == s.read = customers
        last == s.attempt = MaxAttempts
    IN
    /\ s # NoSignup /\ customers < MaxCustomers
    /\ customers' = IF free THEN customers + 1 ELSE customers
    /\ signup' = [signup EXCEPT ![k] =
                    IF free \/ last THEN NoSignup
                    ELSE [s EXCEPT !.attempt = @ + 1, !.read = Highest]]
    /\ refused' = IF ~free /\ last THEN refused \cup {customers - s.since} ELSE refused
    /\ UNCHANGED supplierVars

SupplierNext ==
    \/ \E k \in Buyers, enabled \in BOOLEAN : CreateSupplier(k, enabled) \/ SupplierMail(k, enabled)
    \/ \E k \in Buyers, status \in Status \cup {"same"}, portal \in {"on", "off", "same"} :
          BeginSupplierUpdate(k, status, portal)
    \/ \E k \in Buyers : CommitSupplierUpdate(k) \/ SwitchOff(k) \/ StopChange(k)
    \/ \E to \in Status : OverruleAccount(to)
    \/ DeleteAccount

CustomerNext == \E k \in Buyers : BeginSignup(k) \/ CommitSignup(k)

PartnersNext == SupplierNext \/ CustomerNext

PartnersSpec == PartnersInit /\ [][PartnersNext]_partnersVars

-----------------------------------------------------------------------------

\* The account of a supplier is active only while its portal is enabled, and an
\* active supplier with the portal enabled has one, but for the time in which a
\* mail that failed is taken back.  They agree again with the next update that
\* writes both after an update on an outdated read, a take-back cut short or
\* crossed by another account, or a change of the users service.
PortalAgrees ==
    ~astray => /\ account = "ACTIVE" => supplier.enabled
               /\ \/ \E k \in Buyers : change[k] = Switching
                  \/ supplier.there /\ supplier.enabled /\ supplier.status = "ACTIVE"
                        => account = "ACTIVE"

\* A customer is refused for want of a number only if at least as many others
\* were created meanwhile as numbers were tried, as long as numbers of six
\* digits last; behind the first of seven everyone is refused.
RefusedForCause == customers > Widest \/ \A n \in refused : n >= MaxAttempts

\* Partners get what they are entitled to, an account or a number.
PartnersServed == PortalAgrees /\ RefusedForCause
=============================================================================
