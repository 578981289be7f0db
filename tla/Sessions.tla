------------------------------ MODULE Sessions ------------------------------
(***************************************************************************)
(* The auth service and its repository: sign-in, rotation of refresh       *)
(* sessions, sign-out, change and reset of the password                    *)
(* (src/modules/auth/auth.service.ts, auth.repository.ts), and the part of *)
(* a user's access change that touches sessions (users.service.ts).        *)
(*                                                                         *)
(* A handler reads the user, the session or the token first and writes in  *)
(* a later statement or transaction, which does not look again.  Passwords,*)
(* hashes and signatures are left out: a password is the number of times   *)
(* it was changed.  Every user of the source is created with a verified    *)
(* address, so no address is ever left to verify.                          *)
(***************************************************************************)
EXTENDS Integers, Sequences, FiniteSets

CONSTANTS
    Users,        \* the users with an account
    Requests,     \* the requests served at one time
    MaxAttempts,  \* wrong codes a challenge takes (5 in the code)
    MaxSessions,  \* bound: the sessions ever opened
    MaxTokens,    \* bound: the reset tokens ever created
    MaxChanges    \* bound: the changes of a user's access and password

ASSUME SessionsAssumption ==
    /\ IsFiniteSet(Requests)
    /\ MaxAttempts \in Nat \ {0}
    /\ MaxSessions \in Nat /\ MaxTokens \in Nat /\ MaxChanges \in Nat

VARIABLES
    account,   \* User: status, sessionVersion, and the password in use
    session,   \* RefreshSession, in the order of creation
    token,     \* SecurityToken of purpose PASSWORD_RESET, likewise
    request,   \* the request in progress
    crossed,   \* history: families rotated after the session had been revoked
    late,      \* history: users a sign-in was read before a change and written after
    doubled    \* history: users two reset requests or answers overlapped for

vars == <<account, session, token, request, crossed, late, doubled>>

Account == [status : {"ACTIVE", "INACTIVE"}, version : Nat, password : Nat]
RefreshSession == [user : Users, family : Nat \ {0}, live : BOOLEAN, since : Nat]
SecurityToken == [user : Users, verified : BOOLEAN, used : BOOLEAN, resets : Nat,
                  attempts : 0..(MaxAttempts + Cardinality(Requests))]
Idle == [op |-> "idle"]

RequestOK(r) ==
    \/ r = Idle
    \/ r \in [op : {"login"}, user : Users, since : Nat]
    \/ r \in [op : {"rotate", "expire", "reuse"}, session : DOMAIN session, live : BOOLEAN]
    \/ r \in [op : {"change"}, user : Users]
    \/ r \in [op : {"forgot"}, user : Users, visible : Nat]
    \/ r \in [op : {"rightCode", "wrongCode", "reset"}, token : DOMAIN token]

TypeOK ==
    /\ account \in [Users -> Account]
    /\ session \in Seq(RefreshSession) /\ Len(session) <= MaxSessions
    /\ \A i \in DOMAIN session : session[i].family <= i
    /\ token \in Seq(SecurityToken) /\ Len(token) <= MaxTokens
    /\ DOMAIN request = Requests /\ \A k \in Requests : RequestOK(request[k])
    /\ crossed \subseteq DOMAIN session
    /\ late \subseteq Users /\ doubled \subseteq Users

Init ==
    /\ account = [u \in Users |-> [status |-> "ACTIVE", version |-> 0, password |-> 0]]
    /\ session = <<>>
    /\ token = <<>>
    /\ request = [k \in Requests |-> Idle]
    /\ crossed = {} /\ late = {} /\ doubled = {}

-----------------------------------------------------------------------------

Start(k, r) ==
    /\ request[k] = Idle
    /\ request' = [request EXCEPT ![k] = r]
    /\ UNCHANGED <<account, session, token, crossed, late, doubled>>

Finish(k) == request' = [request EXCEPT ![k] = Idle]

\* A session that is revoked stays so.
Revoked(ends) ==
    [i \in DOMAIN session |->
        IF i \in ends THEN [session[i] EXCEPT !.live = FALSE] ELSE session[i]]

\* Fault: the sessions that are open outlive the change.
KeptOf(u) == session

RevokedOf(u) == Revoked({i \in DOMAIN session : session[i].user = u})

Open(k, op, t) == request[k].op = op /\ request[k].token = t

-----------------------------------------------------------------------------
(* login, loginCustomer and the callbacks of the identity providers: the   *)
(* user is read, then the session is created.                              *)

BeginLogin(k, u) ==
    /\ account[u].status = "ACTIVE" /\ Len(session) < MaxSessions
    /\ Start(k, [op |-> "login", user |-> u, since |-> account[u].password])

CommitLogin(k) ==
    LET r == request[k] IN
    /\ r.op = "login"
    /\ Len(session) < MaxSessions
    /\ session' = Append(session, [user |-> r.user, family |-> Len(session) + 1,
                                   live |-> TRUE, since |-> r.since])
    /\ late' = IF r.since # account[r.user].password \/ account[r.user].status # "ACTIVE"
                 THEN late \cup {r.user} ELSE late
    /\ Finish(k)
    /\ UNCHANGED <<account, token, crossed, doubled>>

-----------------------------------------------------------------------------
(* refresh and refreshCustomer: a live session is replaced by a new one of *)
(* its family; a revoked one revokes the family.                           *)

\* Fault: a session is looked up without regard to its revocation.
AnyAnswer(i, expired) == IF expired THEN "expire" ELSE "rotate"

Answer(i, expired) ==
    IF ~session[i].live THEN "reuse"
    ELSE IF expired \/ account[session[i].user].status # "ACTIVE" THEN "expire"
    ELSE "rotate"

BeginRefresh(k, i, expired) ==
    /\ Len(session) < MaxSessions
    /\ Start(k, [op |-> Answer(i, expired), session |-> i, live |-> session[i].live])

CommitRotate(k) ==
    LET i == request[k].session
        s == session[i]
    IN
    /\ request[k].op = "rotate"
    /\ Len(session) < MaxSessions
    /\ session' = Append([session EXCEPT ![i].live = FALSE], [s EXCEPT !.live = TRUE])
    /\ crossed' = IF request[k].live /\ ~s.live THEN crossed \cup {s.family} ELSE crossed
    /\ Finish(k)
    /\ UNCHANGED <<account, token, late, doubled>>

\* revokeRefreshFamily, or revokeRefreshSession of an expired or inactive one.
CommitRefusal(k) ==
    LET i == request[k].session
        family == {j \in DOMAIN session : session[j].family = session[i].family}
    IN
    /\ request[k].op \in {"expire", "reuse"}
    /\ session' = Revoked(IF request[k].op = "reuse" THEN family ELSE {i})
    /\ Finish(k)
    /\ UNCHANGED <<account, token, crossed, late, doubled>>

\* logout and revokeSession: one conditional update.
EndSession(i) ==
    /\ session[i].live
    /\ session' = [session EXCEPT ![i].live = FALSE]
    /\ UNCHANGED <<account, token, request, crossed, late, doubled>>

-----------------------------------------------------------------------------
(* changePassword, and updateAccess of the users service.                  *)

NewPassword(u) ==
    account' = [account EXCEPT ![u].password = @ + 1, ![u].version = @ + 1]

BeginChange(k, u) ==
    /\ account[u].status = "ACTIVE" /\ account[u].version < MaxChanges
    /\ Start(k, [op |-> "change", user |-> u])

CommitChange(k) ==
    LET u == request[k].user IN
    /\ request[k].op = "change"
    /\ account[u].version < MaxChanges
    /\ NewPassword(u)
    /\ session' = RevokedOf(u)
    /\ Finish(k)
    /\ UNCHANGED <<token, crossed, late, doubled>>

ChangeAccess(u, status) ==
    /\ account[u].version < MaxChanges
    /\ account' = [account EXCEPT ![u].status = status, ![u].version = @ + 1]
    /\ session' = RevokedOf(u)
    /\ UNCHANGED <<token, request, crossed, late, doubled>>

-----------------------------------------------------------------------------
(* forgotPassword, verifyResetOtp and resetPassword.                       *)

\* The first statement of createSecurityToken sees the tokens there are.
BeginForgot(k, u) ==
    /\ account[u].status = "ACTIVE" /\ Len(token) < MaxTokens
    /\ Start(k, [op |-> "forgot", user |-> u, visible |-> Len(token)])

CommitForgot(k) ==
    LET r == request[k]
        marked == [i \in DOMAIN token |->
            IF token[i].user = r.user /\ i <= r.visible THEN [token[i] EXCEPT !.used = TRUE]
                                                        ELSE token[i]]
    IN
    /\ r.op = "forgot"
    /\ Len(token) < MaxTokens
    /\ token' = Append(marked, [user |-> r.user, verified |-> FALSE, attempts |-> 0,
                                used |-> FALSE, resets |-> 0])
    /\ doubled' = IF r.visible < Len(token) THEN doubled \cup {r.user} ELSE doubled
    /\ Finish(k)
    /\ UNCHANGED <<account, session, crossed, late>>

\* Fault: the number of wrong codes is not looked at.
Unspent(i) == ~token[i].used /\ ~token[i].verified

Answerable(i) == ~token[i].used /\ ~token[i].verified /\ token[i].attempts < MaxAttempts

BeginVerify(k, i, right) ==
    /\ Answerable(i)
    /\ Start(k, [op |-> IF right THEN "rightCode" ELSE "wrongCode", token |-> i])

\* incrementTokenAttempts and replaceResetChallengeWithGrant ask for the id only.
CommitVerify(k) ==
    LET r == request[k]
        t == token[r.token]
    IN
    /\ r.op \in {"rightCode", "wrongCode"}
    /\ token' = [token EXCEPT ![r.token] =
          IF r.op = "wrongCode" THEN [t EXCEPT !.attempts = @ + 1]
                                ELSE [t EXCEPT !.verified = TRUE, !.attempts = 0]]
    /\ doubled' = IF Answerable(r.token) THEN doubled ELSE doubled \cup {t.user}
    /\ Finish(k)
    /\ UNCHANGED <<account, session, crossed, late>>

BeginReset(k, i) ==
    /\ ~token[i].used /\ token[i].verified
    /\ Start(k, [op |-> "reset", token |-> i])

CommitReset(k) ==
    LET i == request[k].token
        u == token[i].user
    IN
    /\ request[k].op = "reset"
    /\ account[u].version < MaxChanges
    /\ NewPassword(u)
    /\ token' = [token EXCEPT ![i].used = TRUE, ![i].resets = @ + 1]
    /\ session' = RevokedOf(u)
    /\ doubled' = IF token[i].used THEN doubled \cup {u} ELSE doubled
    /\ Finish(k)
    /\ UNCHANGED <<crossed, late>>

\* The password is wrong, a statement fails or the process stops.
Abandon(k) ==
    /\ request[k] # Idle
    /\ Finish(k)
    /\ UNCHANGED <<account, session, token, crossed, late, doubled>>

Next ==
    \/ \E k \in Requests, u \in Users : BeginLogin(k, u) \/ BeginChange(k, u) \/ BeginForgot(k, u)
    \/ \E k \in Requests, i \in DOMAIN session, expired \in BOOLEAN : BeginRefresh(k, i, expired)
    \/ \E k \in Requests, i \in DOMAIN token, right \in BOOLEAN : BeginVerify(k, i, right)
    \/ \E k \in Requests, i \in DOMAIN token : BeginReset(k, i)
    \/ \E k \in Requests :
          \/ CommitLogin(k) \/ CommitRotate(k) \/ CommitRefusal(k) \/ CommitChange(k)
          \/ CommitForgot(k) \/ CommitVerify(k) \/ CommitReset(k) \/ Abandon(k)
    \/ \E i \in DOMAIN session : EndSession(i)
    \/ \E u \in Users, status \in {"ACTIVE", "INACTIVE"} : ChangeAccess(u, status)

Spec == Init /\ [][Next]_vars

-----------------------------------------------------------------------------

LiveIn(f) == {i \in DOMAIN session : session[i].family = f /\ session[i].live}

\* However often a session is refreshed, repeated and signed out, its family
\* has one live session at most, unless a rotation had read the session before
\* it was revoked.
OneLiveSession == \A f \in DOMAIN session \ crossed : Cardinality(LiveIn(f)) <= 1

\* A session that was live before a change of the password or of the access
\* never outlives it, and none is opened with what was read before, unless a
\* sign-in or a rotation was under way across the change.
SessionsFollowChange ==
    \A i \in DOMAIN session :
        session[i].live /\ session[i].user \notin late /\ session[i].family \notin crossed =>
            /\ session[i].since = account[session[i].user].password
            /\ account[session[i].user].status = "ACTIVE"

\* A family that has ended, by sign-out, by a change or because a revoked
\* session was presented, never has a live session again.
EndedStaysEnded ==
    [][\A f \in DOMAIN session :
          f \notin crossed' /\ session[f].family = f /\ LiveIn(f) = {} => LiveIn(f)' = {}]_vars

\* A user has one usable reset token at most, it takes a bounded number of
\* wrong codes and resets the password once, unless requests overlapped.
ResetOnce ==
    \A i, j \in DOMAIN token :
        token[i].user \notin doubled =>
            /\ token[i].attempts <= MaxAttempts /\ token[i].resets <= 1
            /\ token[i].user = token[j].user /\ ~token[i].used /\ ~token[j].used => i = j

\* A session or a token gives access only while what it was issued for lasts.
AccessEnds == OneLiveSession /\ SessionsFollowChange /\ ResetOnce
=============================================================================
