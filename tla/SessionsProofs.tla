--------------------------- MODULE SessionsProofs ---------------------------
(***************************************************************************)
(* Proofs about the refresh sessions and the reset tokens, for any users   *)
(* and any number of requests, sessions and tokens.                        *)
(*                                                                         *)
(* A handler writes on what it read, so the argument is what the read may  *)
(* still be worth: a rotation was begun on a live session, and of every    *)
(* token only so many wrong codes can be under way.                        *)
(***************************************************************************)
EXTENDS Sessions, FiniteSetTheorems, SequenceTheorems, TLAPS

\* The requests that are about to count a wrong code against a token.
Wrong(i) == {k \in Requests : Open(k, "wrongCode", i)}

\* A rotation was begun on a session that was live.
RotationsLive == \A k \in Requests : request[k].op = "rotate" => request[k].live

\* The wrong codes of a token, those under way included, stay below the bound
\* that the number of requests sets.
AttemptsCounted ==
    \A i \in DOMAIN token :
        token[i].attempts + Cardinality(Wrong(i)) <= MaxAttempts + Cardinality(Requests)

\* Of a family that no rotation crossed, one session at most is live.
OneOfFamily ==
    \A i, j \in DOMAIN session :
        /\ session[i].family = session[j].family /\ session[i].family \notin crossed
        /\ session[i].live /\ session[j].live
        => i = j

\* A token that has reset a password is used, so a user no requests overlapped
\* for cannot reset it again.
SpentIsUsed == \A i \in DOMAIN token : token[i].resets > 0 => token[i].used

SessionsInv ==
    /\ TypeOK
    /\ RotationsLive
    /\ AttemptsCounted
    /\ OneOfFamily
    /\ SessionsFollowChange
    /\ SpentIsUsed
    /\ ResetOnce

-----------------------------------------------------------------------------
(* What a step does to the sessions.                                       *)

\* No session is opened and none comes back.
Revokes ==
    /\ session' \in Seq(RefreshSession) /\ Len(session') = Len(session)
    /\ DOMAIN session' = DOMAIN session
    /\ \A i \in DOMAIN session :
          /\ session'[i].user = session[i].user
          /\ session'[i].family = session[i].family
          /\ session'[i].since = session[i].since
          /\ session'[i].live => session[i].live

\* One session is opened, and none comes back.
Opens(row) ==
    /\ session' \in Seq(RefreshSession) /\ Len(session') = Len(session) + 1
    /\ DOMAIN session' = 1..(Len(session) + 1)
    /\ \A i \in DOMAIN session :
          /\ session'[i].user = session[i].user
          /\ session'[i].family = session[i].family
          /\ session'[i].since = session[i].since
          /\ session'[i].live => session[i].live
    /\ session'[Len(session) + 1] = row

\* Revoking the sessions of a set changes nothing else.
LEMMA RevokedRows ==
    ASSUME session \in Seq(RefreshSession), NEW ends, session' = Revoked(ends)
    PROVE  /\ Revokes
           /\ \A i \in DOMAIN session : i \in ends => ~session'[i].live
<1>1. /\ Len(session) \in Nat /\ DOMAIN session = 1..Len(session)
      /\ \A i \in 1..Len(session) : session[i] \in RefreshSession
  BY LenProperties, ElementOfSeq
<1> DEFINE row(i) == IF i \in ends THEN [session[i] EXCEPT !.live = FALSE] ELSE session[i]
<1>2. \A i \in 1..Len(session) :
         /\ row(i) \in RefreshSession
         /\ row(i).user = session[i].user /\ row(i).family = session[i].family
         /\ row(i).since = session[i].since /\ (row(i).live => session[i].live)
         /\ i \in ends => ~row(i).live
  BY <1>1 DEF RefreshSession
<1>3. session' = [i \in 1..Len(session) |-> row(i)]
  BY <1>1 DEF Revoked
<1>4. session' \in Seq(RefreshSession)
  <2> HIDE DEF row
  <2>1. [i \in 1..Len(session) |-> row(i)] \in [1..Len(session) -> RefreshSession]
    BY <1>2
  <2> QED  BY <2>1, <1>1, <1>3, SeqDef
<1>5. DOMAIN session' = 1..Len(session) /\ \A i \in 1..Len(session) : session'[i] = row(i)
  BY <1>3
<1>6. Len(session') = Len(session)
  BY <1>1, <1>4, <1>5, LenProperties
<1> QED
  <2> HIDE DEF row
  <2> QED  BY <1>1, <1>2, <1>4, <1>5, <1>6 DEF Revokes

\* Revoking one session changes nothing else.
LEMMA OneRevoked ==
    ASSUME session \in Seq(RefreshSession), NEW i \in DOMAIN session,
           session' = [session EXCEPT ![i].live = FALSE]
    PROVE  Revokes
<1>1. /\ Len(session) \in Nat /\ DOMAIN session = 1..Len(session)
      /\ \A j \in 1..Len(session) : session[j] \in RefreshSession
  BY LenProperties, ElementOfSeq
<1> DEFINE row == [session[i] EXCEPT !.live = FALSE]
<1>2. /\ row \in RefreshSession
      /\ row.user = session[i].user /\ row.family = session[i].family
      /\ row.since = session[i].since /\ ~row.live
  BY <1>1 DEF RefreshSession
<1>3. session' = [session EXCEPT ![i] = row]
  OBVIOUS
<1>4. /\ session' \in Seq(RefreshSession) /\ Len(session') = Len(session)
      /\ \A j \in 1..Len(session) : session'[j] = IF j = i THEN row ELSE session[j]
  <2> HIDE DEF row
  <2>1. /\ [session EXCEPT ![i] = row] \in Seq(RefreshSession)
        /\ Len([session EXCEPT ![i] = row]) = Len(session)
        /\ \A j \in 1..Len(session) :
              [session EXCEPT ![i] = row][j] = IF j = i THEN row ELSE session[j]
    BY <1>1, <1>2, ExceptSeq
  <2> QED  BY <2>1, <1>3
<1> HIDE DEF row
<1>5. DOMAIN session' = DOMAIN session
  BY <1>1, <1>4, LenProperties
<1> QED  BY <1>1, <1>2, <1>4, <1>5 DEF Revokes

\* A session appended is the last.
LEMMA OneOpened ==
    ASSUME session \in Seq(RefreshSession), NEW row \in RefreshSession,
           session' = Append(session, row)
    PROVE  Opens(row)
<1>1. /\ Len(session) \in Nat /\ DOMAIN session = 1..Len(session)
      /\ \A j \in 1..Len(session) : session[j] \in RefreshSession
  BY LenProperties, ElementOfSeq
<1>2. /\ session' \in Seq(RefreshSession) /\ Len(session') = Len(session) + 1
      /\ \A j \in 1..Len(session) : session'[j] = session[j]
      /\ session'[Len(session) + 1] = row
  BY AppendProperties
<1>3. DOMAIN session' = 1..(Len(session) + 1)
  BY <1>2, LenProperties
<1> QED  BY <1>1, <1>2, <1>3 DEF Opens

\* The replacement of a session is appended after the session was revoked.
LEMMA OneReplaced ==
    ASSUME session \in Seq(RefreshSession), NEW i \in DOMAIN session,
           NEW row \in RefreshSession,
           session' = Append([session EXCEPT ![i].live = FALSE], row)
    PROVE  Opens(row) /\ ~session'[i].live
<1>1. /\ Len(session) \in Nat /\ DOMAIN session = 1..Len(session)
      /\ \A j \in 1..Len(session) : session[j] \in RefreshSession
  BY LenProperties, ElementOfSeq
<1> DEFINE ended == [session[i] EXCEPT !.live = FALSE]
           mid == [session EXCEPT ![i] = ended]
<1>2. /\ ended \in RefreshSession
      /\ ended.user = session[i].user /\ ended.family = session[i].family
      /\ ended.since = session[i].since /\ ~ended.live
  BY <1>1 DEF RefreshSession
<1>3. session' = Append(mid, row)
  OBVIOUS
<1>4. /\ mid \in Seq(RefreshSession) /\ Len(mid) = Len(session)
      /\ \A j \in 1..Len(session) : mid[j] = IF j = i THEN ended ELSE session[j]
  <2> HIDE DEF ended
  <2> QED  BY <1>1, <1>2, ExceptSeq
<1> HIDE DEF ended, mid
<1>5. /\ session' \in Seq(RefreshSession) /\ Len(session') = Len(session) + 1
      /\ \A j \in 1..Len(session) : session'[j] = mid[j]
      /\ session'[Len(session) + 1] = row
  <2>1. /\ Append(mid, row) \in Seq(RefreshSession)
        /\ Len(Append(mid, row)) = Len(mid) + 1
        /\ \A j \in 1..Len(mid) : Append(mid, row)[j] = mid[j]
        /\ Append(mid, row)[Len(mid) + 1] = row
    BY <1>4, AppendProperties
  <2> QED  BY <2>1, <1>3, <1>4
<1>6. DOMAIN session' = 1..(Len(session) + 1)
  BY <1>5, LenProperties
<1>7. \A j \in 1..Len(session) : session'[j] = IF j = i THEN ended ELSE session[j]
  BY <1>4, <1>5
<1> QED  BY <1>1, <1>2, <1>5, <1>6, <1>7 DEF Opens

\* The part of the type that is about sessions.
SessionsTyped ==
    /\ session \in Seq(RefreshSession) /\ Len(session) <= MaxSessions
    /\ \A i \in DOMAIN session : session[i].family <= i
    /\ crossed \subseteq DOMAIN session

\* What the sessions' type says of one of them.
LEMMA SessionRows ==
    ASSUME TypeOK
    PROVE  /\ SessionsTyped
           /\ Len(session) \in Nat /\ DOMAIN session = 1..Len(session)
           /\ \A i \in DOMAIN session :
                 /\ session[i] \in RefreshSession /\ session[i].user \in Users
                 /\ session[i].family \in 1..Len(session)
                 /\ session[i].since \in Nat /\ session[i].live \in BOOLEAN
<1>1. SessionsTyped
  BY DEF TypeOK, SessionsTyped
<1>2. /\ Len(session) \in Nat /\ DOMAIN session = 1..Len(session)
      /\ \A j \in DOMAIN session : session[j] \in RefreshSession
  BY LenProperties, ElementOfSeq, <1>1 DEF SessionsTyped
<1> QED  BY <1>1, <1>2 DEF SessionsTyped, RefreshSession

\* Revoking keeps the type, and a family does not get a second live session.
LEMMA RevokesFamily ==
    ASSUME TypeOK, OneOfFamily, Revokes, crossed' = crossed
    PROVE  SessionsTyped' /\ OneOfFamily'
<1>1. SessionsTyped
  BY SessionRows
<1>2. SessionsTyped'
  BY <1>1 DEF SessionsTyped, Revokes
<1>3. OneOfFamily'
  BY DEF OneOfFamily, Revokes
<1> QED  BY <1>2, <1>3

\* Revoking keeps the sessions in step with their users, when it ends every
\* session of a user whose password or access changes.
LEMMA RevokesFollow ==
    ASSUME SessionsFollowChange, Revokes, crossed' = crossed, late' = late,
           \A i \in DOMAIN session : session'[i].live =>
               /\ account'[session[i].user].password = account[session[i].user].password
               /\ account'[session[i].user].status = account[session[i].user].status
    PROVE  SessionsFollowChange'
BY DEF SessionsFollowChange, Revokes

-----------------------------------------------------------------------------
(* What a step does to the requests and to the wrong codes they count.     *)

RequestsTyped == DOMAIN request = Requests /\ \A k \in Requests : RequestOK(request[k])

\* What a request carries.
LEMMA RequestShape ==
    ASSUME TypeOK, NEW k \in Requests
    PROVE  /\ RequestOK(request[k])
           /\ request[k].op = "login" => request[k].user \in Users /\ request[k].since \in Nat
           /\ request[k].op \in {"rotate", "expire", "reuse"} =>
                 request[k].session \in DOMAIN session /\ request[k].live \in BOOLEAN
           /\ request[k].op = "change" => request[k].user \in Users
           /\ request[k].op = "forgot" => request[k].user \in Users /\ request[k].visible \in Nat
           /\ request[k].op \in {"rightCode", "wrongCode", "reset"} =>
                 request[k].token \in DOMAIN token
<1> PICK r : r = request[k]
  OBVIOUS
<1> DEFINE Shape ==
       /\ r.op = "login" => r.user \in Users /\ r.since \in Nat
       /\ r.op \in {"rotate", "expire", "reuse"} =>
             r.session \in DOMAIN session /\ r.live \in BOOLEAN
       /\ r.op = "change" => r.user \in Users
       /\ r.op = "forgot" => r.user \in Users /\ r.visible \in Nat
       /\ r.op \in {"rightCode", "wrongCode", "reset"} => r.token \in DOMAIN token
<1>1. RequestOK(r)
  BY DEF TypeOK
<1>2. Shape
  <2>1. CASE r = Idle
    BY <2>1 DEF Idle
  <2>2. CASE r \in [op : {"login"}, user : Users, since : Nat]
    BY <2>2
  <2>3. CASE r \in [op : {"rotate", "expire", "reuse"}, session : DOMAIN session, live : BOOLEAN]
    BY <2>3
  <2>4. CASE r \in [op : {"change"}, user : Users]
    BY <2>4
  <2>5. CASE r \in [op : {"forgot"}, user : Users, visible : Nat]
    BY <2>5
  <2>6. CASE r \in [op : {"rightCode", "wrongCode", "reset"}, token : DOMAIN token]
    BY <2>6
  <2> QED  BY <1>1, <2>1, <2>2, <2>3, <2>4, <2>5, <2>6 DEF RequestOK
<1> QED  BY <1>1, <1>2

\* No more requests count a wrong code than there are requests.
LEMMA WrongCounted ==
    ASSUME NEW i
    PROVE  /\ IsFiniteSet(Wrong(i)) /\ Cardinality(Wrong(i)) \in Nat
           /\ Cardinality(Wrong(i)) <= Cardinality(Requests)
<1>1. Wrong(i) \in SUBSET Requests
  BY DEF Wrong
<1>2. IsFiniteSet(Requests)
  BY SessionsAssumption
<1> HIDE DEF Wrong
<1>3. IsFiniteSet(Wrong(i)) /\ Cardinality(Wrong(i)) <= Cardinality(Requests)
  BY <1>1, <1>2, FS_Subset
<1> QED  BY <1>3, FS_CardinalityType

\* The type of a token.
LEMMA TokenRows ==
    ASSUME TypeOK
    PROVE  /\ Len(token) \in Nat /\ DOMAIN token = 1..Len(token)
           /\ Cardinality(Requests) \in Nat /\ MaxAttempts \in Nat /\ MaxAttempts > 0
           /\ \A i \in DOMAIN token :
                 /\ token[i] \in SecurityToken /\ token[i].user \in Users
                 /\ token[i].verified \in BOOLEAN /\ token[i].used \in BOOLEAN
                 /\ token[i].resets \in Nat /\ token[i].attempts \in Nat
<1>1. token \in Seq(SecurityToken)
  BY DEF TypeOK
<1>2. /\ Len(token) \in Nat /\ DOMAIN token = 1..Len(token)
      /\ \A j \in DOMAIN token : token[j] \in SecurityToken
  BY LenProperties, ElementOfSeq, <1>1
<1>3. Cardinality(Requests) \in Nat /\ MaxAttempts \in Nat /\ MaxAttempts > 0
  BY FS_CardinalityType, SessionsAssumption
<1> QED  BY <1>2, <1>3 DEF SecurityToken

\* Each request goes on as it was or becomes one that counts no wrong code and
\* was begun on a live session, if it rotates; the attempts do not grow.
RequestsGoOn ==
    /\ DOMAIN request' = Requests
    /\ \A k \in Requests :
          \/ request'[k] = request[k]
          \/ /\ RequestOK(request[k])' /\ request'[k].op # "wrongCode"
             /\ request'[k].op = "rotate" => request'[k].live
    /\ DOMAIN session \subseteq DOMAIN session' /\ DOMAIN token \subseteq DOMAIN token'
    /\ \A i \in DOMAIN token' :
          /\ token'[i].attempts \in Nat
          /\ i \in DOMAIN token => token'[i].attempts <= token[i].attempts
          /\ i \notin DOMAIN token => token'[i].attempts = 0

LEMMA RequestsStep ==
    ASSUME TypeOK, RotationsLive, AttemptsCounted, RequestsGoOn
    PROVE  RequestsTyped' /\ RotationsLive' /\ AttemptsCounted'
<1>1. RequestsTyped'
  <2> SUFFICES ASSUME NEW k \in Requests
               PROVE  RequestOK(request[k])'
    BY DEF RequestsGoOn, RequestsTyped
  <2>1. RequestOK(request[k])
    BY RequestShape
  <2> PICK r : r = request[k]
    OBVIOUS
  <2>2. RequestOK(r) => RequestOK(r)'
    BY DEF RequestOK, RequestsGoOn
  <2> QED  BY <2>1, <2>2 DEF RequestsGoOn
<1>2. RotationsLive'
  BY DEF RotationsLive, RequestsGoOn
<1>3. AttemptsCounted'
  <2> SUFFICES ASSUME NEW i \in DOMAIN token'
               PROVE  token'[i].attempts + Cardinality(Wrong(i)')
                          <= MaxAttempts + Cardinality(Requests)
    BY DEF AttemptsCounted
  <2>1. Wrong(i)' \in SUBSET Wrong(i)
    BY DEF RequestsGoOn, Wrong, Open
  <2>2. Cardinality(Wrong(i)') <= Cardinality(Wrong(i)) /\ Cardinality(Wrong(i)') \in Nat
    BY <2>1, WrongCounted, FS_Subset, FS_CardinalityType
  <2>3. /\ Cardinality(Wrong(i)) \in Nat /\ Cardinality(Wrong(i)) <= Cardinality(Requests)
        /\ Cardinality(Requests) \in Nat /\ MaxAttempts \in Nat
    BY WrongCounted, TokenRows
  <2>4. CASE i \in DOMAIN token
    <3>1. token[i].attempts + Cardinality(Wrong(i)) <= MaxAttempts + Cardinality(Requests)
      BY <2>4 DEF AttemptsCounted
    <3>2. /\ token'[i].attempts \in Nat /\ token[i].attempts \in Nat
          /\ token'[i].attempts <= token[i].attempts
      BY <2>4, TokenRows DEF RequestsGoOn
    <3> QED  BY <2>2, <2>3, <3>1, <3>2
  <2>5. CASE i \notin DOMAIN token
    <3>1. token'[i].attempts = 0
      BY <2>5 DEF RequestsGoOn
    <3> QED  BY <2>2, <2>3, <3>1
  <2> QED  BY <2>4, <2>5
<1> QED  BY <1>1, <1>2, <1>3

\* One request becomes r, which counts no wrong code, and the rows stay.
LEMMA RequestBecomes ==
    ASSUME TypeOK, NEW k \in Requests, NEW r, RequestOK(r)',
           r.op # "wrongCode", r.op = "rotate" => r.live = TRUE,
           request' = [request EXCEPT ![k] = r],
           DOMAIN session \subseteq DOMAIN session', DOMAIN token \subseteq DOMAIN token',
           \A i \in DOMAIN token' :
               /\ token'[i].attempts \in Nat
               /\ i \in DOMAIN token => token'[i].attempts <= token[i].attempts
               /\ i \notin DOMAIN token => token'[i].attempts = 0
    PROVE  RequestsGoOn
<1>1. DOMAIN request = Requests
  BY DEF TypeOK
<1>2. request'[k] = r /\ DOMAIN request' = Requests
      /\ \A q \in Requests : q # k => request'[q] = request[q]
  BY <1>1
<1>3. RequestOK(request[k])'
  BY <1>2
<1> QED  BY <1>2, <1>3 DEF RequestsGoOn

\* A request that ends leaves nothing behind.
LEMMA RequestEnds ==
    ASSUME TypeOK, NEW k \in Requests, Finish(k),
           DOMAIN session \subseteq DOMAIN session', DOMAIN token \subseteq DOMAIN token',
           \A i \in DOMAIN token' :
               /\ token'[i].attempts \in Nat
               /\ i \in DOMAIN token => token'[i].attempts <= token[i].attempts
               /\ i \notin DOMAIN token => token'[i].attempts = 0
    PROVE  RequestsGoOn
<1>1. RequestOK(Idle)' /\ Idle.op # "wrongCode" /\ Idle.op # "rotate"
  BY DEF RequestOK, Idle
<1> QED  BY <1>1, RequestBecomes DEF Finish

\* A step that leaves the rows and the histories alone keeps what is said of them.
LEMMA RowsStay ==
    ASSUME SessionsInv, UNCHANGED <<account, session, token, crossed, late, doubled>>,
           RequestsTyped', RotationsLive', AttemptsCounted'
    PROVE  SessionsInv'
<1>1. TypeOK'
  BY DEF SessionsInv, TypeOK, RequestsTyped
<1>2. OneOfFamily' /\ SessionsFollowChange' /\ SpentIsUsed' /\ ResetOnce'
  BY DEF SessionsInv, OneOfFamily, SessionsFollowChange, SpentIsUsed, ResetOnce
<1> QED  BY <1>1, <1>2 DEF SessionsInv

\* Beginning a request writes no row.
LEMMA StartStep ==
    ASSUME SessionsInv, NEW k \in Requests, NEW r, RequestOK(r), Start(k, r),
           r.op # "wrongCode", r.op = "rotate" => r.live = TRUE
    PROVE  SessionsInv'
<1>1. UNCHANGED <<account, session, token, crossed, late, doubled>>
  BY DEF Start
<1>2. TypeOK /\ RotationsLive /\ AttemptsCounted
  BY DEF SessionsInv
<1>3. RequestOK(r)'
  BY <1>1 DEF RequestOK
<1>4. \A i \in DOMAIN token : token[i].attempts \in Nat
  BY <1>2, TokenRows
<1>5. RequestsGoOn
  <2>1. /\ DOMAIN session \subseteq DOMAIN session' /\ DOMAIN token \subseteq DOMAIN token'
        /\ \A i \in DOMAIN token' :
              /\ token'[i].attempts \in Nat
              /\ i \in DOMAIN token => token'[i].attempts <= token[i].attempts
              /\ i \notin DOMAIN token => token'[i].attempts = 0
    BY <1>1, <1>4
  <2>2. request' = [request EXCEPT ![k] = r]
    BY DEF Start
  <2> QED  BY <1>2, <1>3, <2>1, <2>2, RequestBecomes
<1>6. RequestsTyped' /\ RotationsLive' /\ AttemptsCounted'
  BY <1>2, <1>5, RequestsStep
<1> QED  BY <1>1, <1>6, RowsStay

\* What a request reads is what the rows hold.
LEMMA BeginStep ==
    ASSUME SessionsInv, NEW k \in Requests,
           \/ \E u \in Users : BeginLogin(k, u) \/ BeginChange(k, u) \/ BeginForgot(k, u)
           \/ \E i \in DOMAIN session, expired \in BOOLEAN : BeginRefresh(k, i, expired)
           \/ \E i \in DOMAIN token : BeginVerify(k, i, TRUE) \/ BeginReset(k, i)
    PROVE  SessionsInv'
<1>1. TypeOK
  BY DEF SessionsInv
<1>2. ASSUME NEW u \in Users, BeginLogin(k, u)
      PROVE  SessionsInv'
  <2>1. account[u].password \in Nat
    BY <1>1 DEF TypeOK, Account
  <2> DEFINE r == [op |-> "login", user |-> u, since |-> account[u].password]
  <2>2. RequestOK(r) /\ r.op = "login"
    BY <2>1 DEF RequestOK
  <2>3. Start(k, r)
    BY <1>2 DEF BeginLogin
  <2> QED  BY <2>2, <2>3, StartStep
<1>3. ASSUME NEW u \in Users, BeginChange(k, u)
      PROVE  SessionsInv'
  <2> DEFINE r == [op |-> "change", user |-> u]
  <2>2. RequestOK(r) /\ r.op = "change"
    BY DEF RequestOK
  <2>3. Start(k, r)
    BY <1>3 DEF BeginChange
  <2> QED  BY <2>2, <2>3, StartStep
<1>4. ASSUME NEW u \in Users, BeginForgot(k, u)
      PROVE  SessionsInv'
  <2>1. Len(token) \in Nat
    BY <1>1, TokenRows
  <2> DEFINE r == [op |-> "forgot", user |-> u, visible |-> Len(token)]
  <2>2. RequestOK(r) /\ r.op = "forgot"
    BY <2>1 DEF RequestOK
  <2>3. Start(k, r)
    BY <1>4 DEF BeginForgot
  <2> QED  BY <2>2, <2>3, StartStep
<1>5. ASSUME NEW i \in DOMAIN session, NEW expired \in BOOLEAN, BeginRefresh(k, i, expired)
      PROVE  SessionsInv'
  <2> DEFINE r == [op |-> Answer(i, expired), session |-> i, live |-> session[i].live]
  <2>1. session[i].live \in BOOLEAN
    BY <1>1, SessionRows
  <2>2. /\ Answer(i, expired) \in {"rotate", "expire", "reuse"}
        /\ Answer(i, expired) = "rotate" => session[i].live
    BY DEF Answer
  <2>3. r.op = Answer(i, expired) /\ r.live = session[i].live
    OBVIOUS
  <2>4. RequestOK(r)
    BY <2>1, <2>2 DEF RequestOK
  <2>5. Start(k, r)
    BY <1>5 DEF BeginRefresh
  <2> QED  BY <2>2, <2>3, <2>4, <2>5, StartStep
<1>6. ASSUME NEW i \in DOMAIN token, BeginVerify(k, i, TRUE)
      PROVE  SessionsInv'
  <2> DEFINE r == [op |-> "rightCode", token |-> i]
  <2>2. RequestOK(r) /\ r.op = "rightCode"
    BY DEF RequestOK
  <2>3. Start(k, r)
    BY <1>6 DEF BeginVerify
  <2> QED  BY <2>2, <2>3, StartStep
<1>7. ASSUME NEW i \in DOMAIN token, BeginReset(k, i)
      PROVE  SessionsInv'
  <2> DEFINE r == [op |-> "reset", token |-> i]
  <2>2. RequestOK(r) /\ r.op = "reset"
    BY DEF RequestOK
  <2>3. Start(k, r)
    BY <1>7 DEF BeginReset
  <2> QED  BY <2>2, <2>3, StartStep
<1> QED  BY <1>2, <1>3, <1>4, <1>5, <1>6, <1>7

\* A wrong code is begun against a token that takes more of them, so those
\* under way stay below the bound.
LEMMA WrongCodeBegun ==
    ASSUME SessionsInv, NEW k \in Requests, NEW i \in DOMAIN token, BeginVerify(k, i, FALSE)
    PROVE  SessionsInv'
<1> DEFINE r == [op |-> "wrongCode", token |-> i]
<1>1. UNCHANGED <<account, session, token, crossed, late, doubled>>
  BY DEF BeginVerify, Start
<1>2. TypeOK /\ RotationsLive /\ AttemptsCounted
  BY DEF SessionsInv
<1>3. request' = [request EXCEPT ![k] = r] /\ request[k] = Idle
  BY DEF BeginVerify, Start
<1>4. DOMAIN request = Requests /\ \A q \in Requests : RequestOK(request[q])
  BY <1>2 DEF TypeOK
<1>5. DOMAIN request' = Requests /\ \A q \in Requests : request'[q] = IF q = k THEN r ELSE request[q]
  BY <1>3, <1>4
<1>6. RequestsTyped'
  <2>1. RequestOK(r)
    BY DEF RequestOK
  <2>2. \A q \in Requests : RequestOK(request'[q])
    <3> HIDE DEF r
    <3> QED  BY <1>4, <1>5, <2>1
  <2>3. \A q \in Requests : RequestOK(request[q])'
    BY <1>1, <2>2 DEF RequestOK
  <2> QED  BY <1>5, <2>3 DEF RequestsTyped
<1>7. RotationsLive'
  BY <1>2, <1>5 DEF RotationsLive
<1>8. AttemptsCounted'
  <2> SUFFICES ASSUME NEW j \in DOMAIN token
               PROVE  token[j].attempts + Cardinality(Wrong(j)')
                          <= MaxAttempts + Cardinality(Requests)
    BY <1>1 DEF AttemptsCounted
  <2>1. /\ Cardinality(Requests) \in Nat /\ MaxAttempts \in Nat
        /\ token[j].attempts \in Nat
    BY <1>2, TokenRows
  <2>2. CASE j = i
    <3>1. token[i].attempts < MaxAttempts
      BY DEF BeginVerify, Answerable
    <3>2. Wrong(j)' \in SUBSET Requests
      BY DEF Wrong
    <3>3. Cardinality(Wrong(j)') <= Cardinality(Requests) /\ Cardinality(Wrong(j)') \in Nat
      BY <3>2, FS_Subset, FS_CardinalityType, SessionsAssumption
    <3> QED  BY <2>1, <2>2, <3>1, <3>3
  <2>3. CASE j # i
    <3>1. Wrong(j)' = Wrong(j)
      BY <1>3, <1>5, <2>3 DEF Wrong, Open, Idle
    <3> QED  BY <1>2, <3>1 DEF AttemptsCounted
  <2> QED  BY <2>2, <2>3
<1> QED  BY <1>1, <1>6, <1>7, <1>8, RowsStay

-----------------------------------------------------------------------------
(* The steps that write sessions.                                          *)

\* The parts of the invariant that a step about sessions has to keep.
LEMMA SessionsWritten ==
    ASSUME SessionsInv, UNCHANGED <<token, doubled>>, RequestsGoOn,
           account' \in [Users -> Account], late' \subseteq Users,
           SessionsTyped', OneOfFamily', SessionsFollowChange'
    PROVE  SessionsInv'
<1>1. TypeOK /\ RotationsLive /\ AttemptsCounted
  BY DEF SessionsInv
<1>2. RequestsTyped' /\ RotationsLive' /\ AttemptsCounted'
  BY <1>1, RequestsStep
<1>3. TypeOK'
  BY <1>1, <1>2 DEF TypeOK, RequestsTyped, SessionsTyped
<1>4. SpentIsUsed' /\ ResetOnce'
  BY DEF SessionsInv, SpentIsUsed, ResetOnce
<1> QED  BY <1>2, <1>3, <1>4 DEF SessionsInv

\* The tokens stay as they are.
LEMMA TokensStay ==
    ASSUME TypeOK, token' = token
    PROVE  /\ DOMAIN token \subseteq DOMAIN token'
           /\ \A i \in DOMAIN token' :
                 /\ token'[i].attempts \in Nat
                 /\ i \in DOMAIN token => token'[i].attempts <= token[i].attempts
                 /\ i \notin DOMAIN token => token'[i].attempts = 0
<1>1. \A i \in DOMAIN token : token[i].attempts \in Nat
  BY TokenRows
<1> QED  BY <1>1

\* A session that is signed out.
LEMMA EndSessionStep ==
    ASSUME SessionsInv, NEW i \in DOMAIN session, EndSession(i)
    PROVE  SessionsInv'
<1>1. TypeOK /\ OneOfFamily /\ SessionsFollowChange
  BY DEF SessionsInv
<1>2. session \in Seq(RefreshSession) /\ session' = [session EXCEPT ![i].live = FALSE]
  BY <1>1 DEF TypeOK, EndSession
<1>3. Revokes
  BY <1>2, OneRevoked
<1>4. UNCHANGED <<account, token, request, crossed, late, doubled>>
  BY DEF EndSession
<1>5. SessionsTyped' /\ OneOfFamily'
  BY <1>1, <1>3, <1>4, RevokesFamily
<1>6. SessionsFollowChange'
  BY <1>1, <1>3, <1>4, RevokesFollow
<1>7. RequestsGoOn
  <2>1. DOMAIN request' = Requests /\ \A k \in Requests : request'[k] = request[k]
    BY <1>1, <1>4 DEF TypeOK
  <2>2. DOMAIN session \subseteq DOMAIN session'
    BY <1>3 DEF Revokes
  <2> QED  BY <1>1, <1>4, <2>1, <2>2, TokensStay DEF RequestsGoOn
<1>8. account' \in [Users -> Account] /\ late' \subseteq Users
  BY <1>1, <1>4 DEF TypeOK
<1> QED  BY <1>4, <1>5, <1>6, <1>7, <1>8, SessionsWritten

\* A refused refresh revokes its session or the whole family.
LEMMA CommitRefusalStep ==
    ASSUME SessionsInv, NEW k \in Requests, CommitRefusal(k)
    PROVE  SessionsInv'
<1>1. TypeOK /\ OneOfFamily /\ SessionsFollowChange
  BY DEF SessionsInv
<1>2. session \in Seq(RefreshSession)
  BY <1>1 DEF TypeOK
<1>3. PICK ends : session' = Revoked(ends)
  BY DEF CommitRefusal
<1>4. Revokes
  BY <1>2, <1>3, RevokedRows
<1>5. UNCHANGED <<account, token, crossed, late, doubled>> /\ Finish(k)
  BY DEF CommitRefusal
<1>6. SessionsTyped' /\ OneOfFamily'
  BY <1>1, <1>4, <1>5, RevokesFamily
<1>7. SessionsFollowChange'
  BY <1>1, <1>4, <1>5, RevokesFollow
<1>8. RequestsGoOn
  <2>1. DOMAIN session \subseteq DOMAIN session'
    BY <1>4 DEF Revokes
  <2> QED  BY <1>1, <1>5, <2>1, TokensStay, RequestEnds
<1>9. account' \in [Users -> Account] /\ late' \subseteq Users
  BY <1>1, <1>5 DEF TypeOK
<1> QED  BY <1>5, <1>6, <1>7, <1>8, <1>9, SessionsWritten

\* A change that ends every session of the user it is about.
LEMMA UserRevoked ==
    ASSUME SessionsInv, NEW u \in Users, session' = RevokedOf(u),
           UNCHANGED <<crossed, late>>,
           \A v \in Users : v # u => account'[v] = account[v]
    PROVE  Revokes /\ SessionsTyped' /\ OneOfFamily' /\ SessionsFollowChange'
<1>1. TypeOK /\ OneOfFamily /\ SessionsFollowChange
  BY DEF SessionsInv
<1>2. session \in Seq(RefreshSession)
  BY <1>1 DEF TypeOK
<1> DEFINE ends == {i \in DOMAIN session : session[i].user = u}
<1>3. session' = Revoked(ends)
  BY DEF RevokedOf
<1>4. \A i \in DOMAIN session : i \in ends <=> session[i].user = u
  OBVIOUS
<1> HIDE DEF ends
<1>5. Revokes /\ \A i \in DOMAIN session : i \in ends => ~session'[i].live
  BY <1>2, <1>3, RevokedRows
<1>6. SessionsTyped' /\ OneOfFamily'
  BY <1>1, <1>5, RevokesFamily
<1>7. \A i \in DOMAIN session : session[i].user \in Users
  BY <1>1, SessionRows
<1>8. \A i \in DOMAIN session : session'[i].live => account'[session[i].user] = account[session[i].user]
  BY <1>4, <1>5, <1>7
<1>9. SessionsFollowChange'
  BY <1>1, <1>5, <1>8, RevokesFollow
<1> QED  BY <1>5, <1>6, <1>9

\* An administrator changes a user's access.
LEMMA ChangeAccessStep ==
    ASSUME SessionsInv, NEW u \in Users, NEW status \in {"ACTIVE", "INACTIVE"},
           ChangeAccess(u, status)
    PROVE  SessionsInv'
<1>1. TypeOK
  BY DEF SessionsInv
<1>2. /\ account' = [account EXCEPT ![u].status = status, ![u].version = @ + 1]
      /\ session' = RevokedOf(u) /\ UNCHANGED <<token, request, crossed, late, doubled>>
  BY DEF ChangeAccess
<1>3. account \in [Users -> Account] /\ late \subseteq Users
  BY <1>1 DEF TypeOK
<1>4. account' \in [Users -> Account]
  BY <1>2, <1>3 DEF Account
<1>5. \A v \in Users : v # u => account'[v] = account[v]
  BY <1>2, <1>3
<1>6. Revokes /\ SessionsTyped' /\ OneOfFamily' /\ SessionsFollowChange'
  BY <1>2, <1>5, UserRevoked
<1>7. RequestsGoOn
  <2>1. DOMAIN request' = Requests /\ \A k \in Requests : request'[k] = request[k]
    BY <1>1, <1>2 DEF TypeOK
  <2>2. DOMAIN session \subseteq DOMAIN session'
    BY <1>6 DEF Revokes
  <2> QED  BY <1>1, <1>2, <2>1, <2>2, TokensStay DEF RequestsGoOn
<1> QED  BY <1>2, <1>3, <1>4, <1>6, <1>7, SessionsWritten

\* A user changes the password.
LEMMA NewPasswordTyped ==
    ASSUME TypeOK, NEW u \in Users, NewPassword(u)
    PROVE  /\ account' \in [Users -> Account]
           /\ \A v \in Users : v # u => account'[v] = account[v]
<1>1. account \in [Users -> Account]
  BY DEF TypeOK
<1> QED  BY <1>1 DEF NewPassword, Account

LEMMA CommitChangeStep ==
    ASSUME SessionsInv, NEW k \in Requests, CommitChange(k)
    PROVE  SessionsInv'
<1>1. TypeOK
  BY DEF SessionsInv
<1> PICK u : u = request[k].user
  OBVIOUS
<1>2. /\ u \in Users /\ NewPassword(u) /\ session' = RevokedOf(u) /\ Finish(k)
      /\ UNCHANGED <<token, crossed, late, doubled>>
  BY <1>1, RequestShape DEF CommitChange
<1>3. /\ account' \in [Users -> Account]
      /\ \A v \in Users : v # u => account'[v] = account[v]
  BY <1>1, <1>2, NewPasswordTyped
<1>4. Revokes /\ SessionsTyped' /\ OneOfFamily' /\ SessionsFollowChange'
  BY <1>2, <1>3, UserRevoked
<1>5. RequestsGoOn
  <2>1. DOMAIN session \subseteq DOMAIN session'
    BY <1>4 DEF Revokes
  <2> QED  BY <1>1, <1>2, <2>1, TokensStay, RequestEnds
<1>6. late' \subseteq Users
  BY <1>1, <1>2 DEF TypeOK
<1> QED  BY <1>2, <1>3, <1>4, <1>5, <1>6, SessionsWritten

\* A sign-in opens a family of its own; if the user changed since it was read,
\* the user is `late`.
LEMMA CommitLoginStep ==
    ASSUME SessionsInv, NEW k \in Requests, CommitLogin(k)
    PROVE  SessionsInv'
<1>1. TypeOK /\ OneOfFamily /\ SessionsFollowChange
  BY DEF SessionsInv
<1> PICK r : r = request[k]
  OBVIOUS
<1> DEFINE n == Len(session) + 1
           row == [user |-> r.user, family |-> n, live |-> TRUE, since |-> r.since]
<1>2. /\ Len(session) < MaxSessions /\ session' = Append(session, row) /\ Finish(k)
      /\ late' = IF r.since # account[r.user].password \/ account[r.user].status # "ACTIVE"
                   THEN late \cup {r.user} ELSE late
      /\ UNCHANGED <<account, token, crossed, doubled>>
  BY DEF CommitLogin
<1>3. r.user \in Users /\ r.since \in Nat
  BY <1>1, RequestShape DEF CommitLogin
<1>4. /\ Len(session) \in Nat /\ DOMAIN session = 1..Len(session) /\ SessionsTyped
      /\ \A i \in DOMAIN session : session[i].family \in 1..Len(session)
  BY <1>1, SessionRows
<1>5. /\ row \in RefreshSession
      /\ row.user = r.user /\ row.family = n /\ row.live /\ row.since = r.since
  BY <1>3, <1>4 DEF RefreshSession
<1> HIDE DEF row
<1>6. Opens(row)
  BY <1>2, <1>4, <1>5, OneOpened DEF SessionsTyped
<1>7. /\ DOMAIN session' = 1..n /\ session'[n] = row
      /\ \A i \in DOMAIN session' : i # n => i \in DOMAIN session
  BY <1>4, <1>6 DEF Opens
<1>8. SessionsTyped'
  BY <1>2, <1>4, <1>5, <1>6, <1>7, SessionsAssumption DEF Opens, SessionsTyped
<1>9. \A i \in DOMAIN session : session'[i].family # n
  BY <1>4, <1>6 DEF Opens
<1>10. OneOfFamily'
  BY <1>1, <1>2, <1>5, <1>6, <1>7, <1>9 DEF OneOfFamily, Opens
<1>11. SessionsFollowChange'
  BY <1>1, <1>2, <1>5, <1>6, <1>7 DEF SessionsFollowChange, Opens
<1>12. RequestsGoOn
  <2>1. DOMAIN session \subseteq DOMAIN session'
    BY <1>4, <1>7
  <2> QED  BY <1>1, <1>2, <2>1, TokensStay, RequestEnds
<1>13. account' \in [Users -> Account] /\ late' \subseteq Users
  BY <1>1, <1>2, <1>3 DEF TypeOK
<1> QED  BY <1>2, <1>8, <1>10, <1>11, <1>12, <1>13, SessionsWritten

\* A rotation replaces the session it read; if that was revoked meanwhile the
\* family is `crossed`.
LEMMA CommitRotateStep ==
    ASSUME SessionsInv, NEW k \in Requests, CommitRotate(k)
    PROVE  SessionsInv'
<1>1. TypeOK /\ OneOfFamily /\ SessionsFollowChange /\ RotationsLive
  BY DEF SessionsInv
<1> PICK i : i = request[k].session
  OBVIOUS
<1>2. i \in DOMAIN session /\ request[k].live
  BY <1>1, RequestShape DEF CommitRotate, RotationsLive
<1> DEFINE n == Len(session) + 1
           row == [session[i] EXCEPT !.live = TRUE]
<1>3. /\ Len(session) < MaxSessions /\ Finish(k)
      /\ session' = Append([session EXCEPT ![i].live = FALSE], row)
      /\ crossed' = IF ~session[i].live THEN crossed \cup {session[i].family} ELSE crossed
      /\ UNCHANGED <<account, token, late, doubled>>
  BY <1>2 DEF CommitRotate
<1>4. /\ Len(session) \in Nat /\ DOMAIN session = 1..Len(session) /\ SessionsTyped
      /\ \A j \in DOMAIN session : session[j].family \in 1..Len(session)
      /\ session[i] \in RefreshSession /\ session[i].family <= i
  BY <1>1, <1>2, SessionRows DEF SessionsTyped
<1>5. /\ row \in RefreshSession /\ row.user = session[i].user
      /\ row.family = session[i].family /\ row.live /\ row.since = session[i].since
  BY <1>4 DEF RefreshSession
<1> HIDE DEF row
<1>6. Opens(row) /\ ~session'[i].live
  BY <1>2, <1>3, <1>4, <1>5, OneReplaced DEF SessionsTyped
<1>7. /\ DOMAIN session' = 1..n /\ session'[n] = row /\ n \notin DOMAIN session
      /\ \A j \in DOMAIN session' : j # n => j \in DOMAIN session
  BY <1>4, <1>6 DEF Opens
<1>8. SessionsTyped'
  <2>1. crossed' \subseteq DOMAIN session'
    BY <1>2, <1>3, <1>4, <1>7 DEF SessionsTyped
  <2>2. \A j \in DOMAIN session' : session'[j].family <= j
    BY <1>2, <1>4, <1>5, <1>6, <1>7 DEF Opens, SessionsTyped
  <2> QED  BY <1>3, <1>4, <1>6, <2>1, <2>2, SessionsAssumption DEF Opens, SessionsTyped
<1>9. crossed \subseteq crossed' /\ (session[i].live \/ session[i].family \in crossed')
  BY <1>3
<1>10. OneOfFamily'
  <2>1. ASSUME NEW j \in DOMAIN session,
               session[j].family = session[i].family, session[i].family \notin crossed'
        PROVE  ~session'[j].live
    BY <1>1, <1>2, <1>6, <1>9, <2>1 DEF OneOfFamily, Opens
  <2>2. \A j \in DOMAIN session : session'[j].family = session[j].family
                                /\ (session'[j].live => session[j].live)
    BY <1>6 DEF Opens
  <2> QED  BY <1>1, <1>5, <1>7, <1>9, <2>1, <2>2 DEF OneOfFamily
<1>11. SessionsFollowChange'
  <2>1. \A j \in DOMAIN session :
           /\ session'[j].user = session[j].user /\ session'[j].family = session[j].family
           /\ session'[j].since = session[j].since /\ (session'[j].live => session[j].live)
    BY <1>6 DEF Opens
  <2> QED  BY <1>1, <1>2, <1>3, <1>5, <1>7, <1>9, <2>1 DEF SessionsFollowChange
<1>12. RequestsGoOn
  <2>1. DOMAIN session \subseteq DOMAIN session'
    BY <1>4, <1>7
  <2> QED  BY <1>1, <1>3, <2>1, TokensStay, RequestEnds
<1>13. account' \in [Users -> Account] /\ late' \subseteq Users
  BY <1>1, <1>3 DEF TypeOK
<1> QED  BY <1>3, <1>8, <1>10, <1>11, <1>12, <1>13, SessionsWritten

-----------------------------------------------------------------------------
(* The steps that write tokens.                                            *)

TokensTyped == token \in Seq(SecurityToken) /\ Len(token) <= MaxTokens

\* The parts of the invariant, put together.
LEMMA Assembled ==
    ASSUME account' \in [Users -> Account], late' \subseteq Users, doubled' \subseteq Users,
           SessionsTyped', OneOfFamily', SessionsFollowChange',
           TokensTyped', SpentIsUsed', ResetOnce',
           RequestsTyped', RotationsLive', AttemptsCounted'
    PROVE  SessionsInv'
BY DEF SessionsInv, TypeOK, SessionsTyped, TokensTyped, RequestsTyped

\* A step that leaves accounts and sessions alone keeps what is said of them.
LEMMA SessionsStay ==
    ASSUME SessionsInv, UNCHANGED <<account, session, crossed, late>>
    PROVE  /\ account' \in [Users -> Account] /\ late' \subseteq Users
           /\ SessionsTyped' /\ OneOfFamily' /\ SessionsFollowChange'
<1>1. TypeOK /\ OneOfFamily /\ SessionsFollowChange /\ SessionsTyped
  BY SessionRows DEF SessionsInv
<1> QED  BY <1>1 DEF TypeOK, OneOfFamily, SessionsFollowChange, SessionsTyped

\* A request that fails or is given up.
LEMMA AbandonStep ==
    ASSUME SessionsInv, NEW k \in Requests, Abandon(k)
    PROVE  SessionsInv'
<1>1. TypeOK /\ RotationsLive /\ AttemptsCounted
  BY DEF SessionsInv
<1>2. UNCHANGED <<account, session, token, crossed, late, doubled>> /\ Finish(k)
  BY DEF Abandon
<1>3. RequestsGoOn
  BY <1>1, <1>2, TokensStay, RequestEnds
<1>4. RequestsTyped' /\ RotationsLive' /\ AttemptsCounted'
  BY <1>1, <1>3, RequestsStep
<1> QED  BY <1>2, <1>4, RowsStay

\* A new reset token: those the first statement saw are used up, and if there
\* were others the user is `doubled`.
LEMMA CommitForgotStep ==
    ASSUME SessionsInv, NEW k \in Requests, CommitForgot(k)
    PROVE  SessionsInv'
<1>1. TypeOK /\ RotationsLive /\ AttemptsCounted /\ SpentIsUsed /\ ResetOnce
  BY DEF SessionsInv
<1> PICK r : r = request[k]
  OBVIOUS
<1> DEFINE mark(i) == IF token[i].user = r.user /\ i <= r.visible
                        THEN [token[i] EXCEPT !.used = TRUE] ELSE token[i]
           marked == [i \in DOMAIN token |-> mark(i)]
           n == Len(token) + 1
           row == [user |-> r.user, verified |-> FALSE, attempts |-> 0,
                   used |-> FALSE, resets |-> 0]
<1>2. /\ Len(token) < MaxTokens /\ token' = Append(marked, row) /\ Finish(k)
      /\ doubled' = IF r.visible < Len(token) THEN doubled \cup {r.user} ELSE doubled
      /\ UNCHANGED <<account, session, crossed, late>>
  BY DEF CommitForgot
<1>3. r.user \in Users /\ r.visible \in Nat
  BY <1>1, RequestShape DEF CommitForgot
<1>4. /\ Len(token) \in Nat /\ DOMAIN token = 1..Len(token)
      /\ Cardinality(Requests) \in Nat /\ MaxAttempts \in Nat /\ MaxAttempts > 0
      /\ \A i \in DOMAIN token :
            /\ token[i] \in SecurityToken /\ token[i].used \in BOOLEAN
            /\ token[i].resets \in Nat /\ token[i].attempts \in Nat
  BY <1>1, TokenRows
<1>5. \A i \in 1..Len(token) :
         /\ mark(i) \in SecurityToken
         /\ mark(i).user = token[i].user /\ mark(i).attempts = token[i].attempts
         /\ mark(i).resets = token[i].resets
         /\ mark(i).used <=> (token[i].used \/ (token[i].user = r.user /\ i <= r.visible))
  BY <1>4 DEF SecurityToken
<1>6. /\ row \in SecurityToken /\ row.user = r.user /\ row.attempts = 0
      /\ ~row.used /\ row.resets = 0
  BY <1>3, <1>4 DEF SecurityToken
<1> HIDE DEF mark, row
<1>7. marked \in Seq(SecurityToken) /\ Len(marked) = Len(token)
  <2>1. marked \in [1..Len(token) -> SecurityToken]
    BY <1>4, <1>5
  <2>2. marked \in Seq(SecurityToken)
    BY <2>1, <1>4, SeqDef
  <2>3. DOMAIN marked = 1..Len(token) /\ DOMAIN marked = 1..Len(marked) /\ Len(marked) \in Nat
    BY <1>4, <2>2, LenProperties
  <2> HIDE DEF marked
  <2> QED  BY <1>4, <2>2, <2>3
<1>8. \A i \in 1..Len(token) : marked[i] = mark(i)
  BY <1>4
<1> HIDE DEF marked
<1>9. /\ token' \in Seq(SecurityToken) /\ Len(token') = n
      /\ DOMAIN token' = 1..n /\ token'[n] = row
      /\ \A i \in 1..Len(token) : token'[i] = mark(i)
  <2>1. /\ Append(marked, row) \in Seq(SecurityToken)
        /\ Len(Append(marked, row)) = Len(marked) + 1
        /\ \A j \in 1..Len(marked) : Append(marked, row)[j] = marked[j]
        /\ Append(marked, row)[Len(marked) + 1] = row
    BY <1>6, <1>7, AppendProperties
  <2>2. DOMAIN token' = 1..Len(token')
    BY <2>1, <1>2, LenProperties
  <2> QED  BY <2>1, <2>2, <1>2, <1>7, <1>8
<1>10. TokensTyped'
  BY <1>2, <1>4, <1>9, SessionsAssumption DEF TokensTyped
<1>11. /\ DOMAIN token \subseteq DOMAIN token'
       /\ \A i \in DOMAIN token' : i = n \/ i \in DOMAIN token
       /\ n \notin DOMAIN token
  BY <1>4, <1>9
<1>12. \A i \in DOMAIN token :
          /\ token'[i].user = token[i].user /\ token'[i].attempts = token[i].attempts
          /\ token'[i].resets = token[i].resets
          /\ token'[i].used <=> (token[i].used \/ (token[i].user = r.user /\ i <= r.visible))
  BY <1>4, <1>5, <1>9
<1>13. RequestsGoOn
  <2>1. \A i \in DOMAIN token' :
           /\ token'[i].attempts \in Nat
           /\ i \in DOMAIN token => token'[i].attempts <= token[i].attempts
           /\ i \notin DOMAIN token => token'[i].attempts = 0
    BY <1>4, <1>6, <1>9, <1>11, <1>12
  <2>2. DOMAIN session \subseteq DOMAIN session'
    BY <1>2
  <2> QED  BY <1>1, <1>2, <1>11, <2>1, <2>2, RequestEnds
<1>14. SpentIsUsed'
  <2>1. ~(row.resets > 0)
    BY <1>6
  <2> QED  BY <1>1, <1>9, <1>11, <1>12, <2>1 DEF SpentIsUsed
<1>15. ResetOnce'
  <2>1. ASSUME r.user \notin doubled', NEW i \in DOMAIN token, token[i].user = r.user
        PROVE  token'[i].used
    <3>1. ~(r.visible < Len(token))
      BY <1>2, <2>1
    <3>2. i <= r.visible
      BY <1>3, <1>4, <3>1
    <3> QED  BY <1>12, <2>1, <3>2
  <2>2. \A u : u \notin doubled' => u \notin doubled
    BY <1>2
  <2>3. \A i, j \in DOMAIN token : token'[i].user \notin doubled' =>
           /\ token'[i].attempts <= MaxAttempts /\ token'[i].resets <= 1
           /\ token'[i].user = token'[j].user /\ ~token'[i].used /\ ~token'[j].used => i = j
    BY <1>1, <1>12, <2>2 DEF ResetOnce
  <2>4. row.attempts <= MaxAttempts /\ row.resets <= 1
    BY <1>4, <1>6
  <2> QED  BY <1>6, <1>9, <1>11, <1>12, <2>1, <2>3, <2>4 DEF ResetOnce
<1>16. doubled' \subseteq Users
  BY <1>1, <1>2, <1>3 DEF TypeOK
<1>17. /\ account' \in [Users -> Account] /\ late' \subseteq Users
       /\ SessionsTyped' /\ OneOfFamily' /\ SessionsFollowChange'
  BY <1>2, SessionsStay
<1>18. RequestsTyped' /\ RotationsLive' /\ AttemptsCounted'
  BY <1>1, <1>13, RequestsStep
<1> QED  BY <1>10, <1>14, <1>15, <1>16, <1>17, <1>18, Assembled

\* One token is written.
LEMMA OneTokenWritten ==
    ASSUME TypeOK, NEW i \in DOMAIN token, NEW row \in SecurityToken,
           token' = [token EXCEPT ![i] = row]
    PROVE  /\ TokensTyped' /\ DOMAIN token' = DOMAIN token
           /\ \A j \in DOMAIN token : token'[j] = IF j = i THEN row ELSE token[j]
<1>1. token \in Seq(SecurityToken) /\ Len(token) <= MaxTokens
  BY DEF TypeOK
<1>2. DOMAIN token = 1..Len(token)
  BY TokenRows
<1>3. /\ [token EXCEPT ![i] = row] \in Seq(SecurityToken)
      /\ Len([token EXCEPT ![i] = row]) = Len(token)
      /\ \A j \in 1..Len(token) : [token EXCEPT ![i] = row][j] = IF j = i THEN row ELSE token[j]
  BY <1>1, <1>2, ExceptSeq
<1>4. TokensTyped' /\ \A j \in DOMAIN token : token'[j] = IF j = i THEN row ELSE token[j]
  BY <1>1, <1>2, <1>3 DEF TokensTyped
<1>5. DOMAIN token' = DOMAIN token
  BY <1>2, <1>3, <1>4, LenProperties DEF TokensTyped
<1> QED  BY <1>4, <1>5

\* The right code resets the count and verifies the token.
LEMMA RightCodeStep ==
    ASSUME SessionsInv, NEW k \in Requests, CommitVerify(k), request[k].op = "rightCode"
    PROVE  SessionsInv'
<1>1. TypeOK /\ RotationsLive /\ AttemptsCounted /\ SpentIsUsed /\ ResetOnce
  BY DEF SessionsInv
<1> PICK i : i = request[k].token
  OBVIOUS
<1> DEFINE row == [token[i] EXCEPT !.verified = TRUE, !.attempts = 0]
<1>2. i \in DOMAIN token
  BY <1>1, RequestShape
<1>3. /\ token' = [token EXCEPT ![i] = row] /\ Finish(k)
      /\ doubled' = IF Answerable(i) THEN doubled ELSE doubled \cup {token[i].user}
      /\ UNCHANGED <<account, session, crossed, late>>
  BY DEF CommitVerify
<1>4. /\ Cardinality(Requests) \in Nat /\ MaxAttempts \in Nat
      /\ \A j \in DOMAIN token :
            /\ token[j] \in SecurityToken /\ token[j].user \in Users
            /\ token[j].attempts \in Nat
  BY <1>1, TokenRows
<1>5. /\ row \in SecurityToken
      /\ row.user = token[i].user /\ row.used = token[i].used
      /\ row.resets = token[i].resets /\ row.attempts = 0
  <2>1. 0 \in 0..(MaxAttempts + Cardinality(Requests))
    BY <1>4
  <2> QED  BY <1>2, <1>4, <2>1 DEF SecurityToken
<1> HIDE DEF row
<1>6. /\ TokensTyped' /\ DOMAIN token' = DOMAIN token
      /\ \A j \in DOMAIN token : token'[j] = IF j = i THEN row ELSE token[j]
  BY <1>1, <1>2, <1>3, <1>5, OneTokenWritten
<1>7. \A j \in DOMAIN token :
         /\ token'[j].user = token[j].user /\ token'[j].used = token[j].used
         /\ token'[j].resets = token[j].resets /\ token'[j].attempts \in Nat
         /\ token'[j].attempts = 0 \/ token'[j].attempts = token[j].attempts
  BY <1>4, <1>5, <1>6
<1>8. RequestsGoOn
  <2>1. \A j \in DOMAIN token' :
           /\ token'[j].attempts \in Nat
           /\ j \in DOMAIN token => token'[j].attempts <= token[j].attempts
           /\ j \notin DOMAIN token => token'[j].attempts = 0
    BY <1>4, <1>6, <1>7
  <2>2. DOMAIN session \subseteq DOMAIN session' /\ DOMAIN token \subseteq DOMAIN token'
    BY <1>3, <1>6
  <2> QED  BY <1>1, <1>3, <2>1, <2>2, RequestEnds
<1>9. SpentIsUsed'
  BY <1>1, <1>6, <1>7 DEF SpentIsUsed
<1>10. \A u : u \notin doubled' => u \notin doubled
  BY <1>3
<1>11. ResetOnce'
  BY <1>1, <1>4, <1>6, <1>7, <1>10 DEF ResetOnce
<1>12. doubled' \subseteq Users
  BY <1>1, <1>2, <1>3, <1>4 DEF TypeOK
<1>13. /\ account' \in [Users -> Account] /\ late' \subseteq Users
       /\ SessionsTyped' /\ OneOfFamily' /\ SessionsFollowChange'
  BY <1>3, SessionsStay
<1>14. RequestsTyped' /\ RotationsLive' /\ AttemptsCounted'
  BY <1>1, <1>8, RequestsStep
<1> QED  BY <1>6, <1>9, <1>11, <1>12, <1>13, <1>14, Assembled

\* A wrong code is no longer under way and is counted.
LEMMA WrongCodeStep ==
    ASSUME SessionsInv, NEW k \in Requests, CommitVerify(k), request[k].op = "wrongCode"
    PROVE  SessionsInv'
<1>1. TypeOK /\ RotationsLive /\ AttemptsCounted /\ SpentIsUsed /\ ResetOnce
  BY DEF SessionsInv
<1> PICK i : i = request[k].token
  OBVIOUS
<1> DEFINE row == [token[i] EXCEPT !.attempts = @ + 1]
<1>2. i \in DOMAIN token
  BY <1>1, RequestShape
<1>3. /\ token' = [token EXCEPT ![i] = row] /\ Finish(k)
      /\ doubled' = IF Answerable(i) THEN doubled ELSE doubled \cup {token[i].user}
      /\ UNCHANGED <<account, session, crossed, late>>
  BY DEF CommitVerify
<1>4. /\ Cardinality(Requests) \in Nat /\ MaxAttempts \in Nat
      /\ \A j \in DOMAIN token :
            /\ token[j] \in SecurityToken /\ token[j].user \in Users
            /\ token[j].attempts \in Nat
  BY <1>1, TokenRows
<1>5. /\ DOMAIN request' = Requests /\ request'[k] = Idle
      /\ \A q \in Requests : q # k => request'[q] = request[q]
  BY <1>1, <1>3 DEF TypeOK, Finish
<1>6. k \in Wrong(i) /\ Wrong(i)' = Wrong(i) \ {k}
  BY <1>5 DEF Wrong, Open, Idle
<1>7. /\ Cardinality(Wrong(i)') = Cardinality(Wrong(i)) - 1
      /\ Cardinality(Wrong(i)) \in Nat /\ Cardinality(Wrong(i)) > 0
  <2>1. IsFiniteSet(Wrong(i)) /\ Cardinality(Wrong(i)) \in Nat
    BY WrongCounted
  <2>2. Cardinality(Wrong(i) \ {k}) = Cardinality(Wrong(i)) - 1
    BY <1>6, <2>1, FS_RemoveElement
  <2>3. Cardinality(Wrong(i)) # 0
    BY <1>6, <2>1, FS_EmptySet
  <2> QED  BY <1>6, <2>1, <2>2, <2>3
<1>8. token[i].attempts + Cardinality(Wrong(i)) <= MaxAttempts + Cardinality(Requests)
  BY <1>1, <1>2 DEF AttemptsCounted
<1>9. /\ row \in SecurityToken
      /\ row.user = token[i].user /\ row.used = token[i].used
      /\ row.resets = token[i].resets /\ row.attempts = token[i].attempts + 1
  <2>1. token[i].attempts + 1 \in 0..(MaxAttempts + Cardinality(Requests))
    BY <1>2, <1>4, <1>7, <1>8
  <2> QED  BY <1>2, <1>4, <2>1 DEF SecurityToken
<1> HIDE DEF row
<1>10. /\ TokensTyped' /\ DOMAIN token' = DOMAIN token
       /\ \A j \in DOMAIN token : token'[j] = IF j = i THEN row ELSE token[j]
  BY <1>1, <1>2, <1>3, <1>9, OneTokenWritten
<1>11. \A j \in DOMAIN token :
          /\ token'[j].user = token[j].user /\ token'[j].used = token[j].used
          /\ token'[j].resets = token[j].resets
          /\ j # i => token'[j].attempts = token[j].attempts
  BY <1>9, <1>10
<1>12. AttemptsCounted'
  <2> SUFFICES ASSUME NEW j \in DOMAIN token
               PROVE  token'[j].attempts + Cardinality(Wrong(j)')
                          <= MaxAttempts + Cardinality(Requests)
    BY <1>10 DEF AttemptsCounted
  <2>1. CASE j = i
    BY <1>2, <1>4, <1>7, <1>8, <1>9, <1>10, <2>1
  <2>2. CASE j # i
    <3>1. Wrong(j)' = Wrong(j)
      BY <1>5, <2>2 DEF Wrong, Open, Idle
    <3> QED  BY <1>1, <1>11, <2>2, <3>1 DEF AttemptsCounted
  <2> QED  BY <2>1, <2>2
<1>13. RequestsTyped' /\ RotationsLive'
  <2>1. \A q \in Requests : RequestOK(request[q])
    BY <1>1 DEF TypeOK
  <2>2. \A q \in Requests : RequestOK(request'[q])
    BY <1>5, <2>1 DEF RequestOK
  <2>3. \A q \in Requests : RequestOK(request[q])'
    BY <1>3, <1>10, <2>2 DEF RequestOK
  <2>4. RotationsLive'
    BY <1>1, <1>5 DEF RotationsLive, Idle
  <2> QED  BY <1>5, <2>3, <2>4 DEF RequestsTyped
<1>14. SpentIsUsed'
  BY <1>1, <1>10, <1>11 DEF SpentIsUsed
<1>15. /\ \A u : u \notin doubled' => u \notin doubled
       /\ token[i].user \notin doubled' => token[i].attempts < MaxAttempts
  BY <1>3 DEF Answerable
<1>16. ResetOnce'
  <2>1. token[i].user \notin doubled' => row.attempts <= MaxAttempts
    BY <1>2, <1>4, <1>9, <1>15
  <2> QED  BY <1>1, <1>10, <1>11, <1>15, <2>1 DEF ResetOnce
<1>17. doubled' \subseteq Users
  BY <1>1, <1>2, <1>3, <1>4 DEF TypeOK
<1>18. /\ account' \in [Users -> Account] /\ late' \subseteq Users
       /\ SessionsTyped' /\ OneOfFamily' /\ SessionsFollowChange'
  BY <1>3, SessionsStay
<1> QED  BY <1>10, <1>12, <1>13, <1>14, <1>16, <1>17, <1>18, Assembled

\* A reset uses up its token and ends the user's sessions; if the token was
\* used already the user is `doubled`.
LEMMA CommitResetStep ==
    ASSUME SessionsInv, NEW k \in Requests, CommitReset(k)
    PROVE  SessionsInv'
<1>1. TypeOK /\ RotationsLive /\ AttemptsCounted /\ SpentIsUsed /\ ResetOnce
  BY DEF SessionsInv
<1> PICK i : i = request[k].token
  OBVIOUS
<1> PICK u : u = token[i].user
  OBVIOUS
<1> DEFINE row == [token[i] EXCEPT !.used = TRUE, !.resets = @ + 1]
<1>2. i \in DOMAIN token
  BY <1>1, RequestShape DEF CommitReset
<1>3. /\ token' = [token EXCEPT ![i].used = TRUE, ![i].resets = @ + 1] /\ Finish(k)
      /\ NewPassword(u) /\ session' = RevokedOf(u)
      /\ doubled' = IF token[i].used THEN doubled \cup {u} ELSE doubled
      /\ UNCHANGED <<crossed, late>>
  BY DEF CommitReset
<1>4. \A j \in DOMAIN token :
         /\ token[j] \in SecurityToken /\ token[j].user \in Users
         /\ token[j].attempts \in Nat /\ token[j].resets \in Nat
  BY <1>1, TokenRows
<1>5. /\ row \in SecurityToken
      /\ row.user = token[i].user /\ row.used
      /\ row.resets = token[i].resets + 1 /\ row.attempts = token[i].attempts
  <2>1. token[i] \in SecurityToken /\ token[i].resets + 1 \in Nat
    BY <1>2, <1>4
  <2> PICK n \in Nat : n = token[i].resets + 1
    BY <2>1
  <2>2. row = [token[i] EXCEPT !.used = TRUE, !.resets = n]
    OBVIOUS
  <2> HIDE DEF row
  <2> QED  BY <2>1, <2>2 DEF SecurityToken
<1>6. token' = [token EXCEPT ![i] = row]
  BY <1>3
<1> HIDE DEF row
<1>7. /\ TokensTyped' /\ DOMAIN token' = DOMAIN token
      /\ \A j \in DOMAIN token : token'[j] = IF j = i THEN row ELSE token[j]
  BY <1>1, <1>2, <1>5, <1>6, OneTokenWritten
<1>8. \A j \in DOMAIN token :
         /\ token'[j].user = token[j].user /\ token'[j].attempts = token[j].attempts
         /\ token[j].used => token'[j].used
         /\ j # i => token'[j].resets = token[j].resets /\ token'[j].used = token[j].used
  BY <1>5, <1>7
<1>9. /\ account' \in [Users -> Account]
      /\ \A v \in Users : v # u => account'[v] = account[v]
  BY <1>1, <1>2, <1>3, <1>4, NewPasswordTyped
<1>10. Revokes /\ SessionsTyped' /\ OneOfFamily' /\ SessionsFollowChange'
  BY <1>2, <1>3, <1>4, <1>9, UserRevoked
<1>11. RequestsGoOn
  <2>1. \A j \in DOMAIN token' :
           /\ token'[j].attempts \in Nat
           /\ j \in DOMAIN token => token'[j].attempts <= token[j].attempts
           /\ j \notin DOMAIN token => token'[j].attempts = 0
    BY <1>4, <1>7, <1>8
  <2>2. DOMAIN session \subseteq DOMAIN session' /\ DOMAIN token \subseteq DOMAIN token'
    BY <1>7, <1>10 DEF Revokes
  <2> QED  BY <1>1, <1>3, <2>1, <2>2, RequestEnds
<1>12. SpentIsUsed'
  BY <1>1, <1>5, <1>7, <1>8 DEF SpentIsUsed
<1>13. /\ \A v : v \notin doubled' => v \notin doubled
       /\ u \notin doubled' => ~token[i].used
  BY <1>3
<1>14. ResetOnce'
  <2>1. ~token[i].used => row.resets = 1
    BY <1>1, <1>2, <1>4, <1>5 DEF SpentIsUsed
  <2>2. ASSUME NEW j \in DOMAIN token, token'[j].user \notin doubled'
        PROVE  token'[j].attempts <= MaxAttempts /\ token'[j].resets <= 1
    <3>1. token[j].attempts <= MaxAttempts /\ token[j].resets <= 1
      BY <1>1, <1>8, <1>13, <2>2 DEF ResetOnce
    <3>2. j = i => token'[j].resets = 1
      BY <1>7, <1>8, <1>13, <2>1, <2>2
    <3> QED  BY <1>8, <3>1, <3>2
  <2>3. ASSUME NEW j \in DOMAIN token, NEW l \in DOMAIN token, token'[j].user \notin doubled',
               token'[j].user = token'[l].user, ~token'[j].used, ~token'[l].used
        PROVE  j = l
    BY <1>1, <1>8, <1>13, <2>3 DEF ResetOnce
  <2> QED  BY <1>7, <2>2, <2>3 DEF ResetOnce
<1>15. doubled' \subseteq Users /\ late' \subseteq Users
  BY <1>1, <1>2, <1>3, <1>4 DEF TypeOK
<1>16. RequestsTyped' /\ RotationsLive' /\ AttemptsCounted'
  BY <1>1, <1>11, RequestsStep
<1> QED  BY <1>7, <1>9, <1>10, <1>12, <1>14, <1>15, <1>16, Assembled

-----------------------------------------------------------------------------
(* The theorems.                                                           *)

LEMMA SessionsInitInv == Init => SessionsInv
<1> SUFFICES ASSUME Init
             PROVE  SessionsInv
  OBVIOUS
<1>1. /\ session = <<>> /\ token = <<>> /\ DOMAIN session = {} /\ DOMAIN token = {}
      /\ session \in Seq(RefreshSession) /\ token \in Seq(SecurityToken)
      /\ Len(session) = 0 /\ Len(token) = 0
  BY EmptySeq DEF Init
<1>2. \A k \in Requests : RequestOK(request[k]) /\ request[k].op = "idle"
  BY DEF Init, RequestOK, Idle
<1>3. account \in [Users -> Account]
  BY DEF Init, Account
<1>4. TypeOK
  BY <1>1, <1>2, <1>3, SessionsAssumption DEF Init, TypeOK
<1> QED  BY <1>1, <1>2, <1>4 DEF SessionsInv, RotationsLive, AttemptsCounted, OneOfFamily,
                              SessionsFollowChange, SpentIsUsed, ResetOnce

LEMMA SessionsInvStep == SessionsInv /\ [Next]_vars => SessionsInv'
<1> SUFFICES ASSUME SessionsInv, [Next]_vars
             PROVE  SessionsInv'
  OBVIOUS
<1>1. ASSUME NEW k \in Requests, NEW u \in Users,
             BeginLogin(k, u) \/ BeginChange(k, u) \/ BeginForgot(k, u)
      PROVE  SessionsInv'
  BY <1>1, BeginStep
<1>2. ASSUME NEW k \in Requests, NEW i \in DOMAIN session, NEW expired \in BOOLEAN,
             BeginRefresh(k, i, expired)
      PROVE  SessionsInv'
  BY <1>2, BeginStep
<1>3. ASSUME NEW k \in Requests, NEW i \in DOMAIN token, NEW right \in BOOLEAN,
             BeginVerify(k, i, right)
      PROVE  SessionsInv'
  <2>1. CASE right = TRUE
    BY <1>3, <2>1, BeginStep
  <2>2. CASE right = FALSE
    BY <1>3, <2>2, WrongCodeBegun
  <2> QED  BY <2>1, <2>2
<1>4. ASSUME NEW k \in Requests, NEW i \in DOMAIN token, BeginReset(k, i)
      PROVE  SessionsInv'
  BY <1>4, BeginStep
<1>5. ASSUME NEW k \in Requests, CommitLogin(k)
      PROVE  SessionsInv'
  BY <1>5, CommitLoginStep
<1>6. ASSUME NEW k \in Requests, CommitRotate(k)
      PROVE  SessionsInv'
  BY <1>6, CommitRotateStep
<1>7. ASSUME NEW k \in Requests, CommitRefusal(k)
      PROVE  SessionsInv'
  BY <1>7, CommitRefusalStep
<1>8. ASSUME NEW k \in Requests, CommitChange(k)
      PROVE  SessionsInv'
  BY <1>8, CommitChangeStep
<1>9. ASSUME NEW k \in Requests, CommitForgot(k)
      PROVE  SessionsInv'
  BY <1>9, CommitForgotStep
<1>10. ASSUME NEW k \in Requests, CommitVerify(k)
       PROVE  SessionsInv'
  <2>1. request[k].op \in {"rightCode", "wrongCode"}
    BY <1>10 DEF CommitVerify
  <2> QED  BY <1>10, <2>1, RightCodeStep, WrongCodeStep
<1>11. ASSUME NEW k \in Requests, CommitReset(k)
       PROVE  SessionsInv'
  BY <1>11, CommitResetStep
<1>12. ASSUME NEW k \in Requests, Abandon(k)
       PROVE  SessionsInv'
  BY <1>12, AbandonStep
<1>13. ASSUME NEW i \in DOMAIN session, EndSession(i)
       PROVE  SessionsInv'
  BY <1>13, EndSessionStep
<1>14. ASSUME NEW u \in Users, NEW status \in {"ACTIVE", "INACTIVE"}, ChangeAccess(u, status)
       PROVE  SessionsInv'
  BY <1>14, ChangeAccessStep
<1>15. CASE UNCHANGED vars
  <2>1. UNCHANGED <<account, session, token, crossed, late, doubled>> /\ request' = request
    BY <1>15 DEF vars
  <2>2. RequestsTyped' /\ RotationsLive' /\ AttemptsCounted'
    BY <2>1 DEF SessionsInv, TypeOK, RequestsTyped, RequestOK, RotationsLive, AttemptsCounted,
                Wrong, Open
  <2> QED  BY <2>1, <2>2, RowsStay
<1> QED
  BY <1>1, <1>2, <1>3, <1>4, <1>5, <1>6, <1>7, <1>8, <1>9, <1>10, <1>11, <1>12, <1>13,
     <1>14, <1>15 DEF Next

LEMMA SessionsInvariant == Spec => []SessionsInv
BY SessionsInitInv, SessionsInvStep, PTL DEF Spec

\* Every variable of the auth service keeps its type.  In particular a token
\* takes no more wrong codes than the limit and the requests under way allow,
\* although verifyResetOtp compares before incrementTokenAttempts counts.
THEOREM SessionsTypeCorrect == Spec => []TypeOK
BY SessionsInvariant, PTL DEF SessionsInv

\* One family, one live session.
LEMMA OneLive == OneOfFamily /\ TypeOK => OneLiveSession
<1> SUFFICES ASSUME OneOfFamily, TypeOK, NEW f \in DOMAIN session \ crossed
             PROVE  Cardinality(LiveIn(f)) <= 1
  BY DEF OneLiveSession
<1>1. \A i, j \in LiveIn(f) : i = j
  BY DEF OneOfFamily, LiveIn
<1>2. CASE LiveIn(f) = {}
  BY <1>2, FS_EmptySet
<1>3. CASE LiveIn(f) # {}
  <2>1. PICK i : i \in LiveIn(f)
    BY <1>3
  <2>2. LiveIn(f) = {i}
    BY <1>1, <2>1
  <2>3. Cardinality({i}) = 1
    BY FS_Singleton
  <2> QED  BY <2>2, <2>3
<1> QED  BY <1>2, <1>3

\* A session or a token gives access only while what it was issued for lasts:
\* however sign-ins, rotations (rotateRefreshSession), sign-outs, changes and
\* resets of the password interleave, a family has one live session, no session
\* outlives a change of the account, and a reset token is used once, except
\* where a rotation, a sign-in or a reset was under way across the change.
THEOREM AccessDoesEnd == Spec => []AccessEnds
<1>1. SessionsInv => AccessEnds
  BY OneLive DEF SessionsInv, AccessEnds
<1> QED  BY <1>1, SessionsInvariant, PTL

\* A family that has ended is not brought back by a refresh of one of its
\* sessions, unless the rotation read the session before it was revoked.
LEMMA EndedStep ==
    ASSUME SessionsInv, [Next]_vars,
           NEW f \in DOMAIN session, f \notin crossed', LiveIn(f) = {}
    PROVE  LiveIn(f)' = {}
<1>1. TypeOK /\ RotationsLive
  BY DEF SessionsInv
<1>2. /\ session \in Seq(RefreshSession) /\ Len(session) \in Nat
      /\ DOMAIN session = 1..Len(session)
      /\ \A j \in DOMAIN session : session[j].family \in 1..Len(session)
                                   /\ session[j] \in RefreshSession
  BY <1>1, SessionRows DEF SessionsTyped
<1>3. \A j \in DOMAIN session : session[j].family = f => ~session[j].live
  BY DEF LiveIn
<1>4. CASE Revokes
  BY <1>3, <1>4 DEF Revokes, LiveIn
<1>5. ASSUME NEW row, Opens(row), row.family # f
      PROVE  LiveIn(f)' = {}
  <2>1. \A j \in DOMAIN session' : j \in DOMAIN session \/ session'[j] = row
    BY <1>2, <1>5 DEF Opens
  <2> QED  BY <1>3, <1>5, <2>1 DEF Opens, LiveIn
<1>6. CASE session' = session
  BY <1>6 DEF LiveIn
<1>7. ASSUME NEW k \in Requests, CommitLogin(k)
      PROVE  LiveIn(f)' = {}
  <2> DEFINE row == [user |-> request[k].user, family |-> Len(session) + 1, live |-> TRUE,
                     since |-> request[k].since]
  <2>1. request[k].user \in Users /\ request[k].since \in Nat
    BY <1>1, <1>7, RequestShape DEF CommitLogin
  <2>2. row \in RefreshSession /\ row.family # f
    BY <1>2, <2>1 DEF RefreshSession
  <2>3. session' = Append(session, row)
    BY <1>7 DEF CommitLogin
  <2> HIDE DEF row
  <2> QED  BY <1>2, <1>5, <2>2, <2>3, OneOpened
<1>8. ASSUME NEW k \in Requests, CommitRotate(k)
      PROVE  LiveIn(f)' = {}
  <2> PICK i : i = request[k].session
    OBVIOUS
  <2> DEFINE row == [session[i] EXCEPT !.live = TRUE]
  <2>1. i \in DOMAIN session /\ request[k].live
    BY <1>1, <1>8, RequestShape DEF CommitRotate, RotationsLive
  <2>2. /\ session' = Append([session EXCEPT ![i].live = FALSE], row)
        /\ crossed' = IF ~session[i].live THEN crossed \cup {session[i].family} ELSE crossed
    BY <1>8, <2>1 DEF CommitRotate
  <2>3. row \in RefreshSession /\ row.family = session[i].family
    <3>1. session[i] \in RefreshSession
      BY <1>2, <2>1
    <3> QED  BY <3>1 DEF RefreshSession
  <2>4. session[i].family # f
    BY <1>3, <2>1, <2>2
  <2> HIDE DEF row
  <2> QED  BY <1>2, <1>5, <2>1, <2>2, <2>3, <2>4, OneReplaced
<1>9. ASSUME NEW ends, session' = Revoked(ends)
      PROVE  LiveIn(f)' = {}
  BY <1>2, <1>4, <1>9, RevokedRows
<1>10. ASSUME NEW i \in DOMAIN session, EndSession(i)
       PROVE  LiveIn(f)' = {}
  <2>1. session' = [session EXCEPT ![i].live = FALSE]
    BY <1>10 DEF EndSession
  <2> QED  BY <1>2, <1>4, <2>1, OneRevoked
<1>11. ASSUME NEW k \in Requests, CommitRefusal(k)
       PROVE  LiveIn(f)' = {}
  BY <1>9, <1>11 DEF CommitRefusal
<1>12. ASSUME NEW u, session' = RevokedOf(u)
       PROVE  LiveIn(f)' = {}
  BY <1>9, <1>12 DEF RevokedOf
<1>13. ASSUME NEW k \in Requests, CommitChange(k) \/ CommitReset(k)
       PROVE  LiveIn(f)' = {}
  BY <1>12, <1>13 DEF CommitChange, CommitReset
<1>14. ASSUME NEW u \in Users, NEW status \in {"ACTIVE", "INACTIVE"}, ChangeAccess(u, status)
       PROVE  LiveIn(f)' = {}
  BY <1>12, <1>14 DEF ChangeAccess
<1>15. ASSUME NEW k \in Requests, CommitForgot(k) \/ CommitVerify(k) \/ Abandon(k)
       PROVE  LiveIn(f)' = {}
  BY <1>6, <1>15 DEF CommitForgot, CommitVerify, Abandon
<1>16. ASSUME NEW k \in Requests, NEW r, Start(k, r)
       PROVE  LiveIn(f)' = {}
  BY <1>6, <1>16 DEF Start
<1>17. ASSUME NEW k \in Requests, NEW u \in Users,
              BeginLogin(k, u) \/ BeginChange(k, u) \/ BeginForgot(k, u)
       PROVE  LiveIn(f)' = {}
  BY <1>16, <1>17 DEF BeginLogin, BeginChange, BeginForgot
<1>18. ASSUME NEW k \in Requests, NEW i \in DOMAIN session, NEW expired \in BOOLEAN,
              BeginRefresh(k, i, expired)
       PROVE  LiveIn(f)' = {}
  BY <1>16, <1>18 DEF BeginRefresh
<1>19. ASSUME NEW k \in Requests, NEW i \in DOMAIN token, NEW right \in BOOLEAN,
              BeginVerify(k, i, right) \/ BeginReset(k, i)
       PROVE  LiveIn(f)' = {}
  BY <1>16, <1>19 DEF BeginVerify, BeginReset
<1>20. CASE UNCHANGED vars
  BY <1>6, <1>20 DEF vars
<1> QED
  BY <1>7, <1>8, <1>10, <1>11, <1>13, <1>14, <1>15, <1>17, <1>18, <1>19, <1>20 DEF Next

\* A family that has ended, by sign-out, by a change or because a revoked
\* session was presented (revokeRefreshFamily), never has a live session again,
\* unless rotateRefreshSession replaces a session revoked after it was read.
THEOREM EndedFamiliesStayEnded == Spec => EndedStaysEnded
<1>1. SessionsInv /\ [Next]_vars =>
          [\A f \in DOMAIN session :
              f \notin crossed' /\ session[f].family = f /\ LiveIn(f) = {} => LiveIn(f)' = {}]_vars
  BY EndedStep
<1> QED  BY <1>1, SessionsInvariant, PTL DEF Spec, EndedStaysEnded
=============================================================================
