------------------------- MODULE AuthClientsProofs --------------------------
(* What AuthSessions tells its clients, and what it records, is true: the      *)
(* inductive invariant on answers and what follows from it.                    *)
EXTENDS AuthSessionsProofs

\* What every step leaves of the rows that were there.
RowsKept ==
    \A s \in Stored :
        /\ s \in Stored'
        /\ IsRevoked(s) => sessions'[s].revoked
        /\ sessions'[s].user = sessions[s].user
        /\ sessions'[s].expiresAt = sessions[s].expiresAt

LEMMA MovesKeepRows == ASSUME TableMoves PROVE RowsKept
BY DEF TableMoves, RowRevoked, RowIssued, RowReplaced, RowsKept, Stored, IsRevoked

-----------------------------------------------------------------------------
(* What a request may tell, and to whom, follows from where it is *)

Opened(table, c) ==
    /\ c.new \in DOMAIN table
    /\ table[c.new].user = c.user
    /\ table[c.new].expiresAt = c.now + RefreshTTL
Closed(table, c) == c.token \in DOMAIN table /\ table[c.token].revoked

Finished(label, c) == label = "WriteAudit" \/ (label = "answer" /\ c.status \in {200, 201})

\* A logout that has met a session.
Confirmed(label, c) ==
    /\ c.op = "logout" /\ Finished(label, c)
    /\ c.token # None \/ c.audited \/ label = "WriteAudit"

\* A request of an account that is let in.
Admitted(label, c) ==
    \/ label = "CreateSession"
    \/ label = "RecordLoginAttempt" /\ c.status = 0
    \/ c.op \in {"login", "me"} /\ Finished(label, c)

LogsOK(label, c) ==
    /\ c.attempt = "success" => c.op = "login" /\ Finished(label, c)
    /\ c.audited => label = "answer" /\ Finished(label, c)
    /\ c.status = 200 => label = "answer"

OutcomeOK(table, accounts, label, c) ==
    /\ label \in {"CreateUser", "UserByID"} => c.user \in Emails
    /\ Granting(c) /\ (Finished(label, c) \/ (label = "RecordLoginAttempt" /\ c.status = 0))
         => Opened(table, c)
    /\ Confirmed(label, c) => Closed(table, c)
    /\ c.op = "register" /\ Finished(label, c) => c.user \in Emails /\ accounts[c.user] # "absent"

\* A token that was stale when it arrived is still refused by what the lookup compares.
TokenOK(table, label, c) ==
    /\ label = "SessionByHash" => c.token \in DOMAIN table \cup {None}
    /\ c.stale =>
         /\ c.op = "refresh" /\ c.new = None /\ label \in {"SessionByHash", "answer"}
         /\ label = "SessionByHash" /\ c.token # None =>
              table[c.token].revoked \/ table[c.token].expiresAt <= c.now

\* An account that is active when it is looked at has been seen so.
SeenOK(accounts, label, c) ==
    /\ Admitted(label, c) => c.seenActive
    /\ label \in {"CredentialsByEmail", "UserByID"} /\ accounts[c.user] = "active" => c.seenActive

Told(table, accounts, label, c) ==
    /\ LogsOK(label, c)
    /\ OutcomeOK(table, accounts, label, c)
    /\ TokenOK(table, label, c)
    /\ SeenOK(accounts, label, c)

ToldInv == \A r \in Requests : Told(sessions, users, pc[r], call[r])
ClientInv == ToldInv /\ GrantsAreBacked /\ LoggedOutIsRevoked

\* What the tables may do while a request waits: rows are kept, accounts stay, and one
\* that becomes active is noticed.
LEMMA ToldStays ==
    ASSUME TypeInv, RowsKept, NEW q \in Requests, Told(sessions, users, pc[q], call[q]),
           \A u \in Emails : users[u] # "absent" => users'[u] # "absent",
           \/ call'[q] = call[q]
           \/ call'[q] = [call[q] EXCEPT !.seenActive = TRUE],
           pc'[q] = pc[q],
           \A u \in Emails : /\ users'[u] = "active" /\ u = call[q].user
                             => users[u] = "active" \/ call'[q].seenActive
    PROVE  Told(sessions', users', pc'[q], call'[q])
<1> DEFINE c == call[q]
           d == call'[q]
           label == pc[q]
<1>1. c \in Call /\ Fits(label, c)
  BY DEF TypeInv, TypeOK, Ready
<1>2. /\ d.op = c.op /\ d.user = c.user /\ d.token = c.token /\ d.now = c.now
      /\ d.new = c.new /\ d.status = c.status /\ d.audited = c.audited
      /\ d.attempt = c.attempt /\ d.stale = c.stale
      /\ c.seenActive => d.seenActive
  <2>1. CASE d = c
    BY <2>1
  <2>2. CASE d = [c EXCEPT !.seenActive = TRUE]
    <3>1. [c EXCEPT !.seenActive = TRUE].seenActive
      BY <1>1 DEF Call
    <3> HIDE DEF c, d
    <3> QED BY <1>1, <2>2, <3>1, SeenUpdate
  <2> QED BY <2>1, <2>2
<1>3. \A u \in Emails : u = c.user /\ users'[u] = "active" => users[u] = "active" \/ d.seenActive
  OBVIOUS
<1>4. pc'[q] = label
  OBVIOUS
<1> HIDE DEF c, d, label
<1>5. \A s \in DOMAIN sessions : /\ s \in DOMAIN sessions'
                                 /\ sessions[s].revoked => sessions'[s].revoked
                                 /\ sessions'[s].user = sessions[s].user
                                 /\ sessions'[s].expiresAt = sessions[s].expiresAt
  BY Zenon DEF RowsKept, Stored, IsRevoked
<1>6. /\ LogsOK(label, c) /\ OutcomeOK(sessions, users, label, c)
      /\ TokenOK(sessions, label, c) /\ SeenOK(users, label, c)
  BY DEF Told, c, label
<1>7. LogsOK(label, d)
  BY <1>2, <1>6 DEF LogsOK, Finished
<1>8. OutcomeOK(sessions', users', label, d)
  BY <1>2, <1>5, <1>6 DEF OutcomeOK, Finished, Confirmed, Opened, Closed, Granting
<1>9. TokenOK(sessions', label, d)
  BY <1>2, <1>5, <1>6 DEF TokenOK
<1>10. SeenOK(users', label, d)
  <2>1. label \in {"CredentialsByEmail", "UserByID"} => c.user \in Emails
    BY <1>1, <1>6 DEF Fits, KnowsUser, OutcomeOK
  <2> QED BY <1>2, <1>3, <1>6, <2>1 DEF SeenOK, Admitted, Finished
<1> QED BY <1>4, <1>7, <1>8, <1>9, <1>10 DEF Told, d

LEMMA ToldStep ==
    ASSUME TypeInv, ToldInv, RowsKept, NEW r \in Requests, users' = users,
           \A q \in Requests \ {r} : pc'[q] = pc[q] /\ call'[q] = call[q],
           Told(sessions', users, pc'[r], call'[r])
    PROVE  ToldInv'
<1> SUFFICES ASSUME NEW q \in Requests PROVE Told(sessions', users', pc'[q], call'[q])
  BY DEF ToldInv
<1>1. CASE q = r
  BY <1>1
<1>2. CASE q # r
  <2>1. Told(sessions, users, pc[q], call[q])
    BY DEF ToldInv
  <2>2. pc'[q] = pc[q] /\ call'[q] = call[q]
    BY <1>2
  <2> QED BY <2>1, <2>2, ToldStays
<1> QED BY <1>1, <1>2

LEMMA ToldGoto ==
    ASSUME TypeInv, ToldInv, RowsKept, NEW r \in Requests, users' = users,
           NEW c, NEW label, Goto(r, c, label), Told(sessions', users, label, c)
    PROVE  ToldInv'
BY GotoEffect, ToldStep

\* An answer that is neither a success nor a late refusal promises nothing.
LEMMA ToldRefused ==
    ASSUME TypeInv, ToldInv, RowsKept, NEW r \in Requests, users' = users,
           NEW c \in Call, NEW status \in {400, 401, 403, 409, 500}, Answer(r, c, status),
           c.attempt # "success", ~c.audited,
           c.stale => c.op = "refresh" /\ c.new = None
    PROVE  ToldInv'
<1> DEFINE d == [c EXCEPT !.status = status]
<1>1. /\ d.status = status /\ d.attempt = c.attempt /\ d.audited = c.audited
      /\ d.stale = c.stale /\ d.new = c.new /\ d.op = c.op
  BY DEF Call
<1>2. Goto(r, d, "answer")
  BY DEF Answer
<1> HIDE DEF d
<1>3. Told(sessions', users, "answer", d)
  BY <1>1 DEF Told, LogsOK, OutcomeOK, TokenOK, SeenOK, Finished, Confirmed, Admitted
<1> QED BY <1>2, <1>3, ToldGoto

\* Before its last statements a request has recorded nothing and promised nothing.
LEMMA NothingToldYet ==
    ASSUME NEW r \in Requests, ToldInv, pc[r] \in Statements \ {"WriteAudit"}
    PROVE  /\ call[r].attempt # "success" /\ ~call[r].audited /\ call[r].status # 200
           /\ pc[r] # "SessionByHash" => ~call[r].stale
           /\ call[r].stale => call[r].op = "refresh" /\ call[r].new = None
BY DEF Statements, ToldInv, Told, LogsOK, TokenOK, Finished

LEMMA ArrivalsTold ==
    ASSUME TypeInv, ClientInv, RowsKept, NEW r \in Requests,
           Register(r) \/ Login(r) \/ Refresh(r) \/ Logout(r) \/ Authenticate(r)
    PROVE  ToldInv'
<1> USE NoCallType DEF ClientInv
<1>0. users' = users /\ sessions' = sessions
  BY Zenon DEF Register, Login, Refresh, Logout, Authenticate, Arrives, db
<1>1. CASE Register(r)
  <2>1. PICK raw \in RawEmails, pw \in Passwords \ {"wrong"} :
          LET email == normalizeEmail(raw)
              c == [NoCall EXCEPT !.op = "register", !.user = email, !.password = pw]
          IN \/ (email = None \/ pw \in {"blank", "short"}) /\ Answer(r, c, 400)
             \/ email # None /\ pw = "tooLong" /\ Answer(r, c, 500)
             \/ email # None /\ pw = "right" /\ Goto(r, c, "CreateUser")
    BY Zenon, <1>1 DEF Register
  <2> DEFINE email == normalizeEmail(raw)
             c == [NoCall EXCEPT !.op = "register", !.user = email, !.password = pw]
  <2>2. email \in Emails \cup {None}
    BY NormalAssumption DEF normalizeEmail
  <2>3. c \in Call /\ c.op = "register" /\ c.user = email
    BY Zenon, <2>2 DEF NoCall, Call, Ops
  <2>4. c.attempt = "none" /\ c.audited = FALSE /\ c.stale = FALSE /\ c.status = 0
    BY DEF NoCall
  <2>5. \/ Answer(r, c, 400) \/ Answer(r, c, 500)
        \/ email # None /\ Goto(r, c, "CreateUser")
    BY <2>1
  <2> HIDE DEF c, email
  <2>6. CASE email # None /\ Goto(r, c, "CreateUser")
    <3>1. Told(sessions', users, "CreateUser", c)
      BY <2>2, <2>3, <2>4, <2>6
      DEF Told, LogsOK, OutcomeOK, TokenOK, SeenOK, Finished, Confirmed, Admitted, Granting
    <3> QED BY <1>0, <2>6, <3>1, ToldGoto
  <2> QED BY <1>0, <2>3, <2>4, <2>5, <2>6, ToldRefused
<1>2. CASE Login(r)
  <2>1. PICK raw \in RawEmails, pw \in {"blank", "wrong", "right"} :
          LET email == normalizeEmail(raw)
              c == [NoCall EXCEPT !.op = "login", !.user = email, !.password = pw]
          IN \/ (email = None \/ pw = "blank") /\ Answer(r, c, 400)
             \/ /\ email # None /\ pw # "blank"
                /\ Goto(r, [c EXCEPT !.seenActive = InForce(email)], "CredentialsByEmail")
    BY Zenon, <1>2 DEF Login
  <2> DEFINE email == normalizeEmail(raw)
             c == [NoCall EXCEPT !.op = "login", !.user = email, !.password = pw]
             d == [c EXCEPT !.seenActive = InForce(email)]
  <2>2. c \in Call /\ email \in Emails \cup {None}
    BY NormalAssumption DEF NoCall, Call, normalizeEmail, Ops, Passwords
  <2>3. /\ c.attempt = "none" /\ c.audited = FALSE /\ c.stale = FALSE /\ c.status = 0
        /\ c.op = "login" /\ c.user = email
    BY DEF NoCall
  <2>4. /\ d.attempt = "none" /\ d.audited = FALSE /\ d.stale = FALSE /\ d.status = 0
        /\ d.op = "login" /\ d.user = email /\ d.seenActive = InForce(email)
    <3> HIDE DEF c, email
    <3> QED BY Zenon, <2>2, <2>3 DEF Call
  <2>5. Answer(r, c, 400) \/ (email # None /\ Goto(r, d, "CredentialsByEmail"))
    BY <2>1
  <2> HIDE DEF c, d, email
  <2>6. CASE Goto(r, d, "CredentialsByEmail")
    <3>1. users[d.user] = "active" => d.seenActive
      BY Zenon, <2>4 DEF InForce
    <3>2. Told(sessions', users, "CredentialsByEmail", d)
      BY <2>4, <3>1
      DEF Told, LogsOK, OutcomeOK, TokenOK, SeenOK, Finished, Confirmed, Admitted
    <3> QED BY <1>0, <2>6, <3>2, ToldGoto
  <2> QED BY <1>0, <2>2, <2>3, <2>5, <2>6, ToldRefused
<1>3. CASE Refresh(r)
  <2> DEFINE c == [NoCall EXCEPT !.op = "refresh", !.now = clock]
             d(s) == [c EXCEPT !.token = s, !.stale = Stale(s)]
  <2>1. /\ c \in Call
        /\ c.attempt = "none" /\ c.audited = FALSE /\ c.stale = FALSE /\ c.status = 0
        /\ c.op = "refresh" /\ c.now = clock /\ c.new = None
    BY DEF NoCall, Call, Ops, TypeInv, TypeOK
  <2>2. ASSUME NEW s \in cookies \cup {None}, Goto(r, d(s), "SessionByHash")
        PROVE  ToldInv'
    <3>1. /\ d(s).attempt = "none" /\ d(s).audited = FALSE /\ d(s).status = 0
          /\ d(s).op = "refresh" /\ d(s).now = clock /\ d(s).new = None
          /\ d(s).token = s /\ d(s).stale = Stale(s)
      <4> HIDE DEF c
      <4> QED BY Zenon, <2>1 DEF Call
    <3>2. s \in DOMAIN sessions' \cup {None}
      BY <1>0 DEF GrantsAreBacked, Stored
    <3>3. Stale(s) /\ s # None => sessions'[s].revoked \/ sessions'[s].expiresAt <= clock
      BY <1>0, <3>2 DEF Stale, Stored, IsRevoked
    <3>4. Told(sessions', users, "SessionByHash", d(s))
      <4> HIDE DEF d
      <4> QED
        BY <3>1, <3>2, <3>3
        DEF Told, LogsOK, OutcomeOK, TokenOK, SeenOK, Finished, Confirmed, Admitted
    <3> HIDE DEF d
    <3> QED BY <1>0, <2>2, <3>4, ToldGoto
  <2>3. CASE Answer(r, c, 401)
    <3> HIDE DEF c
    <3> QED BY <1>0, <2>1, <2>3, ToldRefused
  <2> QED BY Zenon, <1>3, <2>2, <2>3 DEF Refresh
<1>4. CASE Logout(r)
  <2> DEFINE c == [NoCall EXCEPT !.op = "logout"]
             d(s) == [c EXCEPT !.token = s]
             e == [c EXCEPT !.status = 200]
  <2>1. /\ c \in Call /\ c.token = None /\ c.op = "logout"
        /\ c.attempt = "none" /\ c.audited = FALSE /\ c.stale = FALSE /\ c.status = 0
    BY DEF NoCall, Call, Ops
  <2>2. ASSUME NEW s \in cookies \cup {None}, Goto(r, d(s), "SessionByHash")
        PROVE  ToldInv'
    <3>1. /\ d(s).attempt = "none" /\ d(s).audited = FALSE /\ d(s).status = 0
          /\ d(s).op = "logout" /\ d(s).token = s /\ d(s).stale = FALSE
      <4> HIDE DEF c
      <4> QED BY <2>1 DEF Call
    <3>2. s \in DOMAIN sessions' \cup {None}
      BY <1>0 DEF GrantsAreBacked, Stored
    <3> HIDE DEF d
    <3>3. Told(sessions', users, "SessionByHash", d(s))
      BY <3>1, <3>2
      DEF Told, LogsOK, OutcomeOK, TokenOK, SeenOK, Finished, Confirmed, Admitted
    <3> QED BY <1>0, <2>2, <3>3, ToldGoto
  <2>3. CASE Answer(r, c, 200)
    <3>1. Goto(r, e, "answer")
      BY <2>3 DEF Answer
    <3>2. /\ e.attempt = "none" /\ e.audited = FALSE /\ e.stale = FALSE
          /\ e.op = "logout" /\ e.token = None
      <4> HIDE DEF c
      <4> QED BY <2>1 DEF Call
    <3> HIDE DEF e
    <3>3. Told(sessions', users, "answer", e)
      BY <3>2
      DEF Told, LogsOK, OutcomeOK, TokenOK, SeenOK, Confirmed, Admitted, Granting
    <3> QED BY <1>0, <3>1, <3>3, ToldGoto
  <2> QED BY Zenon, <1>4, <2>2, <2>3 DEF Logout
<1>5. CASE Authenticate(r)
  <2>1. PICK u \in Emails \cup {None} :
          LET c == [NoCall EXCEPT !.op = "me", !.user = u]
          IN \/ Answer(r, c, 401)
             \/ u # None /\ Goto(r, [c EXCEPT !.seenActive = InForce(u)], "UserByID")
    BY Zenon, <1>5 DEF Authenticate, VerifyAccessToken
  <2> DEFINE c == [NoCall EXCEPT !.op = "me", !.user = u]
             d == [c EXCEPT !.seenActive = InForce(u)]
  <2>2. /\ c \in Call /\ c.op = "me" /\ c.user = u
        /\ c.attempt = "none" /\ c.audited = FALSE /\ c.stale = FALSE /\ c.status = 0
    BY DEF NoCall, Call, Ops
  <2>3. /\ d.attempt = "none" /\ d.audited = FALSE /\ d.stale = FALSE /\ d.status = 0
        /\ d.op = "me" /\ d.user = u /\ d.seenActive = InForce(u)
    <3> HIDE DEF c
    <3> QED BY Zenon, <2>2 DEF Call
  <2>4. Answer(r, c, 401) \/ (u # None /\ Goto(r, d, "UserByID"))
    BY <2>1
  <2> HIDE DEF c, d
  <2>5. CASE u # None /\ Goto(r, d, "UserByID")
    <3>1. users[d.user] = "active" => d.seenActive
      BY Zenon, <2>3 DEF InForce
    <3>2. Told(sessions', users, "UserByID", d)
      BY <2>3, <2>5, <3>1
      DEF Told, LogsOK, OutcomeOK, TokenOK, SeenOK, Finished, Confirmed, Admitted
    <3> QED BY <1>0, <2>5, <3>2, ToldGoto
  <2> QED BY <1>0, <2>2, <2>4, <2>5, ToldRefused
<1> QED BY <1>1, <1>2, <1>3, <1>4, <1>5

LEMMA CredentialsTold ==
    ASSUME TypeInv, ToldInv, RowsKept, NEW r \in Requests, CredentialsByEmail(r)
    PROVE  ToldInv'
<1> DEFINE c == call[r]
           d(status) == [c EXCEPT !.status = status]
           e == [c EXCEPT !.now = clock]
<1>1. /\ pc[r] = "CredentialsByEmail" /\ users' = users
      /\ c \in Call /\ c.op = "login" /\ c.status = 0
  BY DEF CredentialsByEmail, At, db, TypeInv, TypeOK, Ready, Fits
<1>2. c.attempt # "success" /\ ~c.audited /\ ~c.stale
  BY <1>1, NothingToldYet DEF Statements
<1>3. users[c.user] = "active" => c.seenActive
  BY <1>1 DEF ToldInv, Told, SeenOK
<1>4. \/ Goto(r, d(401), "RecordLoginAttempt")
      \/ Goto(r, d(403), "RecordLoginAttempt")
      \/ users[c.user] = "active" /\ Goto(r, e, "CreateSession")
  BY DEF CredentialsByEmail, IsActive
<1>5. \A st \in {401, 403} : /\ d(st).attempt # "success" /\ ~d(st).audited /\ ~d(st).stale
                             /\ d(st).op = "login" /\ d(st).status = st
  BY <1>1, <1>2 DEF Call
<1>6. /\ e.attempt # "success" /\ ~e.audited /\ ~e.stale
      /\ e.op = "login" /\ e.status = 0 /\ e.seenActive = c.seenActive
  BY <1>1, <1>2 DEF Call
<1> HIDE DEF c, d, e
<1>7. ASSUME NEW st \in {401, 403}, Goto(r, d(st), "RecordLoginAttempt") PROVE ToldInv'
  <2>1. Told(sessions', users, "RecordLoginAttempt", d(st))
    BY <1>5 DEF Told, LogsOK, OutcomeOK, TokenOK, SeenOK, Finished, Confirmed, Admitted
  <2> QED BY <1>1, <1>7, <2>1, ToldGoto
<1>8. CASE users[c.user] = "active" /\ Goto(r, e, "CreateSession")
  <2>1. Told(sessions', users, "CreateSession", e)
    BY <1>3, <1>6, <1>8
    DEF Told, LogsOK, OutcomeOK, TokenOK, SeenOK, Finished, Confirmed, Admitted
  <2> QED BY <1>1, <1>8, <2>1, ToldGoto
<1> QED BY <1>4, <1>7, <1>8

LEMMA CreateSessionTold ==
    ASSUME TypeInv, ToldInv, RowsKept, NEW r \in Requests, CreateSession(r)
    PROVE  ToldInv'
<1> DEFINE c == call[r]
<1>1. /\ pc[r] = "CreateSession" /\ users' = users
      /\ c \in Call /\ c.op = "login" /\ c.status = 0
  BY DEF CreateSession, At, TypeInv, TypeOK, Ready, Fits
<1>2. c.attempt # "success" /\ ~c.audited /\ ~c.stale
  BY <1>1, NothingToldYet DEF Statements
<1>3. c.seenActive
  BY <1>1 DEF ToldInv, Told, SeenOK, Admitted
<1>4. PICK s \in Fresh, ok \in Acked :
        LET d == [c EXCEPT !.new = s] IN
        /\ sessions' = Insert(sessions, s, sessionParams(d.user, d.now))
        /\ IF ok THEN Goto(r, d, "RecordLoginAttempt") ELSE Answer(r, d, 500)
  BY DEF CreateSession
<1> DEFINE d == [c EXCEPT !.new = s]
<1>5. /\ d \in Call /\ d.attempt # "success" /\ ~d.audited /\ ~d.stale
      /\ d.op = "login" /\ d.status = 0 /\ d.seenActive = c.seenActive /\ d.new = s
  BY <1>1, <1>2 DEF Call, Fresh
<1>6. sessions' = Insert(sessions, s, sessionParams(d.user, d.now))
  BY <1>4
<1>7. Goto(r, d, "RecordLoginAttempt") \/ Answer(r, d, 500)
  BY <1>4
<1> HIDE DEF c, d
<1>8. Opened(sessions', d)
  BY <1>5, <1>6 DEF Opened, Insert, sessionParams
<1>9. Told(sessions', users, "RecordLoginAttempt", d)
  BY <1>3, <1>5, <1>8
  DEF Told, LogsOK, OutcomeOK, TokenOK, SeenOK, Finished, Confirmed, Admitted
<1> QED BY <1>1, <1>5, <1>7, <1>9, ToldGoto, ToldRefused

LEMMA RecordLoginAttemptTold ==
    ASSUME TypeInv, ToldInv, RowsKept, NEW r \in Requests, RecordLoginAttempt(r)
    PROVE  ToldInv'
<1> DEFINE c == call[r]
           d(a) == [c EXCEPT !.attempt = a]
<1>1. /\ pc[r] = "RecordLoginAttempt" /\ users' = users /\ sessions' = sessions
      /\ c \in Call /\ c.op = "login" /\ c.status \in {0, 401, 403}
  BY DEF RecordLoginAttempt, At, db, TypeInv, TypeOK, Ready, Fits
<1>2. c.attempt # "success" /\ ~c.audited /\ ~c.stale
  BY <1>1, NothingToldYet DEF Statements
<1>3. c.status = 0 => Opened(sessions, c) /\ c.seenActive
  BY <1>1 DEF ToldInv, Told, OutcomeOK, SeenOK, Admitted, Granting
<1>4. PICK a \in {"success", "failure", "failedToRecord"} :
        /\ a = "success" => c.status = 0
        /\ Goto(r, d(a), IF c.status = 0 THEN "WriteAudit" ELSE "answer")
  BY DEF RecordLoginAttempt
<1>5. /\ d(a) \in Call /\ d(a).attempt = a /\ ~d(a).audited /\ ~d(a).stale
      /\ d(a).op = "login" /\ d(a).status = c.status /\ d(a).seenActive = c.seenActive
      /\ d(a).new = c.new /\ d(a).user = c.user /\ d(a).now = c.now
  BY <1>1, <1>2 DEF Call
<1> HIDE DEF c, d
<1>6. Told(sessions', users, IF c.status = 0 THEN "WriteAudit" ELSE "answer", d(a))
  <2>1. c.status = 0 => Opened(sessions', d(a))
    BY <1>1, <1>3, <1>5 DEF Opened
  <2> QED
    BY <1>1, <1>3, <1>4, <1>5, <2>1
    DEF Told, LogsOK, OutcomeOK, TokenOK, SeenOK, Finished, Confirmed, Admitted
<1> QED BY <1>1, <1>4, <1>6, ToldGoto

LEMMA WriteAuditTold ==
    ASSUME TypeInv, ToldInv, RowsKept, NEW r \in Requests, WriteAudit(r)
    PROVE  ToldInv'
<1> DEFINE c == call[r]
           d(b) == [c EXCEPT !.audited = b]
           st == IF c.op = "register" THEN 201 ELSE 200
           e(b) == [d(b) EXCEPT !.status = st]
<1>1. /\ pc[r] = "WriteAudit" /\ users' = users /\ sessions' = sessions /\ c \in Call
  BY DEF WriteAudit, At, db, TypeInv, TypeOK
<1>2. Told(sessions, users, "WriteAudit", c)
  BY <1>1 DEF ToldInv
<1>3. PICK b \in BOOLEAN : Goto(r, e(b), "answer")
  BY DEF WriteAudit, Acked, Answer
<1>4. /\ e(b).attempt = c.attempt /\ e(b).audited = b /\ e(b).status = st
      /\ e(b).stale = c.stale /\ e(b).seenActive = c.seenActive
      /\ e(b).op = c.op /\ e(b).new = c.new /\ e(b).user = c.user /\ e(b).now = c.now
      /\ e(b).token = c.token
  BY <1>1 DEF Call, Statuses
<1>5. st \in {200, 201}
  OBVIOUS
<1> HIDE DEF c, d, e, st
<1>6. ~c.stale
  BY <1>2 DEF Told, TokenOK
<1>7. Told(sessions', users, "answer", e(b))
  <2>1. LogsOK("answer", e(b))
    BY <1>2, <1>4, <1>5 DEF Told, LogsOK, Finished
  <2>2. OutcomeOK(sessions', users, "answer", e(b))
    BY <1>1, <1>2, <1>4, <1>5
    DEF Told, OutcomeOK, Opened, Closed, Finished, Confirmed, Granting
  <2>3. SeenOK(users, "answer", e(b))
    BY <1>2, <1>4 DEF Told, SeenOK, Admitted, Finished
  <2> QED BY <1>4, <1>6, <2>1, <2>2, <2>3 DEF Told, TokenOK
<1> QED BY <1>1, <1>3, <1>7, ToldGoto

LEMMA SessionByHashTold ==
    ASSUME TypeInv, ToldInv, RowsKept, NEW r \in Requests, SessionByHash(r)
    PROVE  ToldInv'
<1> DEFINE c == call[r]
           d == [c EXCEPT !.user = sessions[c.token].user]
           e == [c EXCEPT !.status = 200]
<1>1. /\ pc[r] = "SessionByHash" /\ users' = users /\ sessions' = sessions
      /\ c \in Call /\ c.op \in {"refresh", "logout"}
  BY DEF SessionByHash, At, db, TypeInv, TypeOK, Ready, Fits
<1>2. /\ c.attempt # "success" /\ ~c.audited /\ c.status # 200
      /\ c.stale => c.op = "refresh" /\ c.new = None
  BY <1>1, NothingToldYet DEF Statements
<1>3. /\ c.token \in Stored \cup {None}
      /\ c.stale /\ c.token # None => ~Usable(c.token, c.now)
  <2>1. TokenOK(sessions, "SessionByHash", c)
    BY <1>1 DEF ToldInv, Told
  <2>2. c.now \in Nat /\ \A s \in Stored : sessions[s].expiresAt \in Nat
    BY <1>1, StoredTyped DEF Call, Row
  <2> HIDE DEF c
  <2> QED BY <2>1, <2>2 DEF TokenOK, Stored, Usable, IsRevoked
<1>4. \/ c.token \notin Stored /\ c.op = "logout" /\ Answer(r, c, 200)
      \/ Answer(r, c, 401)
      \/ c.token \in Stored /\ c.op = "logout" /\ Goto(r, d, "RevokeSession")
      \/ /\ c.token \in Stored /\ c.op = "refresh" /\ Usable(c.token, c.now)
         /\ Goto(r, d, "RotateInsert")
  BY <1>1 DEF SessionByHash
<1>5. /\ d.attempt = c.attempt /\ d.audited = c.audited /\ d.stale = c.stale
      /\ d.op = c.op /\ d.token = c.token /\ d.status = c.status
  BY <1>1 DEF Call
<1>6. /\ e.attempt = c.attempt /\ e.audited = c.audited /\ e.stale = c.stale
      /\ e.op = c.op /\ e.token = c.token
  BY <1>1 DEF Call
<1>7. CASE c.token \notin Stored /\ c.op = "logout" /\ Answer(r, c, 200)
  <2>1. Goto(r, e, "answer")
    BY <1>7 DEF Answer
  <2> HIDE DEF c, d, e
  <2>2. Told(sessions', users, "answer", e)
    BY <1>2, <1>3, <1>6, <1>7
    DEF Told, LogsOK, OutcomeOK, TokenOK, SeenOK, Confirmed, Admitted, Granting
  <2> QED BY <1>1, <2>1, <2>2, ToldGoto
<1>8. CASE Answer(r, c, 401)
  BY <1>1, <1>2, <1>8, ToldRefused
<1>9. ASSUME NEW label \in {"RevokeSession", "RotateInsert"}, ~c.stale, Goto(r, d, label)
      PROVE  ToldInv'
  <2> HIDE DEF c, d
  <2>1. Told(sessions', users, label, d)
    BY <1>2, <1>5, <1>9
    DEF Told, LogsOK, OutcomeOK, TokenOK, SeenOK, Finished, Confirmed, Admitted
  <2> QED BY <1>1, <1>9, <2>1, ToldGoto
<1>10. CASE c.token \in Stored /\ c.op = "logout" /\ Goto(r, d, "RevokeSession")
  <2>1. ~c.stale
    BY <1>2, <1>10
  <2> HIDE DEF c, d
  <2> QED BY <1>9, <1>10, <2>1
<1>11. CASE /\ c.token \in Stored /\ Usable(c.token, c.now)
            /\ Goto(r, d, "RotateInsert")
  <2>1. c.token # None
    BY <1>11, NoneAssumption DEF TypeInv, TypeOK, Stored
  <2>2. ~c.stale
    BY <1>3, <1>11, <2>1
  <2> HIDE DEF c, d
  <2> QED BY <1>9, <1>11, <2>2
<1> QED BY <1>4, <1>7, <1>8, <1>10, <1>11

LEMMA RevokeSessionTold ==
    ASSUME TypeInv, RotationInv, ToldInv, RowsKept, NEW r \in Requests, RevokeSession(r)
    PROVE  ToldInv'
<1> DEFINE c == call[r]
<1>1. /\ pc[r] = "RevokeSession" /\ users' = users /\ c \in Call /\ c.op = "logout"
  BY DEF RevokeSession, At, TypeInv, TypeOK, Ready, Fits
<1>2. c.attempt # "success" /\ ~c.audited /\ ~c.stale /\ c.status # 200
  BY <1>1, NothingToldYet DEF Statements
<1>3. c.token \in Stored
  BY <1>1 DEF RotationInv, TransactionsSound
<1>4. Closed(sessions', c)
  <2>1. CASE IsRevoked(c.token)
    BY <1>3, <2>1 DEF RowsKept, Closed, Stored
  <2>2. CASE ~IsRevoked(c.token)
    <3>1. sessions' = [sessions EXCEPT ![c.token].revoked = TRUE]
      BY <2>2 DEF RevokeSession, StillLive
    <3>2. sessions \in [DOMAIN sessions -> Row]
      BY DEF TypeInv, TypeOK
    <3> HIDE DEF c
    <3> QED BY <1>3, <3>1, <3>2, RevokeType DEF Closed, Stored
  <2> QED BY <2>1, <2>2
<1>5. Goto(r, c, "WriteAudit") \/ Answer(r, c, 500)
  BY DEF RevokeSession
<1> HIDE DEF c
<1>6. Told(sessions', users, "WriteAudit", c)
  BY <1>1, <1>2, <1>4
  DEF Told, LogsOK, OutcomeOK, TokenOK, SeenOK, Finished, Confirmed, Admitted, Granting
<1> QED BY <1>1, <1>2, <1>5, <1>6, ToldGoto, ToldRefused

LEMMA RotationTold ==
    ASSUME TypeInv, RotationInv, ToldInv, RowsKept, NEW r \in Requests,
           RotateInsert(r) \/ RotateRevoke(r) \/ RotateCommit(r)
    PROVE  ToldInv'
<1> DEFINE c == call[r]
<1>1. /\ pc[r] \in InRotation /\ users' = users /\ c \in Call /\ c.op = "refresh"
  BY Zenon
  DEF RotateInsert, RotateRevoke, RotateCommit, At, db, TypeInv, TypeOK, Ready, Fits, InRotation
<1>2. c.attempt # "success" /\ ~c.audited /\ ~c.stale /\ c.status # 200
  BY <1>1, NothingToldYet DEF Statements, InRotation
<1>3. ASSUME NEW d, NEW label \in {"RotateRevoke", "RotateCommit"}, Goto(r, d, label),
             d.attempt = c.attempt, d.audited = c.audited, d.stale = c.stale,
             d.op = c.op, d.status = c.status
      PROVE  ToldInv'
  <2>1. Told(sessions', users, label, d)
    BY <1>1, <1>2, <1>3
    DEF Told, LogsOK, OutcomeOK, TokenOK, SeenOK, Finished, Confirmed, Admitted, Granting
  <2> QED BY <1>1, <1>3, <2>1, ToldGoto
<1>4. CASE RotateInsert(r)
  <2>1. PICK s \in Fresh : Goto(r, [c EXCEPT !.new = s], "RotateRevoke")
    BY <1>4 DEF RotateInsert
  <2> DEFINE d == [c EXCEPT !.new = s]
  <2>2. /\ d.attempt = c.attempt /\ d.audited = c.audited /\ d.stale = c.stale
        /\ d.op = c.op /\ d.status = c.status
    BY <1>1 DEF Call
  <2> HIDE DEF d
  <2> QED BY <1>3, <2>1, <2>2 DEF d
<1>5. CASE RotateRevoke(r)
  <2> DEFINE d == [c EXCEPT !.matched = StillLive(c.token)]
  <2>1. Goto(r, d, "RotateCommit")
    BY <1>5 DEF RotateRevoke
  <2>2. /\ d.attempt = c.attempt /\ d.audited = c.audited /\ d.stale = c.stale
        /\ d.op = c.op /\ d.status = c.status
    BY <1>1 DEF Call
  <2> HIDE DEF d
  <2> QED BY <1>3, <2>1, <2>2
<1>6. CASE RotateCommit(r)
  <2>1. Goto(r, c, "WriteAudit") \/ Answer(r, c, 500)
    BY <1>6 DEF RotateCommit
  <2>2. Opened(sessions', c)
    <3>1. Stored' = Stored \cup {c.new} /\ sessions'[c.new] = sessionParams(c.user, c.now)
      BY <1>6, CommitEffect
    <3> HIDE DEF c
    <3> QED BY <3>1 DEF Opened, sessionParams, Stored
  <2> HIDE DEF c
  <2>3. Told(sessions', users, "WriteAudit", c)
    BY <1>1, <1>2, <2>2
    DEF Told, LogsOK, OutcomeOK, TokenOK, SeenOK, Finished, Confirmed, Admitted, Granting
  <2> QED BY <1>1, <1>2, <2>1, <2>3, ToldGoto, ToldRefused
<1> QED BY <1>4, <1>5, <1>6

LEMMA UserByIDTold ==
    ASSUME TypeInv, ToldInv, RowsKept, NEW r \in Requests, UserByID(r)
    PROVE  ToldInv'
<1> DEFINE c == call[r]
           d == [c EXCEPT !.status = 200]
<1>1. /\ pc[r] = "UserByID" /\ users' = users /\ c \in Call /\ c.op = "me"
  BY DEF UserByID, At, db, TypeInv, TypeOK, Ready, Fits
<1>2. c.attempt # "success" /\ ~c.audited /\ ~c.stale
  BY <1>1, NothingToldYet DEF Statements
<1>3. users[c.user] = "active" => c.seenActive
  BY <1>1 DEF ToldInv, Told, SeenOK
<1>4. Answer(r, c, 401) \/ (users[c.user] = "active" /\ Goto(r, d, "answer"))
  BY DEF UserByID, IsActive, Answer
<1>5. /\ d.attempt = c.attempt /\ d.audited = c.audited /\ d.stale = c.stale
      /\ d.op = "me" /\ d.seenActive = c.seenActive
  BY <1>1 DEF Call
<1> HIDE DEF c, d
<1>6. CASE users[c.user] = "active" /\ Goto(r, d, "answer")
  <2>1. Told(sessions', users, "answer", d)
    BY <1>2, <1>3, <1>5, <1>6
    DEF Told, LogsOK, OutcomeOK, TokenOK, SeenOK, Finished, Confirmed, Admitted, Granting
  <2> QED BY <1>1, <1>6, <2>1, ToldGoto
<1> QED BY <1>1, <1>2, <1>4, <1>6, ToldRefused

LEMMA FailTold ==
    ASSUME TypeInv, ToldInv, RowsKept, NEW r \in Requests, Fail(r)
    PROVE  ToldInv'
<1> DEFINE c == call[r]
           d == [c EXCEPT !.new = None, !.matched = FALSE]
<1>1. /\ pc[r] \in Statements \ {"RecordLoginAttempt", "WriteAudit"} /\ users' = users
      /\ c \in Call /\ Answer(r, d, 500)
  BY Zenon DEF Fail, ErrorStatus, TypeInv, TypeOK
<1>2. c.attempt # "success" /\ ~c.audited /\ (c.stale => c.op = "refresh")
  BY <1>1, NothingToldYet
<1>3. d \in Call /\ d.op = c.op /\ d.new = None
  BY <1>1, DropUpdate
<1>4. d.attempt = c.attempt /\ d.audited = c.audited /\ d.stale = c.stale
  BY <1>1 DEF Call
<1> HIDE DEF c, d
<1> QED BY <1>1, <1>2, <1>3, <1>4, ToldRefused

LEMMA IdleTold == ASSUME NEW table, NEW accounts PROVE Told(table, accounts, "idle", NoCall)
BY DEF Told, LogsOK, OutcomeOK, TokenOK, SeenOK, Finished, Confirmed, Admitted, NoCall

\* Accounts: what the requests of an account that becomes active have seen is noted.
LEMMA AccountsTold ==
    ASSUME TypeInv, ToldInv, RowsKept,
           (\E r \in Requests : CreateUser(r)) \/ (\E u \in Emails : SetActive(u))
    PROVE  ToldInv'
<1>1. ASSUME NEW u \in Emails, SetActive(u) PROVE ToldInv'
  <2>1. /\ pc' = pc /\ users[u] # "absent"
        /\ users' = [users EXCEPT ![u] = IF @ = "active" THEN "inactive" ELSE "active"]
        /\ call' = IF users[u] = "inactive" THEN Witness(call, u) ELSE call
    BY <1>1 DEF SetActive
  <2>2. users \in [Emails -> {"absent", "active", "inactive"}] /\ call \in [Requests -> Call]
    BY DEF TypeInv, TypeOK
  <2>3. \A v \in Emails : users[v] # "absent" => users'[v] # "absent"
    BY <2>1, <2>2
  <2> SUFFICES ASSUME NEW q \in Requests PROVE Told(sessions', users', pc'[q], call'[q])
    BY DEF ToldInv
  <2>4. \/ call'[q] = call[q]
        \/ call'[q] = [call[q] EXCEPT !.seenActive = TRUE]
    BY <2>1 DEF Witness
  <2>5. ASSUME NEW v \in Emails, users'[v] = "active", v = call[q].user
        PROVE  users[v] = "active" \/ call'[q].seenActive
    <3>1. CASE v = u /\ users[u] = "inactive"
      <4>1. call'[q] = [call[q] EXCEPT !.seenActive = TRUE]
        BY <2>1, <2>5, <3>1 DEF Witness
      <4>2. [call[q] EXCEPT !.seenActive = TRUE].seenActive
        BY <2>2 DEF Call
      <4> QED BY <4>1, <4>2
    <3>2. CASE ~(v = u /\ users[u] = "inactive")
      BY <2>1, <2>2, <2>5, <3>2
    <3> QED BY <3>1, <3>2
  <2>6. Told(sessions, users, pc[q], call[q]) /\ pc'[q] = pc[q]
    BY <2>1 DEF ToldInv
  <2> QED BY <2>3, <2>4, <2>5, <2>6, ToldStays
<1>2. ASSUME NEW r \in Requests, CreateUser(r) PROVE ToldInv'
  <2> DEFINE c == call[r]
  <2>1. /\ pc[r] = "CreateUser" /\ c \in Call /\ c.op = "register"
    BY <1>2 DEF CreateUser, At, TypeInv, TypeOK, Ready, Fits
  <2>2. /\ c.attempt # "success" /\ ~c.audited /\ ~c.stale /\ c.user \in Emails
    <3>1. c.user \in Emails
      BY <2>1 DEF ToldInv, Told, OutcomeOK
    <3> QED BY <2>1, <3>1, NothingToldYet DEF Statements
  <2>3. CASE users' = users /\ Answer(r, c, 409)
    BY <2>1, <2>2, <2>3, ToldRefused
  <2>4. CASE ~(users' = users /\ Answer(r, c, 409))
    <3>1. PICK st \in {0, 500} :
            LET d == [c EXCEPT !.status = st]
            IN /\ pc' = [pc EXCEPT ![r] = IF st = 0 THEN "WriteAudit" ELSE "answer"]
               /\ call' = Witness([call EXCEPT ![r] = d], d.user)
      <4>1. PICK ok \in Acked :
              LET d == [c EXCEPT !.status = IF ok THEN 0 ELSE 500]
              IN /\ pc' = [pc EXCEPT ![r] = IF ok THEN "WriteAudit" ELSE "answer"]
                 /\ call' = Witness([call EXCEPT ![r] = d], d.user)
        BY <1>2, <2>4 DEF CreateUser, db
      <4>2. CASE ok
        BY <4>1, <4>2
      <4>3. CASE ~ok
        BY <4>1, <4>3
      <4> QED BY <4>2, <4>3
    <3> DEFINE d == [c EXCEPT !.status = st]
               e == [d EXCEPT !.seenActive = TRUE]
    <3>2. users' = [users EXCEPT ![c.user] = "active"] /\ users[c.user] = "absent"
      BY <1>2, <2>4 DEF CreateUser, db
    <3>3. users \in [Emails -> {"absent", "active", "inactive"}] /\ call \in [Requests -> Call]
      BY DEF TypeInv, TypeOK
    <3>4. d \in Call /\ d.user = c.user /\ d.status = st /\ d.op = c.op
          /\ d.attempt = c.attempt /\ d.audited = c.audited /\ d.stale = c.stale
      BY <2>1 DEF Call, Statuses
    <3>5. /\ pc' = [pc EXCEPT ![r] = IF st = 0 THEN "WriteAudit" ELSE "answer"]
          /\ call' = Witness([call EXCEPT ![r] = d], c.user)
      BY <3>1, <3>4
    <3>6. call'[r] = e
      <4> HIDE DEF c, d
      <4> QED BY <3>3, <3>4, <3>5 DEF Witness
    <3>7. /\ e.user = c.user /\ e.status = st /\ e.op = "register"
          /\ e.attempt # "success" /\ ~e.audited /\ ~e.stale
      <4> HIDE DEF c, d
      <4> QED BY <2>1, <2>2, <3>4, SeenUpdate
    <3>8. Told(sessions', users', pc'[r], call'[r])
      <4>1. pc'[r] = IF st = 0 THEN "WriteAudit" ELSE "answer"
        BY <3>5 DEF TypeInv, TypeOK
      <4>2. users'[c.user] # "absent"
        BY <2>2, <3>2, <3>3
      <4> HIDE DEF c, d, e
      <4>3. Told(sessions', users', IF st = 0 THEN "WriteAudit" ELSE "answer", e)
        BY <2>2, <3>7, <4>2
        DEF Told, LogsOK, OutcomeOK, TokenOK, SeenOK, Finished, Confirmed, Admitted, Granting
      <4> QED BY <3>6, <4>1, <4>3
    <3>9. ASSUME NEW q \in Requests, q # r PROVE Told(sessions', users', pc'[q], call'[q])
      <4>1. pc'[q] = pc[q] /\ Told(sessions, users, pc[q], call[q])
        BY <3>5, <3>9 DEF TypeInv, TypeOK, ToldInv
      <4>2. call'[q] = IF call[q].user = c.user THEN [call[q] EXCEPT !.seenActive = TRUE]
                                                ELSE call[q]
        BY <3>3, <3>5, <3>9 DEF Witness
      <4>3. [call[q] EXCEPT !.seenActive = TRUE].seenActive
        BY <3>3 DEF Call
      <4>4. \A v \in Emails : users[v] # "absent" => users'[v] # "absent"
        BY <3>2, <3>3
      <4>5. ASSUME NEW v \in Emails, users'[v] = "active", v = call[q].user
            PROVE  users[v] = "active" \/ call'[q].seenActive
        BY <3>2, <3>3, <4>2, <4>3, <4>5
      <4>6. \/ call'[q] = call[q]
            \/ call'[q] = [call[q] EXCEPT !.seenActive = TRUE]
        BY <4>2
      <4> QED BY <4>1, <4>4, <4>5, <4>6, ToldStays
    <3> QED BY <3>8, <3>9 DEF ToldInv
  <2> QED BY <2>3, <2>4
<1> QED BY <1>1, <1>2

LEMMA ToldAlways ==
    ASSUME TypeInv, RotationInv, ClientInv, [Next]_vars PROVE ToldInv'
<1>1. RowsKept
  BY TableStep, MovesKeepRows
<1>2. ToldInv
  BY DEF ClientInv
<1>3. ASSUME NEW r \in Requests, Step(r) PROVE ToldInv'
  <2>1. CASE Respond(r)
    <3>1. users' = users /\ sessions' = sessions /\ Goto(r, NoCall, "idle")
      BY <2>1 DEF Respond, db
    <3> QED BY <1>1, <1>2, <3>1, IdleTold, ToldGoto
  <2> QED BY <1>1, <1>2, <1>3, <2>1, AccountsTold, CredentialsTold, CreateSessionTold,
             RecordLoginAttemptTold, WriteAuditTold, SessionByHashTold, RevokeSessionTold,
             UserByIDTold, RotationTold
          DEF Step
<1>4. CASE Crash
  BY <1>4, IdleTold DEF Crash, ToldInv
<1>5. CASE Tick \/ UNCHANGED vars
  BY <1>2, <1>5 DEF Tick, ToldInv, vars, db
<1> QED BY <1>1, <1>2, <1>3, <1>4, <1>5, ArrivalsTold, AccountsTold, FailTold DEF Next

\* What clients hold is changed by answers only.
LEMMA GrantsStep ==
    ASSUME TypeInv, RotationInv, ClientInv, [Next]_vars
    PROVE  GrantsAreBacked' /\ LoggedOutIsRevoked'
<1> USE DEF ClientInv
<1>1. \A s \in Stored : /\ s \in Stored'
                        /\ IsRevoked(s) => sessions'[s].revoked
                        /\ sessions'[s].user = sessions[s].user
                        /\ sessions'[s].expiresAt = sessions[s].expiresAt
  BY TableStep, MovesKeepRows DEF RowsKept
<1>2. CASE UNCHANGED clients
  BY <1>1, <1>2 DEF GrantsAreBacked, LoggedOutIsRevoked, clients, IsRevoked
<1>3. ASSUME NEW r \in Requests, Respond(r)
      PROVE  GrantsAreBacked' /\ LoggedOutIsRevoked'
  <2> DEFINE c == call[r]
             granted == c.status = 200 /\ Granting(c)
             expiry == MintAccessToken(c)
  <2>1. /\ sessions' = sessions /\ c \in Call
        /\ Told(sessions, users, "answer", c)
    BY <1>3 DEF Respond, db, TypeInv, TypeOK, ToldInv
  <2>2. granted => Opened(sessions, c)
    BY <2>1 DEF Told, OutcomeOK, Finished
  <2>3. c.op = "logout" /\ c.status = 200 /\ c.token # None => Closed(sessions, c)
    BY <2>1 DEF Told, OutcomeOK, Finished, Confirmed
  <2>4. /\ cookies' = cookies \/ (granted /\ cookies' = cookies \cup {c.new})
        /\ \/ accessUntil' = accessUntil
           \/ granted /\ accessUntil' = [accessUntil EXCEPT ![c.user] = expiry]
        /\ \/ loggedOut' = loggedOut
           \/ /\ c.op = "logout" /\ c.status = 200 /\ c.token # None
              /\ loggedOut' = loggedOut \cup {c.token}
    BY <1>3 DEF Respond, Granting
  <2>5. expiry = c.now + AccessTTL /\ c.now \in Nat /\ AccessTTL \in Nat /\ RefreshTTL \in Nat
    BY <2>1, TTLAssumption DEF MintAccessToken, Call
  <2>6. accessUntil \in [Emails -> Nat]
    BY DEF TypeInv, TypeOK
  <2> HIDE DEF c, granted, expiry
  <2>7. Stored' = Stored
    BY <2>1 DEF Stored
  <2>8. cookies' \subseteq Stored
    BY <2>2, <2>4 DEF GrantsAreBacked, Opened, Stored
  <2>9. ASSUME NEW u \in Emails, accessUntil'[u] # 0
        PROVE  \E s \in Stored : /\ sessions[s].user = u
                                 /\ sessions[s].expiresAt + AccessTTL
                                      = accessUntil'[u] + RefreshTTL
    <3>1. CASE accessUntil'[u] = accessUntil[u]
      BY <2>9, <3>1 DEF GrantsAreBacked
    <3>2. CASE accessUntil'[u] # accessUntil[u]
      <4>1. granted /\ u = c.user /\ accessUntil'[u] = expiry
        BY <2>4, <2>6, <3>2
      <4>2. c.new \in Stored /\ sessions[c.new].user = u
            /\ sessions[c.new].expiresAt = c.now + RefreshTTL
        BY <2>2, <4>1 DEF Opened, Stored
      <4>3. sessions[c.new].expiresAt + AccessTTL = accessUntil'[u] + RefreshTTL
        BY <2>5, <4>1, <4>2
      <4> QED BY <4>2, <4>3
    <3> QED BY <3>1, <3>2
  <2>10. \A s \in loggedOut' : s \in Stored /\ IsRevoked(s)
    BY <2>3, <2>4 DEF LoggedOutIsRevoked, Closed, Stored, IsRevoked
  <2> QED BY <2>1, <2>7, <2>8, <2>9, <2>10
          DEF GrantsAreBacked, LoggedOutIsRevoked, IsRevoked
<1>4. UNCHANGED clients \/ \E r \in Requests : Respond(r)
  <2>1. ASSUME NEW r \in Requests, Step(r) PROVE UNCHANGED clients \/ Respond(r)
    BY Zenon, <2>1
    DEF Step, At, CreateUser, CredentialsByEmail, CreateSession, RecordLoginAttempt,
        WriteAudit, SessionByHash, RevokeSession, UserByID, RotateInsert, RotateRevoke,
        RotateCommit
  <2>2. ASSUME NEW r \in Requests,
               \/ Register(r) \/ Login(r) \/ Refresh(r) \/ Logout(r) \/ Authenticate(r)
               \/ Fail(r)
        PROVE  UNCHANGED clients
    BY Zenon, <2>2 DEF Register, Login, Refresh, Logout, Authenticate, Arrives, Fail
  <2>3. ASSUME (\E u \in Emails : SetActive(u)) \/ Crash \/ Tick \/ UNCHANGED vars
        PROVE  UNCHANGED clients
    BY Zenon, <2>3 DEF SetActive, Crash, Tick, vars
  <2> QED BY <2>1, <2>2, <2>3 DEF Next
<1> QED BY <1>2, <1>3, <1>4

LEMMA ClientInit == Init => ClientInv
<1> SUFFICES ASSUME Init PROVE ClientInv
  OBVIOUS
<1>1. ToldInv
  BY IdleTold DEF Init, ToldInv
<1>2. GrantsAreBacked /\ LoggedOutIsRevoked
  BY DEF Init, GrantsAreBacked, LoggedOutIsRevoked
<1> QED BY <1>1, <1>2 DEF ClientInv

LEMMA ClientInvariant == Spec => [](TypeInv /\ RotationInv /\ ClientInv)
<1>1. TypeInv /\ RotationInv /\ ClientInv /\ [Next]_vars => ClientInv'
  BY ToldAlways, GrantsStep DEF ClientInv
<1> QED BY <1>1, ClientInit, RotationInvariant, PTL DEF Spec

-----------------------------------------------------------------------------
(* The theorems *)

\* A refresh token that was revoked, expired or unknown when its request arrived
\* never yields a session, whatever happens to the row while the request runs.
THEOREM StaleTokensNeverRotate == Spec => []StaleTokenNeverRotates
<1>1. ClientInv => StaleTokenNeverRotates
  BY DEF ClientInv, ToldInv, Told, TokenOK, StaleTokenNeverRotates
<1> QED BY <1>1, ClientInvariant, PTL

\* The rows that a request leaves in login_attempts and audit_logs say what has
\* been committed, whichever of its statements failed, was retried or waited.
THEOREM RecordsAlwaysTrue == Spec => []RecordsAreTrue
<1>1. TypeInv /\ ClientInv => RecordsAreTrue
  <2> SUFFICES ASSUME ClientInv, NEW r \in Requests
               PROVE  LET c == call[r] IN
        /\ c.attempt = "success" => c.new \in Stored
        /\ c.audited /\ c.op \in {"login", "refresh"} => c.new \in Stored
        /\ c.audited /\ c.op = "logout" => IsRevoked(c.token)
        /\ c.audited /\ c.op = "register" => users[c.user] # "absent"
    BY DEF RecordsAreTrue
  <2>1. LogsOK(pc[r], call[r]) /\ OutcomeOK(sessions, users, pc[r], call[r])
    BY DEF ClientInv, ToldInv, Told
  <2> QED BY <2>1 DEF LogsOK, OutcomeOK, Granting, Opened, Confirmed, Closed, Stored, IsRevoked
<1> QED BY <1>1, ClientInvariant, PTL

\* What a client holds was committed before the answer was written: its refresh
\* token is a stored row, and its access token stems from a session of its user.
THEOREM GrantsAlwaysBacked == Spec => []GrantsAreBacked
<1>1. ClientInv => GrantsAreBacked
  BY DEF ClientInv
<1> QED BY <1>1, ClientInvariant, PTL

\* The refresh token of an answered logout is revoked for good, whatever rotations
\* of it were under way, failed or committed.
THEOREM LoggedOutStaysRevoked == Spec => []LoggedOutIsRevoked
<1>1. ClientInv => LoggedOutIsRevoked
  BY DEF ClientInv
<1> QED BY <1>1, ClientInvariant, PTL

\* An account that is inactive during the whole of a login or of an authenticated
\* request is not let in, however the operator's updates fall between statements.
THEOREM InactiveStaysOut == Spec => []InactiveShutOut
<1>1. ClientInv => InactiveShutOut
  <2> SUFFICES ASSUME ClientInv, NEW r \in Requests,
                      call[r].op \in {"login", "me"}, call[r].status = 200
               PROVE  call[r].seenActive
    BY DEF InactiveShutOut
  <2>1. LogsOK(pc[r], call[r]) /\ SeenOK(users, pc[r], call[r])
    BY DEF ClientInv, ToldInv, Told
  <2> QED BY <2>1 DEF LogsOK, SeenOK, Admitted, Finished
<1> QED BY <1>1, ClientInvariant, PTL

=============================================================================
