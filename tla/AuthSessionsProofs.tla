------------------------- MODULE AuthSessionsProofs -------------------------
(* Proofs about AuthSessions, for any constants that satisfy its assumptions:     *)
(* typing, and then rotation and revocation of refresh sessions: the inductive    *)
(* invariant, the moves of the table, and the store they implement.               *)
EXTENDS AuthSessions, TLAPS

\* Typing alone is not inductive: the rows a request inserts, and the cookie it
\* hands out, are well typed only because it knows its user, and its new
\* identifier, by the time it gets there.
KnowsUser == {"CredentialsByEmail", "CreateSession", "RotateInsert", "RotateRevoke",
              "RotateCommit"}
Granting(c) == c.op \in {"login", "refresh"}
HoldsNew(label, c) ==
    \/ label \in {"RotateRevoke", "RotateCommit"}
    \/ label = "RecordLoginAttempt" /\ c.status = 0
    \/ label = "WriteAudit" /\ Granting(c)
    \/ label = "answer" /\ c.status = 200 /\ Granting(c)

\* What a request carries when it is at a label.
Fits(label, c) ==
    /\ label = "CreateUser" => c.op = "register"
    /\ label \in {"CredentialsByEmail", "CreateSession", "RecordLoginAttempt"}
         => c.op = "login"
    /\ label \in {"RotateInsert", "RotateRevoke", "RotateCommit"} => c.op = "refresh"
    /\ label = "RevokeSession" => c.op = "logout"
    /\ label = "SessionByHash" => c.op \in {"refresh", "logout"}
    /\ label = "UserByID" => c.op = "me"
    /\ label = "RecordLoginAttempt" => c.status \in {0, 401, 403}
    /\ label \in {"CredentialsByEmail", "CreateSession"} => c.status = 0
    /\ label \in KnowsUser => c.user \in Emails
    /\ HoldsNew(label, c) => c.new \in Sessions

Ready == \A r \in Requests : Fits(pc[r], call[r])

CallsTyped == /\ pc \in [Requests -> Labels]
              /\ call \in [Requests -> Call]
              /\ Ready

TypeInv == TypeOK /\ Ready

LEMMA NoCallType == NoCall \in Call
BY DEF NoCall, Call, Ops, Passwords, Statuses

\* The shapes in which a request updates what it carries.
LEMMA MatchUpdate ==
    ASSUME NEW c \in Call, NEW b \in BOOLEAN
    PROVE  /\ [c EXCEPT !.matched = b] \in Call
           /\ [c EXCEPT !.matched = b].op = c.op
           /\ [c EXCEPT !.matched = b].user = c.user
           /\ [c EXCEPT !.matched = b].token = c.token
           /\ [c EXCEPT !.matched = b].now = c.now
           /\ [c EXCEPT !.matched = b].new = c.new
           /\ [c EXCEPT !.matched = b].stale = c.stale
           /\ [c EXCEPT !.matched = b].matched = b
BY DEF Call

LEMMA DropUpdate ==
    ASSUME NEW c \in Call
    PROVE  /\ [c EXCEPT !.new = None, !.matched = FALSE] \in Call
           /\ [c EXCEPT !.new = None, !.matched = FALSE].op = c.op
           /\ [c EXCEPT !.new = None, !.matched = FALSE].new = None
BY DEF Call

LEMMA SeenUpdate ==
    ASSUME NEW c \in Call
    PROVE  /\ [c EXCEPT !.seenActive = TRUE] \in Call
           /\ [c EXCEPT !.seenActive = TRUE].op = c.op
           /\ [c EXCEPT !.seenActive = TRUE].user = c.user
           /\ [c EXCEPT !.seenActive = TRUE].token = c.token
           /\ [c EXCEPT !.seenActive = TRUE].now = c.now
           /\ [c EXCEPT !.seenActive = TRUE].new = c.new
           /\ [c EXCEPT !.seenActive = TRUE].matched = c.matched
           /\ [c EXCEPT !.seenActive = TRUE].status = c.status
           /\ [c EXCEPT !.seenActive = TRUE].audited = c.audited
           /\ [c EXCEPT !.seenActive = TRUE].attempt = c.attempt
           /\ [c EXCEPT !.seenActive = TRUE].stale = c.stale
BY DEF Call

LEMMA WitnessFits ==
    ASSUME NEW e \in Call
    PROVE  LET f == [e EXCEPT !.seenActive = TRUE] IN
           f \in Call /\ \A label : Fits(label, e) => Fits(label, f)
<1> DEFINE f == [e EXCEPT !.seenActive = TRUE]
<1>1. /\ f \in Call /\ f.op = e.op /\ f.user = e.user /\ f.new = e.new
      /\ f.status = e.status
  BY SeenUpdate
<1> HIDE DEF f
<1> QED BY <1>1 DEF f, Fits, HoldsNew, Granting

\* Inserting a row leaves the others alone.
LEMMA InsertType ==
    ASSUME NEW table, DOMAIN table \subseteq Sessions, table \in [DOMAIN table -> Row],
           NEW s \in Sessions, NEW row \in Row
    PROVE  /\ DOMAIN Insert(table, s, row) = DOMAIN table \cup {s}
           /\ Insert(table, s, row) \in [DOMAIN table \cup {s} -> Row]
           /\ Insert(table, s, row)[s] = row
           /\ \A x \in DOMAIN table : x # s => Insert(table, s, row)[x] = table[x]
BY DEF Insert

\* Revoking a row, with or without naming its replacement, keeps the table typed
\* and does not touch other rows.
LEMMA RevokeType ==
    ASSUME NEW table, table \in [DOMAIN table -> Row], NEW x
    PROVE  LET after == [table EXCEPT ![x].revoked = TRUE] IN
           /\ DOMAIN after = DOMAIN table
           /\ after \in [DOMAIN table -> Row]
           /\ x \in DOMAIN table => /\ after[x].user = table[x].user
                                    /\ after[x].expiresAt = table[x].expiresAt
                                    /\ after[x].revoked
                                    /\ after[x].replacedBy = table[x].replacedBy
           /\ \A z \in DOMAIN table : z # x => after[z] = table[z]
<1>1. ASSUME NEW row \in Row
      PROVE  /\ [row EXCEPT !.revoked = TRUE] \in Row
             /\ [row EXCEPT !.revoked = TRUE].user = row.user
             /\ [row EXCEPT !.revoked = TRUE].expiresAt = row.expiresAt
             /\ [row EXCEPT !.revoked = TRUE].revoked
             /\ [row EXCEPT !.revoked = TRUE].replacedBy = row.replacedBy
  BY DEF Row
<1> QED BY <1>1

LEMMA ReplaceType ==
    ASSUME NEW table, table \in [DOMAIN table -> Row], NEW x, NEW y \in Sessions
    PROVE  LET after == RevokeAndReplace(table, x, y) IN
           /\ DOMAIN after = DOMAIN table
           /\ after \in [DOMAIN table -> Row]
           /\ x \in DOMAIN table => /\ after[x].user = table[x].user
                                    /\ after[x].expiresAt = table[x].expiresAt
                                    /\ after[x].revoked
                                    /\ after[x].replacedBy = y
           /\ \A z \in DOMAIN table : z # x => after[z] = table[z]
<1> DEFINE upd(row) == [[row EXCEPT !.revoked = TRUE] EXCEPT !.replacedBy = y]
<1>1. ASSUME NEW row \in Row
      PROVE  /\ upd(row) \in Row
             /\ upd(row).user = row.user
             /\ upd(row).expiresAt = row.expiresAt
             /\ upd(row).revoked
             /\ upd(row).replacedBy = y
  BY DEF Row
<1>2. RevokeAndReplace(table, x, y) =
        [z \in DOMAIN table |-> IF z = x THEN upd(table[z]) ELSE table[z]]
  BY Zenon DEF RevokeAndReplace
<1> HIDE DEF upd
<1> QED BY <1>1, <1>2

LEMMA ParamsType ==
    ASSUME NEW u \in Emails, NEW n \in Nat PROVE sessionParams(u, n) \in Row
BY TTLAssumption DEF sessionParams, Row

LEMMA GotoType ==
    ASSUME TypeInv, NEW r \in Requests, NEW c \in Call, NEW label \in Labels,
           Goto(r, c, label),
           Fits(label, c)
    PROVE  CallsTyped'
BY DEF TypeInv, TypeOK, Ready, Goto, CallsTyped

LEMMA AnswerType ==
    ASSUME TypeInv, NEW r \in Requests, NEW c \in Call, NEW status \in Statuses,
           Answer(r, c, status),
           status = 200 /\ Granting(c) => c.new \in Sessions
    PROVE  CallsTyped'
<1> DEFINE d == [c EXCEPT !.status = status]
<1>1. d \in Call /\ d.status = status /\ d.op = c.op /\ d.new = c.new
  BY DEF Call
<1>2. Fits("answer", d)
  BY <1>1 DEF Fits, KnowsUser, HoldsNew, Granting
<1> HIDE DEF d
<1> QED
  BY <1>1, <1>2, GotoType DEF d, Answer, Labels

-----------------------------------------------------------------------------
(* Typing, one lemma per group of actions *)

LEMMA ArrivalsTyped ==
    ASSUME TypeInv, NEW r \in Requests,
           Register(r) \/ Login(r) \/ Refresh(r) \/ Logout(r) \/ Authenticate(r)
    PROVE  TypeInv'
<1> USE NoCallType DEF Arrives, db, clients
<1>0. UNCHANGED <<clock, users, sessions, locks, parent, cookies, loggedOut, accessUntil>>
  BY Zenon DEF Register, Login, Refresh, Logout, Authenticate
<1>1. CallsTyped'
  <2>1. CASE Register(r)
    <3>1. PICK raw \in RawEmails, pw \in Passwords \ {"wrong"} :
            LET email == normalizeEmail(raw)
                c == [NoCall EXCEPT !.op = "register", !.user = email, !.password = pw]
            IN \/ (email = None \/ pw \in {"blank", "short"}) /\ Answer(r, c, 400)
               \/ email # None /\ pw = "tooLong" /\ Answer(r, c, 500)
               \/ email # None /\ pw = "right" /\ Goto(r, c, "CreateUser")
      BY Zenon, <2>1 DEF Register
    <3> DEFINE c == [NoCall EXCEPT !.op = "register", !.user = normalizeEmail(raw),
                                   !.password = pw]
    <3>2. c \in Call /\ Fits("CreateUser", c)
      BY Zenon, NormalAssumption
      DEF NoCall, Call, normalizeEmail, Ops, Fits, KnowsUser, HoldsNew, Granting
    <3> HIDE DEF c
    <3>3. CASE Answer(r, c, 400) BY <3>2, <3>3, AnswerType DEF Statuses
    <3>4. CASE Answer(r, c, 500) BY <3>2, <3>4, AnswerType DEF Statuses
    <3>5. CASE Goto(r, c, "CreateUser") BY <3>2, <3>5, GotoType DEF Labels, Statements
    <3> QED BY <3>1, <3>3, <3>4, <3>5 DEF c
  <2>2. CASE Login(r)
    <3>1. PICK raw \in RawEmails, pw \in {"blank", "wrong", "right"} :
            LET email == normalizeEmail(raw)
                c == [NoCall EXCEPT !.op = "login", !.user = email, !.password = pw]
            IN \/ (email = None \/ pw = "blank") /\ Answer(r, c, 400)
               \/ /\ email # None /\ pw # "blank"
                  /\ Goto(r, [c EXCEPT !.seenActive = InForce(email)], "CredentialsByEmail")
      BY Zenon, <2>2 DEF Login
    <3> DEFINE c == [NoCall EXCEPT !.op = "login", !.user = normalizeEmail(raw),
                                   !.password = pw]
               d == [c EXCEPT !.seenActive = InForce(normalizeEmail(raw))]
    <3>2. c \in Call /\ normalizeEmail(raw) \in Emails \cup {None}
      BY NormalAssumption DEF NoCall, Call, normalizeEmail, Ops, Passwords
    <3>3. /\ d \in Call /\ d.user = normalizeEmail(raw) /\ d.op = "login"
          /\ d.status = 0
      <4>1. InForce(normalizeEmail(raw)) \in BOOLEAN BY DEF InForce
      <4>2. c.user = normalizeEmail(raw) /\ c.op = "login" /\ c.status = 0
        BY DEF NoCall
      <4> QED BY ZenonT(60), <3>2, <4>1, <4>2 DEF Call
    <3>4. CASE Answer(r, c, 400)
      <4> HIDE DEF c
      <4> QED BY <3>2, <3>4, AnswerType DEF Statuses
    <3>5. CASE normalizeEmail(raw) # None /\ Goto(r, d, "CredentialsByEmail")
      <4> HIDE DEF d
      <4>1. Fits("CredentialsByEmail", d)
        BY <3>2, <3>3, <3>5 DEF Fits, KnowsUser, HoldsNew
      <4> QED BY <3>3, <3>5, <4>1, GotoType DEF Labels, Statements
    <3> QED BY <3>1, <3>4, <3>5
  <2>3. CASE Refresh(r)
    <3> DEFINE c == [NoCall EXCEPT !.op = "refresh", !.now = clock]
               d(s) == [c EXCEPT !.token = s, !.stale = Stale(s)]
    <3>1. c \in Call /\ c.op = "refresh"
      BY DEF NoCall, Call, Ops, TypeInv, TypeOK
    <3>2. ASSUME NEW s \in cookies \cup {None}
          PROVE  d(s) \in Call /\ Fits("SessionByHash", d(s))
      <4>1. d(s) \in Call /\ d(s).op = "refresh"
        <5> DEFINE b == Stale(s)
        <5>1. b \in BOOLEAN BY DEF Stale
        <5>2. s \in Sessions \cup {None} BY DEF TypeInv, TypeOK
        <5>3. d(s) = [c EXCEPT !.token = s, !.stale = b] OBVIOUS
        <5> HIDE DEF c, b
        <5>4. [c EXCEPT !.token = s, !.stale = b] \in Call
          BY <3>1, <5>1, <5>2 DEF Call
        <5>5. [c EXCEPT !.token = s, !.stale = b].op = "refresh"
          BY <3>1, <5>1, <5>2 DEF Call
        <5> HIDE DEF d
        <5> QED BY <5>3, <5>4, <5>5
      <4> HIDE DEF d
      <4> QED BY <4>1 DEF Fits, KnowsUser, HoldsNew
    <3>3. CASE Answer(r, c, 401)
      <4> HIDE DEF c
      <4> QED BY <3>1, <3>3, AnswerType DEF Statuses
    <3>4. ASSUME NEW s \in cookies \cup {None}, Goto(r, d(s), "SessionByHash")
          PROVE  CallsTyped'
      <4>1. d(s) \in Call /\ Fits("SessionByHash", d(s)) BY Zenon, <3>2
      <4> HIDE DEF d
      <4> QED BY <4>1, <3>4, GotoType DEF Labels, Statements
    <3> QED BY Zenon, <2>3, <3>3, <3>4 DEF Refresh
  <2>4. CASE Logout(r)
    <3> DEFINE c == [NoCall EXCEPT !.op = "logout"]
               d(s) == [c EXCEPT !.token = s]
    <3>1. c \in Call /\ ~Granting(c) /\ c.op = "logout"
      BY DEF NoCall, Call, Ops, Granting
    <3>2. ASSUME NEW s \in cookies \cup {None}
          PROVE  d(s) \in Call /\ Fits("SessionByHash", d(s))
      <4>1. d(s) \in Call /\ d(s).op = "logout"
        <5>1. s \in Sessions \cup {None} BY DEF TypeInv, TypeOK
        <5> HIDE DEF c
        <5> QED BY <3>1, <5>1 DEF Call
      <4> HIDE DEF d
      <4> QED BY <4>1 DEF Fits, KnowsUser, HoldsNew
    <3>3. CASE Answer(r, c, 200)
      <4> HIDE DEF c
      <4> QED BY <3>1, <3>3, AnswerType DEF Statuses
    <3>4. ASSUME NEW s \in cookies \cup {None}, Goto(r, d(s), "SessionByHash")
          PROVE  CallsTyped'
      <4>1. d(s) \in Call /\ Fits("SessionByHash", d(s)) BY Zenon, <3>2
      <4> HIDE DEF d
      <4> QED BY <4>1, <3>4, GotoType DEF Labels, Statements
    <3> QED BY Zenon, <2>4, <3>3, <3>4 DEF Logout
  <2>5. CASE Authenticate(r)
    <3>1. PICK u \in Emails \cup {None} :
            LET c == [NoCall EXCEPT !.op = "me", !.user = u]
            IN \/ Answer(r, c, 401)
               \/ Goto(r, [c EXCEPT !.seenActive = InForce(u)], "UserByID")
      BY Zenon, <2>5 DEF Authenticate
    <3> DEFINE c == [NoCall EXCEPT !.op = "me", !.user = u]
               d == [c EXCEPT !.seenActive = InForce(u)]
    <3>2. /\ c \in Call
          /\ d \in Call /\ d.op = "me"
      BY DEF NoCall, Call, Ops, InForce
    <3>3. CASE Answer(r, c, 401)
      <4> HIDE DEF c
      <4> QED BY <3>2, <3>3, AnswerType DEF Statuses
    <3>4. CASE Goto(r, d, "UserByID")
      <4> HIDE DEF d
      <4>1. Fits("UserByID", d) BY <3>2 DEF Fits, KnowsUser, HoldsNew
      <4> QED BY <3>2, <3>4, <4>1, GotoType DEF Labels, Statements
    <3> QED BY SMTT(30), <3>1, <3>3, <3>4
  <2> QED BY <2>1, <2>2, <2>3, <2>4, <2>5
<1> QED BY <1>0, <1>1 DEF TypeInv, TypeOK, CallsTyped

\* Statements that leave the tables alone.
LEMMA ReadsTyped ==
    ASSUME TypeInv, NEW r \in Requests,
           \/ CredentialsByEmail(r) \/ RecordLoginAttempt(r) \/ WriteAudit(r)
           \/ SessionByHash(r) \/ UserByID(r) \/ RotateInsert(r)
    PROVE  TypeInv'
<1>0. UNCHANGED <<clock, users, sessions, locks, parent, cookies, loggedOut, accessUntil>>
  BY DEF At, db, clients, CredentialsByEmail, RecordLoginAttempt, WriteAudit, SessionByHash,
         UserByID, RotateInsert
<1> DEFINE c == call[r]
<1>c. c \in Call
  BY DEF TypeInv, TypeOK
<1>1. CallsTyped'
  <2>1. CASE CredentialsByEmail(r)
    <3> DEFINE d(status) == [c EXCEPT !.status = status]
               e == [c EXCEPT !.now = clock]
    <3>1. \A st \in {401, 403} : d(st) \in Call /\ d(st).op = c.op /\ d(st).status = st
      BY <1>c DEF Call, Statuses
    <3>2. e \in Call /\ e.user = c.user /\ e.op = c.op /\ e.status = c.status
      BY <1>c DEF Call, TypeInv, TypeOK
    <3>3. c.user \in Emails /\ c.op = "login" /\ c.status = 0
      BY <2>1 DEF CredentialsByEmail, At, TypeInv, Ready, Fits, KnowsUser
    <3>4. \/ Goto(r, d(401), "RecordLoginAttempt")
          \/ Goto(r, d(403), "RecordLoginAttempt")
          \/ Goto(r, e, "CreateSession")
      BY <2>1 DEF CredentialsByEmail
    <3> HIDE DEF d, e
    <3>5. /\ \A st \in {401, 403} : Fits("RecordLoginAttempt", d(st))
          /\ Fits("CreateSession", e)
      BY <3>1, <3>2, <3>3 DEF Fits, KnowsUser, HoldsNew
    <3> QED BY <3>1, <3>2, <3>4, <3>5, GotoType DEF Labels, Statements
  <2>2. CASE RecordLoginAttempt(r)
    <3> DEFINE d(a) == [c EXCEPT !.attempt = a]
    <3>1. \A a \in {"success", "failure", "failedToRecord"} :
            d(a) \in Call /\ d(a).new = c.new /\ d(a).status = c.status
      BY <1>c DEF Call
    <3>2. PICK a \in {"success", "failure", "failedToRecord"} :
            Goto(r, d(a), IF c.status = 0 THEN "WriteAudit" ELSE "answer")
      BY <2>2 DEF RecordLoginAttempt
    <3>3. /\ c.status \in {0, 401, 403}
          /\ c.status = 0 => c.new \in Sessions
      BY <2>2 DEF RecordLoginAttempt, At, TypeInv, Ready, Fits, HoldsNew
    <3> HIDE DEF d
    <3>4. Fits(IF c.status = 0 THEN "WriteAudit" ELSE "answer", d(a))
      BY <3>1, <3>3 DEF Fits, KnowsUser, HoldsNew
    <3> QED BY <3>1, <3>2, <3>4, GotoType DEF Labels, Statements
  <2>3. CASE WriteAudit(r)
    <3> DEFINE d(b) == [c EXCEPT !.audited = b]
    <3>1. \A b \in BOOLEAN : d(b) \in Call /\ d(b).op = c.op /\ d(b).new = c.new
      BY <1>c DEF Call
    <3>2. PICK b \in BOOLEAN : Answer(r, d(b), IF c.op = "register" THEN 201 ELSE 200)
      BY <2>3 DEF WriteAudit, Acked
    <3>3. Granting(c) => c.new \in Sessions
      BY <2>3 DEF WriteAudit, At, TypeInv, Ready, Fits, HoldsNew
    <3> HIDE DEF d
    <3> QED BY <3>1, <3>2, <3>3, AnswerType DEF Statuses, Granting
  <2>4. CASE SessionByHash(r)
    <3> DEFINE d == [c EXCEPT !.user = sessions[c.token].user]
    <3>1. \/ Answer(r, c, IF c.op = "logout" THEN 200 ELSE 401)
          \/ Answer(r, c, 401)
          \/ c.token \in Stored /\ c.op = "logout" /\ Goto(r, d, "RevokeSession")
          \/ c.token \in Stored /\ c.op = "refresh" /\ Goto(r, d, "RotateInsert")
      BY <2>4 DEF SessionByHash
    <3>2. c.op \in {"refresh", "logout"}
      BY <2>4 DEF SessionByHash, At, TypeInv, Ready, Fits
    <3>3. CASE Answer(r, c, IF c.op = "logout" THEN 200 ELSE 401) \/ Answer(r, c, 401)
      BY <1>c, <3>2, <3>3, AnswerType DEF Statuses, Granting
    <3>4. CASE /\ c.token \in Stored
               /\ \/ c.op = "logout" /\ Goto(r, d, "RevokeSession")
                  \/ c.op = "refresh" /\ Goto(r, d, "RotateInsert")
      <4>1. sessions[c.token].user \in Emails
        BY <3>4 DEF TypeInv, TypeOK, Stored, Row
      <4>2. d \in Call /\ d.user \in Emails /\ d.op = c.op
        BY <1>c, <4>1 DEF Call
      <4> HIDE DEF d
      <4>3. /\ c.op = "logout" => Fits("RevokeSession", d)
            /\ c.op = "refresh" => Fits("RotateInsert", d)
        BY <4>2 DEF Fits, KnowsUser, HoldsNew
      <4> QED BY <3>4, <4>2, <4>3, GotoType DEF Labels, Statements
    <3> QED BY <3>1, <3>3, <3>4
  <2>5. CASE UserByID(r)
    <3>1. ~Granting(c)
      BY <2>5 DEF UserByID, At, TypeInv, Ready, Fits, Granting
    <3> QED BY <1>c, <2>5, <3>1, AnswerType DEF UserByID, Statuses
  <2>6. CASE RotateInsert(r)
    <3>1. PICK s \in Fresh : Goto(r, [c EXCEPT !.new = s], "RotateRevoke")
      BY <2>6 DEF RotateInsert
    <3> DEFINE d == [c EXCEPT !.new = s]
    <3>2. d \in Call /\ d.new \in Sessions /\ d.user = c.user /\ d.op = c.op
      BY <1>c DEF Call, Fresh
    <3>3. c.user \in Emails /\ c.op = "refresh"
      BY <2>6 DEF RotateInsert, At, TypeInv, Ready, Fits, KnowsUser
    <3> HIDE DEF d
    <3>4. Fits("RotateRevoke", d) BY <3>2, <3>3 DEF Fits, KnowsUser
    <3> QED BY <3>1, <3>2, <3>4, GotoType DEF d, Labels, Statements
  <2> QED BY <2>1, <2>2, <2>3, <2>4, <2>5, <2>6
<1> QED BY <1>0, <1>1 DEF TypeInv, TypeOK, CallsTyped

\* Statements and commits that write users or sessions.
LEMMA WritesTyped ==
    ASSUME TypeInv, NEW r \in Requests,
           \/ CreateUser(r) \/ CreateSession(r) \/ RevokeSession(r)
           \/ RotateRevoke(r) \/ RotateCommit(r)
    PROVE  TypeInv'
<1> USE DEF At, db, clients
<1> DEFINE c == call[r]
<1>c. c \in Call
  BY DEF TypeInv, TypeOK
<1>1. CASE CreateUser(r)
  <2>0. UNCHANGED <<clock, sessions, locks, parent, cookies, loggedOut, accessUntil>>
    BY <1>1 DEF CreateUser
  <2>1. users' \in [Emails -> {"absent", "active", "inactive"}]
    BY <1>1 DEF CreateUser, TypeInv, TypeOK
  <2>2. CallsTyped'
    <3>1. CASE Answer(r, c, 409)
      BY <1>c, <3>1, AnswerType DEF Statuses
    <3>2. CASE \E ok \in Acked :
                 LET d == [c EXCEPT !.status = IF ok THEN 0 ELSE 500]
                 IN /\ pc' = [pc EXCEPT ![r] = IF ok THEN "WriteAudit" ELSE "answer"]
                    /\ call' = Witness([call EXCEPT ![r] = d], d.user)
      <4>1. PICK ok \in Acked :
              LET d == [c EXCEPT !.status = IF ok THEN 0 ELSE 500]
              IN /\ pc' = [pc EXCEPT ![r] = IF ok THEN "WriteAudit" ELSE "answer"]
                 /\ call' = Witness([call EXCEPT ![r] = d], d.user)
        BY <3>2
      <4> DEFINE d == [c EXCEPT !.status = IF ok THEN 0 ELSE 500]
                 st == IF ok THEN 0 ELSE 500
      <4>a. d \in Call /\ d.op = c.op /\ d.status = st
        BY <1>c DEF Call, Statuses
      <4>b. call' = Witness([call EXCEPT ![r] = d], d.user)
        BY <4>1
      <4> HIDE DEF d
      <4>c. ASSUME NEW e \in Call
            PROVE  /\ [e EXCEPT !.seenActive = TRUE] \in Call
                   /\ \A label : Fits(label, e) =>
                                Fits(label, [e EXCEPT !.seenActive = TRUE])
        BY WitnessFits
      <4>d. \A q \in Requests : [call EXCEPT ![r] = d][q] = IF q = r THEN d ELSE call[q]
        BY DEF TypeInv, TypeOK
      <4>2. \A q \in Requests : /\ call'[q] \in Call
                                /\ q # r => Fits(pc[q], call'[q])
                                /\ call'[r] = d \/ call'[r] = [d EXCEPT !.seenActive = TRUE]
        BY <4>a, <4>b, <4>c, <4>d DEF Witness, TypeInv, TypeOK, Ready
      <4>3. call' \in [Requests -> Call]
        BY <4>b, <4>2 DEF Witness
      <4>4. /\ pc' \in [Requests -> Labels]
            /\ pc'[r] \in {"WriteAudit", "answer"}
            /\ \A q \in Requests : q # r => pc'[q] = pc[q]
        BY <4>1 DEF TypeInv, TypeOK, Labels, Statements
      <4>5. c.op = "register"
        BY <1>1 DEF CreateUser, TypeInv, Ready, Fits
      <4>6. Fits(pc'[r], d)
        BY <4>a, <4>4, <4>5 DEF Fits, KnowsUser, HoldsNew, Granting
      <4>7. Fits(pc'[r], call'[r])
        BY <4>a, <4>c, <4>2, <4>6
      <4> QED BY <4>2, <4>3, <4>4, <4>7 DEF CallsTyped, Ready
    <3> QED BY <1>1, <3>1, <3>2 DEF CreateUser
  <2> QED BY <2>0, <2>1, <2>2 DEF TypeInv, TypeOK, CallsTyped
<1>2. CASE CreateSession(r)
  <2>1. PICK s \in Fresh, ok \in Acked :
          LET d == [c EXCEPT !.new = s] IN
          /\ sessions' = Insert(sessions, s, sessionParams(d.user, d.now))
          /\ IF ok THEN Goto(r, d, "RecordLoginAttempt") ELSE Answer(r, d, 500)
    BY <1>2 DEF CreateSession
  <2> DEFINE d == [c EXCEPT !.new = s]
  <2>2. /\ d \in Call /\ d.user = c.user /\ d.now \in Nat /\ d.op = c.op
        /\ d.new = s /\ d.status = c.status /\ s \in Sessions
    BY <1>c DEF Call, Fresh
  <2>3. c.user \in Emails /\ c.op = "login"
    BY <1>2 DEF CreateSession, TypeInv, Ready, Fits, KnowsUser
  <2>4. DOMAIN sessions' \subseteq Sessions /\ sessions' \in [DOMAIN sessions' -> Row]
    <3> DEFINE row == sessionParams(d.user, d.now)
    <3>1. row \in Row BY <2>2, <2>3, ParamsType
    <3>2. sessions' = Insert(sessions, s, row) BY <2>1
    <3>3. DOMAIN sessions \subseteq Sessions /\ sessions \in [DOMAIN sessions -> Row]
      BY DEF TypeInv, TypeOK
    <3>a. s \in Sessions BY <2>2
    <3> HIDE DEF row, d
    <3>4. /\ DOMAIN Insert(sessions, s, row) = DOMAIN sessions \cup {s}
          /\ Insert(sessions, s, row) \in [DOMAIN sessions \cup {s} -> Row]
      BY <3>a, <3>1, <3>3, InsertType
    <3> QED BY <3>a, <3>2, <3>3, <3>4
  <2>5. CallsTyped'
    <3>1. Goto(r, d, "RecordLoginAttempt") \/ Answer(r, d, 500) BY <2>1
    <3>2. c.status \in Statuses BY <1>c DEF Call
    <3>3. c.status = 0 BY <1>2 DEF CreateSession, TypeInv, Ready, Fits
    <3> HIDE DEF d
    <3>4. Fits("RecordLoginAttempt", d)
      BY <2>2, <2>3, <3>3 DEF Fits, KnowsUser, HoldsNew
    <3> QED BY <2>2, <3>1, <3>4, GotoType, AnswerType DEF Labels, Statements, Statuses
  <2> QED BY <1>2, <2>4, <2>5 DEF CreateSession, TypeInv, TypeOK, CallsTyped
<1>3. CASE RevokeSession(r)
  <2>1. DOMAIN sessions' \subseteq Sessions /\ sessions' \in [DOMAIN sessions' -> Row]
    BY <1>3, RevokeType DEF RevokeSession, TypeInv, TypeOK
  <2>2. CallsTyped'
    <3>1. Goto(r, c, "WriteAudit") \/ Answer(r, c, 500) BY <1>3 DEF RevokeSession
    <3>2. c.op = "logout" BY <1>3 DEF RevokeSession, TypeInv, Ready, Fits
    <3>3. Fits("WriteAudit", c) BY <3>2 DEF Fits, KnowsUser, HoldsNew, Granting
    <3> QED BY <1>c, <3>1, <3>3, GotoType, AnswerType DEF Labels, Statements, Statuses
  <2> QED BY <1>3, <2>1, <2>2 DEF RevokeSession, TypeInv, TypeOK, CallsTyped
<1>4. CASE RotateRevoke(r)
  <2> DEFINE d == [c EXCEPT !.matched = StillLive(c.token)]
  <2>1. d \in Call /\ d.user = c.user /\ d.new = c.new /\ d.op = c.op
    <3>1. StillLive(c.token) \in BOOLEAN BY DEF StillLive
    <3> QED BY <1>c, <3>1, MatchUpdate
  <2>2. c.user \in Emails /\ c.new \in Sessions /\ c.op = "refresh"
    BY <1>4 DEF RotateRevoke, TypeInv, Ready, Fits, KnowsUser, HoldsNew
  <2>3. Goto(r, d, "RotateCommit")
    BY <1>4 DEF RotateRevoke
  <2>4. CallsTyped'
    <3> HIDE DEF d
    <3>1. Fits("RotateCommit", d) BY <2>1, <2>2 DEF Fits
    <3> QED BY <2>1, <2>3, <3>1, GotoType DEF Labels, Statements
  <2>5. locks' \in [Sessions -> Requests \cup {None}]
    BY <1>4 DEF RotateRevoke, TypeInv, TypeOK
  <2> QED BY <1>4, <2>4, <2>5 DEF RotateRevoke, TypeInv, TypeOK, CallsTyped
<1>5. CASE RotateCommit(r)
  <2>1. c.user \in Emails /\ c.new \in Sessions /\ c.now \in Nat /\ c.op = "refresh"
    BY <1>c, <1>5 DEF RotateCommit, TypeInv, Ready, Fits, KnowsUser, HoldsNew, Call
  <2> DEFINE linked == IF c.matched THEN RevokeAndReplace(sessions, c.token, c.new)
                                    ELSE sessions
  <2>2. DOMAIN linked = DOMAIN sessions /\ linked \in [DOMAIN linked -> Row]
    BY <2>1, ReplaceType DEF TypeInv, TypeOK
  <2>3. sessions' = Insert(linked, c.new, sessionParams(c.user, c.now))
    BY <1>5 DEF RotateCommit
  <2>4. DOMAIN sessions' \subseteq Sessions /\ sessions' \in [DOMAIN sessions' -> Row]
    <3> DEFINE row == sessionParams(c.user, c.now)
    <3>1. row \in Row BY <2>1, ParamsType
    <3>2. DOMAIN linked \subseteq Sessions BY <2>2 DEF TypeInv, TypeOK
    <3>3. sessions' = Insert(linked, c.new, row) BY <2>3
    <3>4. c.new \in Sessions BY <2>1
    <3> HIDE DEF linked, row, c
    <3>5. /\ DOMAIN Insert(linked, c.new, row) = DOMAIN linked \cup {c.new}
          /\ Insert(linked, c.new, row) \in [DOMAIN linked \cup {c.new} -> Row]
      BY ZenonT(60), <2>2, <3>1, <3>2, <3>4, InsertType
    <3> QED BY <3>2, <3>3, <3>4, <3>5
  <2>5. CallsTyped'
    <3>1. Goto(r, c, "WriteAudit") \/ Answer(r, c, 500) BY <1>5 DEF RotateCommit
    <3>2. Fits("WriteAudit", c) BY <2>1 DEF Fits, KnowsUser
    <3> QED BY <1>c, <3>1, <3>2, GotoType, AnswerType DEF Labels, Statements, Statuses
  <2>6. /\ locks' \in [Sessions -> Requests \cup {None}]
        /\ parent' \in [Sessions -> Sessions \cup {None}]
    BY <1>c, <1>5 DEF RotateCommit, Released, TypeInv, TypeOK, Call
  <2> QED BY <1>5, <2>4, <2>5, <2>6 DEF RotateCommit, TypeInv, TypeOK, CallsTyped
<1> QED BY <1>1, <1>2, <1>3, <1>4, <1>5

LEMMA EnvironmentTyped ==
    ASSUME TypeInv,
           \/ \E r \in Requests : Fail(r) \/ Respond(r)
           \/ \E u \in Emails : SetActive(u)
           \/ Crash
           \/ Tick
    PROVE  TypeInv'
<1> USE DEF db, clients
<1>1. ASSUME NEW r \in Requests, Fail(r) PROVE TypeInv'
  <2> DEFINE d == [call[r] EXCEPT !.new = None, !.matched = FALSE]
  <2>1. d \in Call
    BY Zenon, DropUpdate DEF TypeInv, TypeOK
  <2>2. Answer(r, d, 500)
    BY Zenon, <1>1 DEF Fail, ErrorStatus
  <2>3. CallsTyped'
    <3> HIDE DEF d
    <3> QED BY <2>1, <2>2, AnswerType DEF Statuses
  <2>4. locks' \in [Sessions -> Requests \cup {None}]
    BY Zenon, <1>1 DEF Fail, Rollback, Released, TypeInv, TypeOK
  <2> QED BY Zenon, <1>1, <2>3, <2>4 DEF Fail, TypeInv, TypeOK, CallsTyped
<1>2. ASSUME NEW r \in Requests, Respond(r) PROVE TypeInv'
  <2> DEFINE c == call[r]
  <2>1. c \in Call
    BY DEF TypeInv, TypeOK
  <2>2. CallsTyped'
    <3>1. Goto(r, NoCall, "idle") BY <1>2 DEF Respond
    <3> QED BY <3>1, NoCallType, GotoType DEF Labels, Fits, KnowsUser, HoldsNew, Granting
  <2>3. loggedOut' \subseteq Sessions
    BY <1>2, <2>1 DEF Respond, TypeInv, TypeOK, Call
  <2>4. accessUntil' \in [Emails -> Nat]
    <3>1. MintAccessToken(c) \in Nat
      BY <2>1, TTLAssumption DEF MintAccessToken, Call
    <3>2. \/ accessUntil' = accessUntil
          \/ accessUntil' = [accessUntil EXCEPT ![c.user] = MintAccessToken(c)]
      BY <1>2 DEF Respond
    <3> HIDE DEF c
    <3> QED BY <3>1, <3>2 DEF TypeInv, TypeOK
  <2>5. cookies' \subseteq Sessions
    <3>1. c.status = 200 /\ Granting(c) => c.new \in Sessions
      BY <1>2 DEF Respond, TypeInv, Ready, Fits, HoldsNew
    <3> QED BY <1>2, <3>1 DEF Respond, Granting, TypeInv, TypeOK
  <2> QED BY <1>2, <2>2, <2>3, <2>4, <2>5 DEF Respond, TypeInv, TypeOK, CallsTyped
<1>3. ASSUME NEW u \in Emails, SetActive(u) PROVE TypeInv'
  <2>1. users' \in [Emails -> {"absent", "active", "inactive"}]
    BY <1>3 DEF SetActive, TypeInv, TypeOK
  <2>2. /\ call' \in [Requests -> Call]
        /\ \A r \in Requests : Fits(pc[r], call'[r])
    <3>1. call' = call \/ call' = Witness(call, u)
      BY <1>3 DEF SetActive
    <3>2. \A r \in Requests : call[r] \in Call /\ Fits(pc[r], call[r])
      BY DEF TypeInv, TypeOK, Ready
    <3>3. ASSUME NEW e \in Call
          PROVE  /\ [e EXCEPT !.seenActive = TRUE] \in Call
                 /\ \A label : Fits(label, e) =>
                              Fits(label, [e EXCEPT !.seenActive = TRUE])
      BY WitnessFits
    <3>4. CASE call' = call
      BY <3>2, <3>4 DEF TypeInv, TypeOK
    <3>5. CASE call' = Witness(call, u)
      <4>1. \A r \in Requests :
              call'[r] = call[r] \/ call'[r] = [call[r] EXCEPT !.seenActive = TRUE]
        BY <3>5 DEF Witness
      <4>2. \A r \in Requests : call'[r] \in Call /\ Fits(pc[r], call'[r])
        <5> SUFFICES ASSUME NEW r \in Requests
                     PROVE  call'[r] \in Call /\ Fits(pc[r], call'[r])
          OBVIOUS
        <5>1. CASE call'[r] = call[r] BY <3>2, <5>1
        <5>2. CASE call'[r] = [call[r] EXCEPT !.seenActive = TRUE]
          BY <3>2, <3>3, <5>2
        <5> QED BY <4>1, <5>1, <5>2
      <4> QED BY <3>5, <4>2 DEF Witness
    <3> QED BY <3>1, <3>4, <3>5
  <2> QED BY <1>3, <2>1, <2>2 DEF SetActive, TypeInv, TypeOK, Ready
<1>4. ASSUME Crash PROVE TypeInv'
  <2>1. Fits("idle", NoCall)
    BY DEF Fits, KnowsUser, HoldsNew
  <2> QED BY <1>4, <2>1, NoCallType DEF Crash, TypeInv, TypeOK, Ready, Labels
<1>5. CASE Tick
  BY <1>5 DEF Tick, TypeInv, TypeOK, Ready
<1> QED BY <1>1, <1>2, <1>3, <1>4, <1>5

LEMMA TypeInit == Init => TypeInv
BY NoCallType, InstanceAssumption
DEF Init, TypeInv, TypeOK, Ready, Fits, KnowsUser, HoldsNew, Labels

LEMMA TypeStep == TypeInv /\ [Next]_vars => TypeInv'
<1> SUFFICES ASSUME TypeInv, [Next]_vars PROVE TypeInv'
  OBVIOUS
<1>1. CASE Next
  BY <1>1, ArrivalsTyped, ReadsTyped, WritesTyped, EnvironmentTyped DEF Next, Step
<1>2. CASE UNCHANGED vars
  BY <1>2 DEF vars, db, clients, TypeInv, TypeOK, Ready
<1> QED BY <1>1, <1>2

LEMMA TypeInvariant == Spec => []TypeInv
BY TypeInit, TypeStep, PTL DEF Spec

\* In every reachable state the tables, the locks and what the requests carry
\* have their types: no handler inserts a row without a user or sends a cookie
\* without a session, whichever statement failed before.
THEOREM TypeCorrect == Spec => []TypeOK
<1>1. TypeInv => TypeOK
  BY DEF TypeInv
<1> QED BY <1>1, TypeInvariant, PTL

-----------------------------------------------------------------------------
(* Rotation and revocation *)

\* A row that is not stored has no parent: CreateSession leaves parent alone.
Unborn == \A s \in Sessions \ Stored : parent[s] = None

RotationInv ==
    /\ LinksSound
    /\ SuccessorsSound
    /\ ChainsEnd
    /\ LocksHeldByRotations
    /\ TransactionsSound
    /\ Unborn

\* A request whose part in the transactions does not change in a step, and one
\* that is in none after it.
Stays(q) ==
    /\ pc'[q] = pc[q]
    /\ call'[q].token = call[q].token
    /\ call'[q].user = call[q].user
    /\ call'[q].now = call[q].now
    /\ call'[q].new = call[q].new
    /\ call'[q].matched = call[q].matched
Leaves(q) ==
    /\ pc'[q] \notin InRotation \cup {"RevokeSession"}
    /\ call'[q].new \in {None, call[q].new}

-----------------------------------------------------------------------------
(* Where a request goes *)

LEMMA GotoEffect ==
    ASSUME TypeInv, NEW r \in Requests, NEW c, NEW label, Goto(r, c, label)
    PROVE  /\ pc'[r] = label
           /\ call'[r] = c
           /\ \A q \in Requests \ {r} : pc'[q] = pc[q] /\ call'[q] = call[q]
BY DEF Goto, TypeInv, TypeOK

LEMMA AnswerEffect ==
    ASSUME TypeInv, NEW r \in Requests, NEW c \in Call, NEW status, Answer(r, c, status)
    PROVE  /\ pc'[r] = "answer"
           /\ call'[r].new = c.new
           /\ \A q \in Requests \ {r} : pc'[q] = pc[q] /\ call'[q] = call[q]
<1>1. [c EXCEPT !.status = status].new = c.new
  BY DEF Call
<1> QED BY ZenonT(60), <1>1, GotoEffect DEF Answer

\* A step that leaves the table alone, in which every request either keeps its
\* part in the transactions or leaves them, and the locks of those that leave
\* are released.
LEMMA Quiet ==
    ASSUME TypeInv, RotationInv,
           UNCHANGED <<sessions, parent>>,
           \A q \in Requests : Stays(q) \/ Leaves(q),
           \A s \in Sessions : locks'[s] = IF locks[s] # None /\ Stays(locks[s])
                                           THEN locks[s] ELSE None
    PROVE  RotationInv'
<1> USE DEF RotationInv
<1>1. Stored' = Stored
  BY DEF Stored
<1>2. LinksSound' /\ SuccessorsSound'
  BY DEF LinksSound, SuccessorsSound, Stored, IsRevoked
<1>3. ChainsEnd'
  BY <1>1 DEF ChainsEnd
<1>4. Unborn'
  BY <1>1 DEF Unborn
<1>5. LocksHeldByRotations'
  BY <1>1 DEF LocksHeldByRotations, Stays, IsRevoked, TypeInv, TypeOK
<1>6. TransactionsSound'
  <2> SUFFICES ASSUME NEW r \in Requests
               PROVE  LET c == call'[r] IN
        /\ pc'[r] \in InRotation \cup {"RevokeSession"} => c.token \in Stored
        /\ pc'[r] \in InRotation => /\ c.user = sessions[c.token].user
                                  /\ c.now < sessions[c.token].expiresAt
        /\ pc'[r] \in {"RotateRevoke", "RotateCommit"} =>
             /\ c.new \in Sessions \ Stored
             /\ \A q \in Requests \ {r} : call'[q].new # c.new
        /\ pc'[r] = "RotateCommit" => IF c.matched THEN locks'[c.token] = r
                                                  ELSE IsRevoked(c.token)
    BY <1>1 DEF TransactionsSound, IsRevoked
  <2>1. CASE Leaves(r)
    BY <2>1 DEF Leaves, InRotation
  <2>2. CASE Stays(r)
    <3>1. pc'[r] \in {"RotateRevoke", "RotateCommit"} =>
             /\ call'[r].new \in Sessions \ Stored
             /\ \A q \in Requests \ {r} : call'[q].new # call'[r].new
      BY <2>2, NoneAssumption DEF TransactionsSound, Stays, Leaves
    <3>2. pc'[r] = "RotateCommit" => IF call'[r].matched THEN locks'[call'[r].token] = r
                                                  ELSE IsRevoked(call'[r].token)
      <4> SUFFICES ASSUME pc[r] = "RotateCommit"
                   PROVE  IF call[r].matched THEN locks'[call[r].token] = r
                                             ELSE IsRevoked(call[r].token)
        BY <2>2 DEF Stays
      <4>1. call[r].token \in Sessions
        BY DEF TransactionsSound, InRotation, TypeInv, TypeOK, Stored
      <4> QED BY <2>2, <4>1, NoneAssumption DEF TransactionsSound
    <3> QED BY <2>2, <3>1, <3>2 DEF TransactionsSound, Stays
  <2> QED BY <2>1, <2>2
<1> QED BY <1>2, <1>3, <1>4, <1>5, <1>6

\* The usual case: one request moves, it holds no lock, and nothing it moves to
\* is part of a rotation or a revocation.
LEMMA QuietStep ==
    ASSUME TypeInv, RotationInv, NEW r \in Requests,
           UNCHANGED <<sessions, parent, locks>>,
           pc[r] # "RotateCommit",
           Leaves(r),
           \A q \in Requests \ {r} : pc'[q] = pc[q] /\ call'[q] = call[q]
    PROVE  RotationInv'
<1>1. \A q \in Requests \ {r} : Stays(q)
  BY DEF Stays
<1>2. \A s \in Sessions : locks[s] # None => locks[s] # r /\ locks[s] \in Requests
  BY DEF RotationInv, LocksHeldByRotations, TypeInv, TypeOK
<1> QED BY <1>1, <1>2, Quiet

-----------------------------------------------------------------------------
(* The actions that take no part in a transaction *)

LEMMA ArrivalsKeep ==
    ASSUME TypeInv, RotationInv, NEW r \in Requests,
           Register(r) \/ Login(r) \/ Refresh(r) \/ Logout(r) \/ Authenticate(r)
    PROVE  RotationInv'
<1>1. /\ pc[r] = "idle"
      /\ UNCHANGED <<sessions, parent, locks>>
  BY Zenon DEF Register, Login, Refresh, Logout, Authenticate, Arrives, db
<1>2. PICK c, label : /\ Goto(r, c, label)
                      /\ c.new = None
                      /\ label \in {"answer", "CreateUser", "CredentialsByEmail",
                                    "SessionByHash", "UserByID"}
  <2>1. CASE Register(r) BY ZenonT(60), <2>1 DEF Register, Answer, NoCall
  <2>2. CASE Login(r) BY ZenonT(60), <2>2 DEF Login, Answer, NoCall
  <2>3. CASE Refresh(r) BY ZenonT(60), <2>3 DEF Refresh, Answer, NoCall
  <2>4. CASE Logout(r) BY Zenon, <2>4 DEF Logout, Answer, NoCall
  <2>5. CASE Authenticate(r) BY ZenonT(60), <2>5 DEF Authenticate, Answer, NoCall
  <2> QED BY <2>1, <2>2, <2>3, <2>4, <2>5
<1> QED BY SMTT(30), <1>1, <1>2, GotoEffect, QuietStep DEF Leaves, InRotation

\* Accounts: what a request saw of them plays no part in a rotation.
LEMMA AccountsKeep ==
    ASSUME TypeInv, RotationInv,
           (\E r \in Requests : CreateUser(r)) \/ \E u \in Emails : SetActive(u)
    PROVE  RotationInv'
<1>1. ASSUME NEW r \in Requests, CreateUser(r) PROVE RotationInv'
  <2> DEFINE c == call[r]
  <2>1. pc[r] = "CreateUser" /\ UNCHANGED <<sessions, parent, locks>>
    BY <1>1 DEF CreateUser, At, db
  <2>2. c \in Call
    BY DEF TypeInv, TypeOK
  <2>3. CASE Answer(r, c, 409)
    BY <2>1, <2>2, <2>3, AnswerEffect, QuietStep DEF Leaves, InRotation
  <2>4. ASSUME NEW ok \in BOOLEAN, NEW d, d = [c EXCEPT !.status = IF ok THEN 0 ELSE 500],
               pc' = [pc EXCEPT ![r] = IF ok THEN "WriteAudit" ELSE "answer"],
               call' = Witness([call EXCEPT ![r] = d], d.user)
        PROVE  RotationInv'
    <3>1. d \in Call /\ d.new = c.new
      BY <2>2, <2>4 DEF Call, Statuses
    <3>2. [call EXCEPT ![r] = d] \in [Requests -> Call]
      BY <3>1 DEF TypeInv, TypeOK
    <3>3. Leaves(r)
      <4>1. call'[r] = d \/ call'[r] = [d EXCEPT !.seenActive = TRUE]
        BY <2>4, <3>2 DEF Witness, TypeInv, TypeOK
      <4>2. call'[r].new = c.new
        BY <3>1, <4>1, SeenUpdate
      <4>3. pc'[r] \in {"WriteAudit", "answer"}
        BY <2>4 DEF TypeInv, TypeOK
      <4> QED BY <4>2, <4>3 DEF Leaves, InRotation
    <3>4. \A q \in Requests \ {r} : Stays(q)
      BY <2>4, <3>1, <3>2, SeenUpdate DEF Witness, Stays, TypeInv, TypeOK
    <3>5. \A s \in Sessions : locks[s] # None => locks[s] # r /\ locks[s] \in Requests
      BY <2>1 DEF RotationInv, LocksHeldByRotations, TypeInv, TypeOK
    <3> QED BY <2>1, <3>3, <3>4, <3>5, Quiet
  <2>5. CASE ~Answer(r, c, 409)
    <3> DEFINE d(ok) == [c EXCEPT !.status = IF ok THEN 0 ELSE 500]
    <3>1. PICK ok \in BOOLEAN :
            /\ pc' = [pc EXCEPT ![r] = IF ok THEN "WriteAudit" ELSE "answer"]
            /\ call' = Witness([call EXCEPT ![r] = d(ok)], d(ok).user)
      BY ZenonT(60), <1>1, <2>5 DEF CreateUser, Acked
    <3>2. d(ok) = [c EXCEPT !.status = IF ok THEN 0 ELSE 500]
      OBVIOUS
    <3> HIDE DEF d
    <3> QED BY ZenonT(60), <2>4, <3>1, <3>2
  <2> QED BY <2>3, <2>5
<1>2. ASSUME NEW u \in Emails, SetActive(u) PROVE RotationInv'
  <2>1. UNCHANGED <<sessions, parent, locks, pc>>
    BY <1>2 DEF SetActive
  <2>2. \A q \in Requests : Stays(q)
    BY <1>2, SeenUpdate DEF SetActive, Witness, Stays, TypeInv, TypeOK
  <2>3. \A s \in Sessions : locks[s] # None => locks[s] \in Requests
    BY DEF TypeInv, TypeOK
  <2> QED BY <2>1, <2>2, <2>3, Quiet
<1> QED BY <1>1, <1>2

\* Statements of one request that touch neither the table nor a lock.
LEMMA StatementsKeep ==
    ASSUME TypeInv, RotationInv, NEW r \in Requests,
           \/ CredentialsByEmail(r) \/ RecordLoginAttempt(r) \/ WriteAudit(r)
           \/ UserByID(r) \/ Respond(r)
    PROVE  RotationInv'
<1> DEFINE c == call[r]
<1>1. /\ pc[r] \notin InRotation
      /\ UNCHANGED <<sessions, parent, locks>>
  BY DEF CredentialsByEmail, RecordLoginAttempt, WriteAudit, UserByID, Respond, At, db,
         InRotation
<1>2. PICK d, label : /\ Goto(r, d, label)
                      /\ d.new \in {None, c.new}
                      /\ label \in {"answer", "idle", "RecordLoginAttempt", "CreateSession",
                                    "WriteAudit"}
  <2>0. c \in Call
    BY DEF TypeInv, TypeOK
  <2>1. CASE CredentialsByEmail(r) BY <2>0, <2>1 DEF CredentialsByEmail, Call
  <2>2. CASE RecordLoginAttempt(r) BY <2>0, <2>2 DEF RecordLoginAttempt, Call
  <2>3. CASE WriteAudit(r) BY ZenonT(60), <2>0, <2>3 DEF WriteAudit, Answer, Call
  <2>4. CASE UserByID(r) BY <2>0, <2>4 DEF UserByID, Answer, Call
  <2>5. CASE Respond(r) BY <2>5 DEF Respond, NoCall
  <2> QED BY <2>1, <2>2, <2>3, <2>4, <2>5
<1> QED BY <1>1, <1>2, GotoEffect, QuietStep DEF Leaves, InRotation

\* Failures, crashes and time: a transaction that ends without a commit gives
\* its lock back and leaves no trace.
LEMMA FaultsKeep ==
    ASSUME TypeInv, RotationInv,
           (\E r \in Requests : Fail(r)) \/ Crash \/ Tick \/ UNCHANGED vars
    PROVE  RotationInv'
<1>1. ASSUME NEW r \in Requests, Fail(r) PROVE RotationInv'
  <2> DEFINE d == [call[r] EXCEPT !.new = None, !.matched = FALSE]
  <2>1. d \in Call /\ d.new = None
    BY Zenon, DropUpdate DEF TypeInv, TypeOK
  <2>2. Answer(r, d, 500)
    BY Zenon, <1>1 DEF Fail, ErrorStatus
  <2>3. Leaves(r) /\ pc'[r] = "answer" /\ \A q \in Requests \ {r} : Stays(q)
    <3> HIDE DEF d
    <3> QED BY <2>1, <2>2, AnswerEffect DEF Leaves, Stays, InRotation
  <2>4. UNCHANGED <<sessions, parent>>
    BY Zenon, <1>1 DEF Fail
  <2>5. \A s \in Sessions : locks'[s] = IF locks[s] = r THEN None ELSE locks[s]
    BY Zenon, <1>1 DEF Fail, Rollback, Released
  <2>6. \A s \in Sessions : locks[s] # None => locks[s] \in Requests
    BY DEF TypeInv, TypeOK
  <2>7. ~Stays(r) \/ \A s \in Sessions : locks[s] # r
    BY <2>3, NoneAssumption DEF Stays, RotationInv, LocksHeldByRotations
  <2>8. \A s \in Sessions : locks'[s] = IF locks[s] # None /\ Stays(locks[s])
                                        THEN locks[s] ELSE None
    BY <2>3, <2>5, <2>6, <2>7
  <2> QED BY <2>3, <2>4, <2>8, Quiet
<1>2. CASE Crash
  <2>1. \A r \in Requests : Leaves(r) /\ ~(pc[r] = "RotateCommit" /\ Stays(r))
    BY <1>2 DEF Crash, Leaves, Stays, NoCall, InRotation
  <2>2. \A s \in Sessions : locks[s] # None => ~Stays(locks[s])
    BY <2>1 DEF RotationInv, LocksHeldByRotations, TypeInv, TypeOK
  <2>3. UNCHANGED <<sessions, parent>> /\ \A s \in Sessions : locks'[s] = None
    BY <1>2 DEF Crash
  <2> QED BY <2>1, <2>2, <2>3, Quiet
<1>3. CASE Tick \/ UNCHANGED vars
  <2>1. UNCHANGED <<sessions, parent, locks, pc, call>>
    BY <1>3 DEF Tick, vars, db
  <2>2. \A q \in Requests : Stays(q)
    BY <2>1 DEF Stays
  <2>3. \A s \in Sessions : locks[s] # None => locks[s] \in Requests
    BY DEF TypeInv, TypeOK
  <2> QED BY <2>1, <2>2, <2>3, Quiet
<1> QED BY <1>1, <1>2, <1>3

-----------------------------------------------------------------------------
(* The two tokens of one row: rotation *)

\* The lookup lets a rotation or a revocation start from a row it has just read.
LEMMA LookupKeeps ==
    ASSUME TypeInv, RotationInv, NEW r \in Requests, SessionByHash(r)
    PROVE  RotationInv'
<1> DEFINE c == call[r]
           d == [c EXCEPT !.user = sessions[c.token].user]
<1>1. c \in Call /\ pc[r] = "SessionByHash" /\ UNCHANGED <<sessions, parent, locks>>
  BY DEF SessionByHash, At, db, TypeInv, TypeOK
<1>2. \/ \E status : Answer(r, c, status)
      \/ c.token \in Stored /\ Goto(r, d, "RevokeSession")
      \/ c.token \in Stored /\ Usable(c.token, c.now) /\ Goto(r, d, "RotateInsert")
  BY DEF SessionByHash
<1>3. CASE \E status : Answer(r, c, status)
  BY <1>1, <1>3, AnswerEffect, QuietStep DEF Leaves, InRotation
<1>4. CASE /\ c.token \in Stored
           /\ \/ Goto(r, d, "RevokeSession")
              \/ Usable(c.token, c.now) /\ Goto(r, d, "RotateInsert")
  <2>1. /\ d.token = c.token /\ d.now = c.now /\ d.new = c.new
        /\ d.user = sessions[c.token].user
    BY <1>1 DEF Call
  <2>2. /\ call'[r].token = c.token /\ call'[r].now = c.now /\ call'[r].new = c.new
        /\ call'[r].user = sessions[c.token].user
        /\ \/ pc'[r] = "RevokeSession"
           \/ pc'[r] = "RotateInsert" /\ c.now < sessions[c.token].expiresAt
        /\ \A q \in Requests \ {r} : pc'[q] = pc[q] /\ call'[q] = call[q]
    <3> HIDE DEF d
    <3>1. Usable(c.token, c.now) => c.now < sessions[c.token].expiresAt
      BY <1>1, <1>4 DEF Usable, TypeInv, TypeOK, Call, Row, Stored
    <3> QED BY <1>4, <2>1, <3>1, GotoEffect
  <2>3. Stored' = Stored
    BY <1>1 DEF Stored
  <2>4. LinksSound' /\ SuccessorsSound' /\ ChainsEnd' /\ Unborn'
    BY <1>1, <2>3
    DEF RotationInv, LinksSound, SuccessorsSound, ChainsEnd, Unborn, IsRevoked
  <2>5. LocksHeldByRotations'
    BY <1>1, <2>2, <2>3 DEF RotationInv, LocksHeldByRotations, IsRevoked, TypeInv, TypeOK
  <2>6. TransactionsSound'
    BY <1>1, <1>4, <2>2, <2>3
    DEF RotationInv, TransactionsSound, InRotation, IsRevoked
  <2> QED BY <2>4, <2>5, <2>6 DEF RotationInv
<1> QED BY <1>2, <1>3, <1>4

\* The identifier the transaction inserts is nobody else's.
LEMMA RotateInsertKeeps ==
    ASSUME TypeInv, RotationInv, NEW r \in Requests, RotateInsert(r)
    PROVE  RotationInv'
<1> DEFINE c == call[r]
<1>1. c \in Call /\ pc[r] = "RotateInsert" /\ UNCHANGED <<sessions, parent, locks>>
  BY DEF RotateInsert, At, db, TypeInv, TypeOK
<1>2. PICK s \in Fresh : Goto(r, [c EXCEPT !.new = s], "RotateRevoke")
  BY DEF RotateInsert
<1>3. /\ call'[r].token = c.token /\ call'[r].now = c.now /\ call'[r].new = s
      /\ call'[r].user = c.user
      /\ pc'[r] = "RotateRevoke"
      /\ \A q \in Requests \ {r} : pc'[q] = pc[q] /\ call'[q] = call[q]
  <2> DEFINE d == [c EXCEPT !.new = s]
  <2>1. /\ d.token = c.token /\ d.now = c.now /\ d.new = s /\ d.user = c.user
    BY <1>1, <1>2 DEF Call
  <2>2. Goto(r, d, "RotateRevoke")
    BY <1>2
  <2> HIDE DEF d
  <2> QED BY <2>1, <2>2, GotoEffect
<1>4. Stored' = Stored
  BY <1>1 DEF Stored
<1>5. LinksSound' /\ SuccessorsSound' /\ ChainsEnd' /\ Unborn'
  BY <1>1, <1>4
  DEF RotationInv, LinksSound, SuccessorsSound, ChainsEnd, Unborn, IsRevoked
<1>6. LocksHeldByRotations'
  BY <1>1, <1>3, <1>4 DEF RotationInv, LocksHeldByRotations, IsRevoked, TypeInv, TypeOK
<1>7. TransactionsSound'
  <2>1. s \in Sessions \ Stored /\ \A q \in Requests : call[q].new # s
    BY <1>2 DEF Fresh
  <2> QED BY <1>1, <1>3, <1>4, <2>1
          DEF RotationInv, TransactionsSound, InRotation, IsRevoked
<1> QED BY <1>5, <1>6, <1>7 DEF RotationInv

\* The UPDATE of the transaction either finds the row live and locks it, or finds
\* that somebody revoked it.
LEMMA RotateRevokeKeeps ==
    ASSUME TypeInv, RotationInv, NEW r \in Requests, RotateRevoke(r)
    PROVE  RotationInv'
<1> DEFINE c == call[r]
           hit == StillLive(c.token)
<1>1. /\ c \in Call /\ pc[r] = "RotateRevoke" /\ UNCHANGED <<sessions, parent>>
      /\ locks[c.token] = None
      /\ locks' = IF hit THEN [locks EXCEPT ![c.token] = r] ELSE locks
      /\ Goto(r, [c EXCEPT !.matched = hit], "RotateCommit")
  BY DEF RotateRevoke, At, db, TypeInv, TypeOK
<1>2. /\ call'[r].token = c.token /\ call'[r].now = c.now /\ call'[r].new = c.new
      /\ call'[r].user = c.user
      /\ call'[r].matched = hit
      /\ pc'[r] = "RotateCommit"
      /\ \A q \in Requests \ {r} : pc'[q] = pc[q] /\ call'[q] = call[q]
  <2> DEFINE d == [c EXCEPT !.matched = hit]
  <2>1. hit \in BOOLEAN
    BY DEF StillLive
  <2>2. d.token = c.token /\ d.now = c.now /\ d.new = c.new /\ d.user = c.user
        /\ d.matched = hit
    <3> HIDE DEF hit
    <3> QED BY <1>1, <2>1, MatchUpdate
  <2>3. Goto(r, d, "RotateCommit")
    BY <1>1
  <2> HIDE DEF d, hit
  <2> QED BY <2>2, <2>3, GotoEffect
<1>3. Stored' = Stored /\ c.token \in Stored /\ c.token \in Sessions
  BY <1>1 DEF Stored, RotationInv, TransactionsSound, InRotation, TypeInv, TypeOK
<1>4. LinksSound' /\ SuccessorsSound' /\ ChainsEnd' /\ Unborn'
  BY <1>1, <1>3
  DEF RotationInv, LinksSound, SuccessorsSound, ChainsEnd, Unborn, IsRevoked
<1>5. IF IsRevoked(c.token) THEN ~hit /\ call'[r].matched = FALSE
                            ELSE hit /\ call'[r].matched = TRUE
  BY <1>2, Zenon DEF StillLive
<1>6. \A s \in Sessions : locks'[s] = IF s = c.token /\ hit THEN r ELSE locks[s]
  BY <1>1, <1>3 DEF TypeInv, TypeOK
<1> HIDE DEF hit
<1>7. LocksHeldByRotations'
  BY <1>1, <1>2, <1>3, <1>5, <1>6
  DEF RotationInv, LocksHeldByRotations, IsRevoked, TypeInv, TypeOK
<1>8. TransactionsSound'
  <2> SUFFICES ASSUME NEW q \in Requests
               PROVE  LET e == call'[q] IN
        /\ pc'[q] \in InRotation \cup {"RevokeSession"} => e.token \in Stored
        /\ pc'[q] \in InRotation => /\ e.user = sessions[e.token].user
                                  /\ e.now < sessions[e.token].expiresAt
        /\ pc'[q] \in {"RotateRevoke", "RotateCommit"} =>
             /\ e.new \in Sessions \ Stored
             /\ \A p \in Requests \ {q} : call'[p].new # e.new
        /\ pc'[q] = "RotateCommit" => IF e.matched THEN locks'[e.token] = q
                                                  ELSE IsRevoked(e.token)
    BY <1>1, <1>3 DEF TransactionsSound, IsRevoked
  <2>1. CASE q = r
    BY <1>1, <1>2, <1>3, <1>5, <1>6, <2>1 DEF RotationInv, TransactionsSound, InRotation
  <2>2. CASE q # r
    <3>1. pc[q] = "RotateCommit" /\ call[q].matched => call[q].token \in Sessions
      BY <1>3 DEF RotationInv, TransactionsSound, InRotation, TypeInv, TypeOK, Stored
    <3>2. pc'[q] = "RotateCommit" /\ call'[q].matched => locks'[call'[q].token] = q
      BY <1>1, <1>2, <1>6, <2>2, <3>1, NoneAssumption
      DEF RotationInv, TransactionsSound
    <3> QED BY <1>1, <1>2, <2>2, <3>2 DEF RotationInv, TransactionsSound
  <2> QED BY <2>1, <2>2
<1> QED BY <1>4, <1>7, <1>8 DEF RotationInv

\* A logout revokes a row that no transaction holds.
LEMMA RevokeSessionKeeps ==
    ASSUME TypeInv, RotationInv, NEW r \in Requests, RevokeSession(r)
    PROVE  RotationInv'
<1> DEFINE c == call[r]
<1>1. /\ c \in Call /\ pc[r] = "RevokeSession" /\ UNCHANGED <<parent, locks>>
      /\ locks[c.token] = None
      /\ sessions' = IF StillLive(c.token) THEN [sessions EXCEPT ![c.token].revoked = TRUE]
                                           ELSE sessions
      /\ Goto(r, c, "WriteAudit") \/ Answer(r, c, 500)
  BY DEF RevokeSession, At, TypeInv, TypeOK
<1>2. /\ pc'[r] \in {"WriteAudit", "answer"}
      /\ call'[r].new = c.new
      /\ \A q \in Requests \ {r} : pc'[q] = pc[q] /\ call'[q] = call[q]
  BY <1>1, GotoEffect, AnswerEffect
<1>3. c.token \in Stored
  BY <1>1 DEF RotationInv, TransactionsSound
<1>4. /\ Stored' = Stored
      /\ sessions'[c.token].user = sessions[c.token].user
      /\ sessions'[c.token].expiresAt = sessions[c.token].expiresAt
      /\ sessions'[c.token].replacedBy = sessions[c.token].replacedBy
      /\ sessions'[c.token].revoked
      /\ \A s \in Stored : s # c.token => sessions'[s] = sessions[s]
  BY <1>1, <1>3, RevokeType DEF Stored, StillLive, IsRevoked, TypeInv, TypeOK
<1>5. LinksSound'
  BY <1>1, <1>4 DEF RotationInv, LinksSound, IsRevoked
<1>6. SuccessorsSound'
  BY <1>1, <1>4 DEF RotationInv, SuccessorsSound, IsRevoked
<1>7. ChainsEnd' /\ Unborn'
  BY <1>1, <1>4 DEF RotationInv, ChainsEnd, Unborn
<1>8. LocksHeldByRotations'
  BY <1>1, <1>2, <1>4 DEF RotationInv, LocksHeldByRotations, IsRevoked, TypeInv, TypeOK
<1>9. TransactionsSound'
  BY <1>1, <1>2, <1>4 DEF RotationInv, TransactionsSound, InRotation, IsRevoked
<1> QED BY <1>5, <1>6, <1>7, <1>8, <1>9 DEF RotationInv

\* A login inserts a row that is in no chain.
LEMMA CreateSessionKeeps ==
    ASSUME TypeInv, RotationInv, NEW r \in Requests, CreateSession(r)
    PROVE  RotationInv'
<1> DEFINE c == call[r]
<1>1. c \in Call /\ pc[r] = "CreateSession" /\ UNCHANGED <<parent, locks>>
  BY DEF CreateSession, At, TypeInv, TypeOK
<1>2. PICK s \in Fresh, ok \in Acked :
          LET d == [c EXCEPT !.new = s] IN
          /\ sessions' = Insert(sessions, s, sessionParams(d.user, d.now))
          /\ IF ok THEN Goto(r, d, "RecordLoginAttempt") ELSE Answer(r, d, 500)
  BY DEF CreateSession
<1>3. s \in Sessions \ Stored /\ \A q \in Requests : call[q].new # s
  BY <1>2 DEF Fresh
<1>4. /\ pc'[r] \in {"RecordLoginAttempt", "answer"}
      /\ call'[r].new = s
      /\ \A q \in Requests \ {r} : pc'[q] = pc[q] /\ call'[q] = call[q]
  <2> DEFINE d == [c EXCEPT !.new = s]
  <2>1. d \in Call /\ d.new = s
    BY <1>1, <1>3 DEF Call
  <2>2. Goto(r, d, "RecordLoginAttempt") \/ Answer(r, d, 500)
    BY <1>2
  <2> HIDE DEF d
  <2> QED BY <2>1, <2>2, GotoEffect, AnswerEffect
<1>5. /\ Stored' = Stored \cup {s}
      /\ sessions'[s].replacedBy = None
      /\ \A x \in Stored : sessions'[x] = sessions[x]
  BY <1>2, <1>3 DEF Insert, sessionParams, Stored
<1>6. parent[s] = None
  BY <1>3 DEF RotationInv, Unborn
<1>7. LinksSound'
  BY <1>1, <1>5 DEF RotationInv, LinksSound, IsRevoked
<1>8. SuccessorsSound'
  BY <1>1, <1>5, <1>6 DEF RotationInv, SuccessorsSound, IsRevoked
<1>9. ChainsEnd'
  <2> SUFFICES ASSUME NEW S \in SUBSET Stored', S # {}
               PROVE  \E x \in S : sessions'[x].replacedBy \notin S
    BY DEF ChainsEnd
  <2>1. CASE s \in S
    BY <1>3, <1>5, <2>1, NoneAssumption DEF TypeInv, TypeOK, Stored
  <2>2. CASE s \notin S
    <3>1. PICK x \in S : sessions[x].replacedBy \notin S
      BY <1>5, <2>2 DEF RotationInv, ChainsEnd
    <3> QED BY <1>5, <2>2, <3>1
  <2> QED BY <2>1, <2>2
<1>10. Unborn'
  BY <1>1, <1>5 DEF RotationInv, Unborn
<1>11. LocksHeldByRotations'
  BY <1>1, <1>4, <1>5 DEF RotationInv, LocksHeldByRotations, IsRevoked, TypeInv, TypeOK
<1>12. TransactionsSound'
  BY SMTT(30), <1>1, <1>3, <1>4, <1>5 DEF RotationInv, TransactionsSound, InRotation, IsRevoked
<1> QED BY <1>7, <1>8, <1>9, <1>10, <1>11, <1>12 DEF RotationInv

\* What a commit does to the table, whether or not the UPDATE hit the old row.
LEMMA CommitEffect ==
    ASSUME TypeInv, RotationInv, NEW r \in Requests, RotateCommit(r)
    PROVE  /\ pc[r] = "RotateCommit"
           /\ call[r].token \in Stored
           /\ call[r].new \in Sessions \ Stored
           /\ Stored' = Stored \cup {call[r].new}
           /\ sessions'[call[r].new] = sessionParams(call[r].user, call[r].now)
           /\ \A x \in Stored : x # call[r].token => sessions'[x] = sessions[x]
           /\ sessions'[call[r].token].user = sessions[call[r].token].user
           /\ sessions'[call[r].token].expiresAt = sessions[call[r].token].expiresAt
           /\ sessions'[call[r].token].revoked
           /\ IF IsRevoked(call[r].token)
              THEN sessions'[call[r].token] = sessions[call[r].token]
              ELSE /\ sessions'[call[r].token].replacedBy = call[r].new
                   /\ locks[call[r].token] = r
<1> DEFINE c == call[r]
           linked == IF c.matched THEN RevokeAndReplace(sessions, c.token, c.new)
                                  ELSE sessions
           row == sessionParams(c.user, c.now)
<1>1. pc[r] = "RotateCommit" /\ sessions' = Insert(linked, c.new, row)
  BY DEF RotateCommit, At
<1>2. /\ c.token \in Stored
      /\ c.new \in Sessions \ Stored
      /\ IF c.matched THEN locks[c.token] = r ELSE IsRevoked(c.token)
  BY <1>1 DEF RotationInv, TransactionsSound, InRotation
<1>3. c.token # c.new
  BY <1>2
<1>4. c.matched => ~IsRevoked(c.token)
  BY <1>2, NoneAssumption DEF RotationInv, LocksHeldByRotations, TypeInv, TypeOK, Stored
<1>5. /\ DOMAIN linked = Stored
      /\ \A x \in Stored : x # c.token => linked[x] = sessions[x]
      /\ linked[c.token].user = sessions[c.token].user
      /\ linked[c.token].expiresAt = sessions[c.token].expiresAt
      /\ linked[c.token].revoked
      /\ IF IsRevoked(c.token) THEN linked[c.token] = sessions[c.token]
                               ELSE /\ linked[c.token].replacedBy = c.new
                                    /\ locks[c.token] = r
  <2>1. CASE c.matched
    <3>1. linked = RevokeAndReplace(sessions, c.token, c.new)
      BY <2>1
    <3> HIDE DEF linked
    <3> QED BY <1>2, <1>4, <2>1, <3>1, ReplaceType DEF Stored, TypeInv, TypeOK
  <2>2. CASE ~c.matched
    BY <1>2, <2>2 DEF Stored, IsRevoked
  <2> QED BY <2>1, <2>2
<1> HIDE DEF linked, row
<1>6. /\ DOMAIN sessions' = DOMAIN linked \cup {c.new}
      /\ sessions'[c.new] = row
      /\ \A x \in DOMAIN linked : x # c.new => sessions'[x] = linked[x]
  BY <1>1 DEF Insert
<1> QED BY <1>1, <1>2, <1>3, <1>5, <1>6 DEF row, Stored

LEMMA RotateCommitKeeps ==
    ASSUME TypeInv, RotationInv, NEW r \in Requests, RotateCommit(r)
    PROVE  RotationInv'
<1> DEFINE c == call[r]
           old == c.token
           new == c.new
<1>1. /\ c \in Call
      /\ parent' = [parent EXCEPT ![new] = old]
      /\ locks' = Released(r)
      /\ Goto(r, c, "WriteAudit") \/ Answer(r, c, 500)
  BY DEF RotateCommit, At, TypeInv, TypeOK
<1>2. /\ pc'[r] \in {"WriteAudit", "answer"}
      /\ call'[r].new = new
      /\ \A q \in Requests \ {r} : pc'[q] = pc[q] /\ call'[q] = call[q]
  BY <1>1, GotoEffect, AnswerEffect
<1>3. /\ pc[r] = "RotateCommit"
      /\ old \in Stored
      /\ new \in Sessions \ Stored
      /\ Stored' = Stored \cup {new}
      /\ sessions'[new] = sessionParams(c.user, c.now)
      /\ \A x \in Stored : x # old => sessions'[x] = sessions[x]
      /\ sessions'[old].user = sessions[old].user
      /\ sessions'[old].expiresAt = sessions[old].expiresAt
      /\ sessions'[old].revoked
      /\ IF IsRevoked(old) THEN sessions'[old] = sessions[old]
                           ELSE /\ sessions'[old].replacedBy = new
                                /\ locks[old] = r
  BY CommitEffect
<1>4. /\ sessions'[new].user = sessions[old].user
      /\ sessions'[new].replacedBy = None
      /\ sessions'[new].expiresAt < sessions[old].expiresAt + RefreshTTL
  <2>1. c.user = sessions[old].user /\ c.now < sessions[old].expiresAt
    BY <1>3 DEF RotationInv, TransactionsSound, InRotation
  <2>2. c.now \in Nat /\ sessions[old].expiresAt \in Nat /\ RefreshTTL \in Nat
    BY <1>1, <1>3, TTLAssumption DEF Call, TypeInv, TypeOK, Stored, Row
  <2> QED BY <1>3, <2>1, <2>2 DEF sessionParams
<1>5. \A x \in Sessions : parent'[x] = IF x = new THEN old ELSE parent[x]
  BY <1>1 DEF TypeInv, TypeOK
<1>6. \A x \in Stored : /\ x # new
                        /\ x \in Sessions
                        /\ sessions'[x].user = sessions[x].user
                        /\ sessions'[x].expiresAt = sessions[x].expiresAt
                        /\ IsRevoked(x) => sessions'[x] = sessions[x]
  BY <1>3 DEF TypeInv, TypeOK, Stored
<1>7. LinksSound'
  <2> SUFFICES ASSUME NEW s \in Stored', sessions'[s].replacedBy # None
               PROVE  /\ sessions'[s].replacedBy \in Stored'
                      /\ parent'[sessions'[s].replacedBy] = s
                      /\ sessions'[s].revoked
                      /\ sessions'[sessions'[s].replacedBy].user = sessions'[s].user
    BY DEF LinksSound, IsRevoked
  <2>1. CASE s = old /\ ~IsRevoked(old)
    BY <1>3, <1>4, <1>5, <2>1
  <2>2. CASE s \in Stored /\ ~(s = old /\ ~IsRevoked(old))
    <3>1. sessions'[s] = sessions[s]
      BY <1>3, <2>2
    <3>2. /\ sessions[s].replacedBy \in Stored
          /\ parent[sessions[s].replacedBy] = s
          /\ sessions[s].revoked
          /\ sessions[sessions[s].replacedBy].user = sessions[s].user
      BY <2>2, <3>1 DEF RotationInv, LinksSound, IsRevoked
    <3> QED BY <1>3, <1>5, <1>6, <3>1, <3>2
  <2> QED BY <1>3, <1>4, <2>1, <2>2
<1>8. SuccessorsSound'
  <2> SUFFICES ASSUME NEW t \in Stored', parent'[t] # None
               PROVE  /\ parent'[t] \in Stored'
                      /\ sessions'[parent'[t]].revoked
                      /\ sessions'[t].user = sessions'[parent'[t]].user
                      /\ sessions'[t].expiresAt
                           < sessions'[parent'[t]].expiresAt + RefreshTTL
    BY DEF SuccessorsSound, IsRevoked
  <2>1. CASE t = new
    BY <1>3, <1>4, <1>5, <2>1
  <2>2. CASE t \in Stored
    <3>1. parent'[t] = parent[t]
      BY <1>5, <1>6, <2>2
    <3>2. /\ parent[t] \in Stored
          /\ sessions[parent[t]].revoked
          /\ sessions[t].user = sessions[parent[t]].user
          /\ sessions[t].expiresAt < sessions[parent[t]].expiresAt + RefreshTTL
      BY <2>2, <3>1 DEF RotationInv, SuccessorsSound, IsRevoked
    <3> QED BY <1>3, <1>6, <2>2, <3>1, <3>2 DEF IsRevoked
  <2> QED BY <1>3, <2>1, <2>2
<1>9. ChainsEnd'
  <2> SUFFICES ASSUME NEW S \in SUBSET Stored', S # {}
               PROVE  \E x \in S : sessions'[x].replacedBy \notin S
    BY DEF ChainsEnd
  <2>1. CASE new \in S
    <3>1. None \notin S
      BY <1>3, NoneAssumption DEF TypeInv, TypeOK, Stored
    <3> QED BY <1>4, <2>1, <3>1
  <2>2. CASE new \notin S
    <3>1. PICK x \in S : sessions[x].replacedBy \notin S
      BY <1>3, <2>2 DEF RotationInv, ChainsEnd
    <3> QED BY <1>3, <2>2, <3>1
  <2> QED BY <2>1, <2>2
<1>10. Unborn'
  BY <1>3, <1>5 DEF RotationInv, Unborn
<1>11. LocksHeldByRotations'
  <2> SUFFICES ASSUME NEW s \in Sessions, locks'[s] # None
               PROVE  /\ s \in Stored' /\ ~sessions'[s].revoked
                      /\ pc'[locks'[s]] = "RotateCommit"
                      /\ call'[locks'[s]].token = s
                      /\ call'[locks'[s]].matched
    BY DEF LocksHeldByRotations, IsRevoked
  <2>1. locks'[s] = locks[s] /\ locks[s] # r /\ locks[s] \in Requests
    BY <1>1 DEF Released, TypeInv, TypeOK
  <2>2. /\ s \in Stored /\ ~IsRevoked(s)
        /\ pc[locks[s]] = "RotateCommit"
        /\ call[locks[s]].token = s
        /\ call[locks[s]].matched
    BY <2>1 DEF RotationInv, LocksHeldByRotations
  <2>3. s # old
    BY <1>3, <2>1, <2>2
  <2> QED BY <1>2, <1>3, <2>1, <2>2, <2>3 DEF IsRevoked
<1>12. TransactionsSound'
  <2> SUFFICES ASSUME NEW q \in Requests
               PROVE  LET e == call'[q] IN
        /\ pc'[q] \in InRotation \cup {"RevokeSession"} => e.token \in Stored'
        /\ pc'[q] \in InRotation => /\ e.user = sessions'[e.token].user
                                  /\ e.now < sessions'[e.token].expiresAt
        /\ pc'[q] \in {"RotateRevoke", "RotateCommit"} =>
             /\ e.new \in Sessions \ Stored'
             /\ \A p \in Requests \ {q} : call'[p].new # e.new
        /\ pc'[q] = "RotateCommit" => IF e.matched THEN locks'[e.token] = q
                                                  ELSE sessions'[e.token].revoked
    BY DEF TransactionsSound, IsRevoked
  <2>1. CASE q = r
    BY <1>2, <2>1 DEF InRotation
  <2>2. CASE q # r
    <3>1. pc'[q] = pc[q] /\ call'[q] = call[q]
      BY <1>2, <2>2
    <3>2. call[q].new # new
      BY <1>3, <2>2 DEF RotationInv, TransactionsSound
    <3>3. pc[q] \in {"RotateRevoke", "RotateCommit"} =>
             /\ call[q].new \in Sessions \ Stored'
             /\ \A p \in Requests \ {q} : call'[p].new # call[q].new
      BY <1>2, <1>3, <3>2 DEF RotationInv, TransactionsSound
    <3>4. pc[q] \in InRotation \cup {"RevokeSession"} => call[q].token \in Stored
      BY DEF RotationInv, TransactionsSound
    <3>5. pc[q] \in InRotation => /\ call[q].user = sessions'[call[q].token].user
                                  /\ call[q].now < sessions'[call[q].token].expiresAt
      BY <1>6, <3>4 DEF RotationInv, TransactionsSound
    <3>6. pc[q] = "RotateCommit" => IF call[q].matched THEN locks'[call[q].token] = q
                                                  ELSE sessions'[call[q].token].revoked
      <4> SUFFICES ASSUME pc[q] = "RotateCommit"
                   PROVE  IF call[q].matched THEN locks'[call[q].token] = q
                                             ELSE sessions'[call[q].token].revoked
        OBVIOUS
      <4>1. /\ call[q].token \in Stored /\ call[q].token \in Sessions
            /\ IF call[q].matched THEN locks[call[q].token] = q
                                  ELSE IsRevoked(call[q].token)
        BY <1>6, <3>4 DEF RotationInv, TransactionsSound, InRotation
      <4> QED BY <1>1, <1>6, <2>2, <4>1 DEF Released, IsRevoked
    <3> QED BY <1>3, <3>1, <3>3, <3>4, <3>5, <3>6
  <2> QED BY <2>1, <2>2
<1> QED BY <1>7, <1>8, <1>9, <1>10, <1>11, <1>12 DEF RotationInv

-----------------------------------------------------------------------------
(* The theorems *)

LEMMA RotationStep == TypeInv /\ RotationInv /\ [Next]_vars => RotationInv'
<1> SUFFICES ASSUME TypeInv, RotationInv, [Next]_vars PROVE RotationInv'
  OBVIOUS
<1>1. ASSUME NEW r \in Requests, Step(r) PROVE RotationInv'
  BY <1>1, AccountsKeep, StatementsKeep, LookupKeeps, RotateInsertKeeps,
     RotateRevokeKeeps, RevokeSessionKeeps, CreateSessionKeeps, RotateCommitKeeps
  DEF Step
<1> QED BY <1>1, ArrivalsKeep, AccountsKeep, FaultsKeep DEF Next

LEMMA RotationInit == Init => RotationInv
BY NoneAssumption
DEF Init, RotationInv, LinksSound, SuccessorsSound, ChainsEnd, LocksHeldByRotations,
    TransactionsSound, Unborn, Stored, InRotation

LEMMA RotationInvariant == Spec => [](TypeInv /\ RotationInv)
BY TypeInit, TypeStep, RotationInit, RotationStep, PTL DEF Spec

\* However rotations and logouts of the same row interleave, fail or are cut off
\* by a crash, replaced_by names a stored session of the same user that was made
\* by rotating the row, and the row is revoked.
THEOREM LinksAlwaysSound == Spec => []LinksSound
<1>1. RotationInv => LinksSound
  BY DEF RotationInv
<1> QED BY <1>1, RotationInvariant, PTL

\* No session comes out of a rotation of an expired token, of another user's, or
\* leaves its parent usable.
THEOREM SuccessorsAlwaysSound == Spec => []SuccessorsSound
<1>1. RotationInv => SuccessorsSound
  BY DEF RotationInv
<1> QED BY <1>1, RotationInvariant, PTL

\* The chain of replacements from any session ends: replaced_by has no cycle.
THEOREM ChainsAlwaysEnd == Spec => []ChainsEnd
<1>1. RotationInv => ChainsEnd
  BY DEF RotationInv
<1> QED BY <1>1, RotationInvariant, PTL

\* A row lock is only ever held by a transaction about to commit the revocation of
\* a live row: no failure leaves one behind.
THEOREM LocksAlwaysHeldByRotations == Spec => []LocksHeldByRotations
<1>1. RotationInv => LocksHeldByRotations
  BY DEF RotationInv
<1> QED BY <1>1, RotationInvariant, PTL

\* What a rotation read before its transaction stays true until it commits.
THEOREM TransactionsAlwaysSound == Spec => []TransactionsSound
<1>1. RotationInv => TransactionsSound
  BY DEF RotationInv
<1> QED BY <1>1, RotationInvariant, PTL

-----------------------------------------------------------------------------
(* What a step does to the table *)

\* The three ways in which a step changes the table.
RowRevoked(s) ==
    /\ s \in Stored /\ ~IsRevoked(s)
    /\ Stored' = Stored
    /\ sessions'[s].revoked
    /\ sessions'[s].user = sessions[s].user
    /\ sessions'[s].expiresAt = sessions[s].expiresAt
    /\ sessions'[s].replacedBy = sessions[s].replacedBy
    /\ \A x \in Stored \ {s} : sessions'[x] = sessions[x]
RowIssued(t) ==
    /\ t \in Sessions \ Stored
    /\ Stored' = Stored \cup {t}
    /\ sessions'[t].user \in Emails
    /\ ~sessions'[t].revoked
    /\ sessions'[t].replacedBy = None
    /\ \A x \in Stored : sessions'[x] = sessions[x]
RowReplaced(s, t) ==
    /\ s \in Stored /\ ~IsRevoked(s)
    /\ t \in Sessions \ Stored
    /\ Stored' = Stored \cup {t}
    /\ sessions'[s].revoked
    /\ sessions'[s].user = sessions[s].user
    /\ sessions'[s].expiresAt = sessions[s].expiresAt
    /\ sessions'[s].replacedBy = t
    /\ ~sessions'[t].revoked
    /\ sessions'[t].user = sessions[s].user
    /\ sessions'[t].replacedBy = None
    /\ \A x \in Stored \ {s} : sessions'[x] = sessions[x]
TableMoves ==
    \/ UNCHANGED sessions
    \/ \E s \in Sessions : RowRevoked(s) \/ RowIssued(s)
    \/ \E s, t \in Sessions : RowReplaced(s, t)

LEMMA StoredTyped == ASSUME TypeInv PROVE \A s \in Stored : s \in Sessions /\ sessions[s] \in Row
BY DEF TypeInv, TypeOK, Stored

LEMMA RevokeSessionMoves ==
    ASSUME TypeInv, RotationInv, NEW r \in Requests, RevokeSession(r)
    PROVE  TableMoves
<1> DEFINE s == call[r].token
<1>1. s \in Stored
  BY DEF RevokeSession, At, RotationInv, TransactionsSound
<1>2. CASE IsRevoked(s)
  BY <1>2 DEF RevokeSession, StillLive, TableMoves
<1>3. CASE ~IsRevoked(s)
  <2>1. sessions' = [sessions EXCEPT ![s].revoked = TRUE]
    BY <1>3 DEF RevokeSession, StillLive
  <2>2. sessions \in [DOMAIN sessions -> Row]
    BY DEF TypeInv, TypeOK
  <2> HIDE DEF s
  <2>3. RowRevoked(s)
    BY <1>1, <1>3, <2>1, <2>2, RevokeType DEF RowRevoked, Stored
  <2> QED BY <1>1, <2>3, StoredTyped DEF TableMoves
<1> QED BY <1>2, <1>3

LEMMA CreateSessionMoves ==
    ASSUME TypeInv, NEW r \in Requests, CreateSession(r)
    PROVE  TableMoves
<1> DEFINE c == call[r]
<1>1. PICK s \in Fresh : sessions' = Insert(sessions, s, sessionParams(c.user, c.now))
  <2>1. PICK s \in Fresh :
          LET d == [c EXCEPT !.new = s]
          IN sessions' = Insert(sessions, s, sessionParams(d.user, d.now))
    BY DEF CreateSession
  <2>2. [c EXCEPT !.new = s].user = c.user /\ [c EXCEPT !.new = s].now = c.now
    BY DEF TypeInv, TypeOK, Call
  <2> QED BY <2>1, <2>2
<1>2. c.user \in Emails
  BY DEF CreateSession, At, TypeInv, Ready, Fits, KnowsUser
<1>3. s \in Sessions \ Stored
  BY DEF Fresh
<1>4. RowIssued(s)
  BY <1>1, <1>2, <1>3 DEF RowIssued, Insert, sessionParams, Stored
<1> QED BY <1>3, <1>4 DEF TableMoves

LEMMA RotateCommitMoves ==
    ASSUME TypeInv, RotationInv, NEW r \in Requests, RotateCommit(r)
    PROVE  TableMoves
<1> DEFINE old == call[r].token
           new == call[r].new
<1>1. call[r].user = sessions[old].user
  BY DEF RotateCommit, At, RotationInv, TransactionsSound, InRotation
<1>2. old \in Stored /\ sessions[old].user \in Emails /\ old \in Sessions
  BY CommitEffect, StoredTyped DEF Row
<1>3. /\ sessions'[new].user = sessions[old].user
      /\ ~sessions'[new].revoked
      /\ sessions'[new].replacedBy = None
  <2>1. sessions'[new] = sessionParams(call[r].user, call[r].now)
    BY CommitEffect
  <2> QED BY <1>1, <2>1 DEF sessionParams
<1>4. CASE IsRevoked(old)
  <2>1. RowIssued(new)
    BY <1>2, <1>3, <1>4, CommitEffect DEF RowIssued
  <2> QED BY <2>1 DEF TableMoves, RowIssued
<1>5. CASE ~IsRevoked(old)
  <2>1. RowReplaced(old, new)
    BY <1>2, <1>3, <1>5, CommitEffect DEF RowReplaced
  <2> QED BY <1>2, <2>1 DEF TableMoves, RowReplaced
<1> QED BY <1>4, <1>5

LEMMA TableStep == TypeInv /\ RotationInv /\ [Next]_vars => TableMoves
<1> SUFFICES ASSUME TypeInv, RotationInv, [Next]_vars PROVE TableMoves
  OBVIOUS
<1>1. ASSUME NEW r \in Requests, Step(r) PROVE TableMoves
  <2>1. UNCHANGED sessions \/ CreateSession(r) \/ RevokeSession(r) \/ RotateCommit(r)
    BY <1>1
    DEF Step, CreateUser, CredentialsByEmail, RecordLoginAttempt, WriteAudit,
        SessionByHash, UserByID, RotateInsert, RotateRevoke, Respond, db
  <2> QED BY <2>1, CreateSessionMoves, RevokeSessionMoves, RotateCommitMoves
          DEF TableMoves
<1>2. \/ UNCHANGED sessions
      \/ \E r \in Requests : Step(r)
  BY Zenon DEF Next, Register, Login, Refresh, Logout, Authenticate, Arrives, Fail, SetActive,
         Crash, Tick, vars, db
<1> QED BY <1>1, <1>2 DEF TableMoves

-----------------------------------------------------------------------------
(* The table as a store *)

\* A row whose revoked_at is set is never written again, and no row is deleted,
\* however many rotations and logouts of it are still under way.
THEOREM RevokedRowsStayFrozen == Spec => RevokedRowsFrozen
<1>1. TypeInv /\ RotationInv /\ [Next]_vars =>
        [\A s \in Stored : s \in Stored' /\ (IsRevoked(s) => sessions'[s] = sessions[s])]_vars
  <2> SUFFICES ASSUME TypeInv, RotationInv, [Next]_vars, NEW s \in Stored
               PROVE  s \in Stored' /\ (IsRevoked(s) => sessions'[s] = sessions[s])
    OBVIOUS
  <2>1. TableMoves
    BY TableStep
  <2> QED BY <2>1 DEF TableMoves, RowRevoked, RowIssued, RowReplaced, Stored
<1> QED BY <1>1, RotationInvariant, PTL DEF Spec, RevokedRowsFrozen

\* The table, written by requests that interleave statement by statement and by
\* transactions that block, fail and roll back, behaves like the store whose
\* rotation is one atomic step.
THEOREM TableImplementsStore == Spec => ImplementsStore
<1> DEFINE st == [s \in Sessions |-> IF s \notin Stored THEN "absent"
                                    ELSE IF IsRevoked(s) THEN "revoked" ELSE "live"]
           ho == [s \in Sessions |-> IF s \in Stored THEN sessions[s].user ELSE None]
           su == [s \in Sessions |-> IF s \in Stored THEN sessions[s].replacedBy ELSE None]
<1>1. Init => Store!Init
  BY DEF Init, Store!Init, Stored
<1>2. TypeInv /\ RotationInv /\ [Next]_vars => [Store!Next]_(Store!vars)
  <2> SUFFICES ASSUME TypeInv, RotationInv, TableMoves
               PROVE  Store!Next \/ UNCHANGED Store!vars
    BY TableStep
  <2>1. CASE UNCHANGED sessions
    BY <2>1 DEF Store!vars, Stored, IsRevoked
  <2>2. ASSUME NEW s \in Sessions, RowRevoked(s) PROVE Store!Next
    <3>1. st[s] = "live"
      BY <2>2 DEF RowRevoked
    <3>2. st' = [st EXCEPT ![s] = "revoked"]
      BY <2>2 DEF RowRevoked, IsRevoked
    <3>3. ho' = ho /\ su' = su
      BY <2>2 DEF RowRevoked
    <3> QED BY <3>1, <3>2, <3>3 DEF Store!Next, Store!Revoke
  <2>3. ASSUME NEW t \in Sessions, RowIssued(t) PROVE Store!Next
    <3>1. st[t] = "absent"
      BY <2>3 DEF RowIssued
    <3>2. st' = [st EXCEPT ![t] = "live"]
      BY <2>3 DEF RowIssued, IsRevoked
    <3>3. ho' = [ho EXCEPT ![t] = sessions'[t].user] /\ su' = su
      BY <2>3 DEF RowIssued
    <3>4. sessions'[t].user \in Emails
      BY <2>3 DEF RowIssued
    <3> QED BY <3>1, <3>2, <3>3, <3>4 DEF Store!Next, Store!Issue
  <2>4. ASSUME NEW s \in Sessions, NEW t \in Sessions, RowReplaced(s, t) PROVE Store!Next
    <3>1. st[s] = "live" /\ st[t] = "absent"
      BY <2>4 DEF RowReplaced
    <3>2. st' = [st EXCEPT ![s] = "revoked", ![t] = "live"]
      BY <2>4 DEF RowReplaced, IsRevoked
    <3>3. /\ ho' = [ho EXCEPT ![t] = ho[s]]
          /\ su' = [su EXCEPT ![s] = t]
      BY <2>4 DEF RowReplaced
    <3> QED BY <3>1, <3>2, <3>3 DEF Store!Next, Store!Rotate
  <2> QED BY <2>1, <2>2, <2>3, <2>4 DEF TableMoves
<1> QED BY <1>1, <1>2, RotationInvariant, PTL DEF Spec, ImplementsStore, Store!Spec

=============================================================================
