---------------------------- MODULE AuthSessions ----------------------------
(***************************************************************************)
(* internal/auth: accounts, access tokens and rotating refresh sessions.   *)
(*                                                                         *)
(* Every HTTP request is served by its own goroutine and talks to Postgres *)
(* one statement at a time, so a request is a process whose pc names the   *)
(* statement it executes next; requests interleave between statements.     *)
(* Only RotateSession runs several statements in one transaction: its      *)
(* INSERT is invisible until the commit, and its UPDATE holds a row lock   *)
(* until then.  What the code computes between two statements belongs to   *)
(* the statement before.                                                   *)
(*                                                                         *)
(* A session row and the refresh token whose hash it stores share one      *)
(* identifier (token_hash is UNIQUE, tokens are 256 random bits).  The     *)
(* audit_logs and login_attempts tables are write-only for the service:    *)
(* what a request wrote to them is kept with the request.                  *)
(***************************************************************************)
EXTENDS Naturals, FiniteSets

CONSTANTS
    Emails,      \* normalised addresses; users.email is UNIQUE, so also user ids
    RawEmails,   \* addresses as clients spell them
    Normal,      \* [RawEmails -> Emails \cup {None}], the graph of normalizeEmail
    Sessions,    \* refresh_sessions.id, in bijection with the refresh tokens
    Requests,    \* request slots: at most Cardinality(Requests) run at once
    RefreshTTL,  \* REFRESH_TOKEN_TTL, in clock units
    AccessTTL,   \* ACCESS_TOKEN_TTL, in clock units
    MaxClock,    \* bound: the clock stops here
    Operations,  \* the endpoints clients call in this instance
    Events,      \* what else happens in this instance: faults, the operator
    Seeded,      \* accounts that exist, active, in the initial state
    None         \* SQL NULL, no user, no session, the blank address

Ops == {"register", "login", "refresh", "logout", "me"}
EventKinds == {"dbError", "crash", "lostResponse", "operator"}
Passwords == {"blank", "short", "wrong", "right", "tooLong"}

ASSUME NoneAssumption == None \notin Emails \cup Sessions \cup Requests
ASSUME NormalAssumption == Normal \in [RawEmails -> Emails \cup {None}]
ASSUME TTLAssumption == RefreshTTL \in Nat \ {0} /\ AccessTTL \in Nat \ {0}
ASSUME ClockAssumption == MaxClock \in Nat
ASSUME InstanceAssumption ==
    Operations \subseteq Ops /\ Events \subseteq EventKinds /\ Seeded \subseteq Emails

VARIABLES
    clock,        \* time.Now(), one clock for every request
    users,        \* users table: "absent", "active" or "inactive" per email
    sessions,     \* refresh_sessions table: its DOMAIN is the set of stored rows
    locks,        \* the request whose open transaction locks the row, or None
    pc,           \* the statement a request executes next
    call,         \* what the request carries: inputs, locals, outcome
    \* History: what clients hold, and how each row came to be.
    cookies,      \* refresh tokens that reached a client
    loggedOut,    \* tokens whose logout was answered 200
    accessUntil,  \* latest expiry of an access token a client holds, per user
    parent        \* the session a row was rotated from, None for a login

db == <<users, sessions, locks, parent>>
clients == <<cookies, loggedOut, accessUntil>>
vars == <<clock, db, pc, call, clients>>

Statements == {"CreateUser", "CredentialsByEmail", "CreateSession",
               "RecordLoginAttempt", "WriteAudit", "SessionByHash",
               "RotateInsert", "RotateRevoke", "RotateCommit",
               "RevokeSession", "UserByID"}
Labels == Statements \cup {"idle", "answer"}
Statuses == {0, 200, 201, 400, 401, 403, 409, 500}   \* 0: not decided yet

Row == [user: Emails, expiresAt: Nat, revoked: BOOLEAN,
        replacedBy: Sessions \cup {None}]

\* token: the session presented (None when it is unknown); new: the row this
\* request creates; matched: RotateRevoke's UPDATE hit the row.  History: stale,
\* the token was unusable when the request arrived; seenActive, the account has
\* been active at some moment of the request.
Call == [op: Ops \cup {"none"}, user: Emails \cup {None}, password: Passwords,
         token: Sessions \cup {None}, now: Nat, new: Sessions \cup {None},
         matched: BOOLEAN, status: Statuses, audited: BOOLEAN,
         attempt: {"none", "success", "failure", "failedToRecord"},
         stale: BOOLEAN, seenActive: BOOLEAN]

NoCall == [op |-> "none", user |-> None, password |-> "blank", token |-> None,
           now |-> 0, new |-> None, matched |-> FALSE, status |-> 0,
           audited |-> FALSE, attempt |-> "none", stale |-> FALSE,
           seenActive |-> FALSE]

TypeOK ==
    /\ clock \in Nat
    /\ users \in [Emails -> {"absent", "active", "inactive"}]
    /\ DOMAIN sessions \subseteq Sessions
    /\ sessions \in [DOMAIN sessions -> Row]
    /\ locks \in [Sessions -> Requests \cup {None}]
    /\ pc \in [Requests -> Labels]
    /\ call \in [Requests -> Call]
    /\ cookies \subseteq Sessions
    /\ loggedOut \subseteq Sessions
    /\ accessUntil \in [Emails -> Nat]
    /\ parent \in [Sessions -> Sessions \cup {None}]

Init ==
    /\ clock = 0
    /\ users = [e \in Emails |-> IF e \in Seeded THEN "active" ELSE "absent"]
    /\ sessions = [s \in {} |-> NoCall]
    /\ locks = [s \in Sessions |-> None]
    /\ pc = [r \in Requests |-> "idle"]
    /\ call = [r \in Requests |-> NoCall]
    /\ cookies = {}
    /\ loggedOut = {}
    /\ accessUntil = [e \in Emails |-> 0]
    /\ parent = [s \in Sessions |-> None]

-----------------------------------------------------------------------------
(* Helpers *)

Stored == DOMAIN sessions

IsRevoked(s) == sessions[s].revoked

\* Mutants of Usable: revocation is not looked at; the boundary is accepted.
UsableIfRevoked(s, t) == s \in Stored /\ sessions[s].expiresAt > t
UsableAtExpiry(s, t) == s \in Stored /\ ~IsRevoked(s) /\ sessions[s].expiresAt >= t

\* Refresh accepts the session at instant t: known, not revoked, not expired.
Usable(s, t) == s \in Stored /\ ~IsRevoked(s) /\ sessions[s].expiresAt > t

\* Mutant of sessionParams: the user is left out.
sessionParamsNoUser(u, now) ==
    [user |-> None, expiresAt |-> now + RefreshTTL, revoked |-> FALSE, replacedBy |-> None]

sessionParams(u, now) ==
    [user |-> u, expiresAt |-> now + RefreshTTL, revoked |-> FALSE, replacedBy |-> None]

\* Mutant of StillLive: the WHERE clause selects by id only.
EveryRow(s) == TRUE

\* The WHERE clause of the two revoking UPDATEs.
StillLive(s) == ~IsRevoked(s)

\* Mutant of RevokeAndReplace: the row names itself.
ReplaceBySelf(table, old, new) ==
    [table EXCEPT ![old].revoked = TRUE, ![old].replacedBy = old]

RevokeAndReplace(table, old, new) ==
    [table EXCEPT ![old].revoked = TRUE, ![old].replacedBy = new]

\* The table with row s inserted.
Insert(table, s, row) ==
    [x \in DOMAIN table \cup {s} |-> IF x = s THEN row ELSE table[x]]

\* gen_random_uuid and generateRefreshToken: an identifier no row and no open
\* transaction uses.
Fresh == Sessions \ (Stored \cup {call[r].new : r \in Requests})

\* Bound: a request that may insert a row is admitted while an identifier is
\* left for it.
Room == Cardinality(Sessions \ Stored) >
        Cardinality({r \in Requests : call[r].op \in {"login", "refresh"}})

normalizeEmail(raw) == Normal[raw]

\* Mutant of IsActive: any account will do.
IsKnown(u) == users[u] # "absent"

IsActive(u) == users[u] = "active"

\* Mutant of MintAccessToken: stamped when the response is written.
MintLate(c) == clock + AccessTTL

\* A verified bearer token: minted for u and not expired yet.
VerifyAccessToken(u) == u # None /\ clock < accessUntil[u]

\* The expiry of the access token: the instant the session was made at counts.
MintAccessToken(c) == c.now + AccessTTL

\* TRUE: the statement's result reaches the service.  FALSE: the statement took
\* effect but the service sees an error (connection lost before the reply).
Acked == IF "dbError" \in Events THEN BOOLEAN ELSE {TRUE}

\* The request goes on at a label carrying c, or has its outcome decided.
Goto(r, c, label) ==
    /\ pc' = [pc EXCEPT ![r] = label]
    /\ call' = [call EXCEPT ![r] = c]
Answer(r, c, status) == Goto(r, [c EXCEPT !.status = status], "answer")

\* History: the token is revoked, expired or unknown; the account is active.
Stale(s) == s \notin Stored \/ IsRevoked(s) \/ sessions[s].expiresAt <= clock
InForce(u) == users[u] = "active"

\* History: account u has become active while these requests were running.
Witness(calls, u) ==
    [r \in Requests |-> IF calls[r].user = u THEN [calls[r] EXCEPT !.seenActive = TRUE]
                                             ELSE calls[r]]

-----------------------------------------------------------------------------
(* Arrival: the handler decodes the request and validates it before the     *)
(* first statement.                                                         *)

Arrives(r, op) ==
    /\ pc[r] = "idle"
    /\ op \in Operations
    /\ UNCHANGED <<clock, db, clients>>

Register(r) ==
    /\ Arrives(r, "register")
    /\ \E raw \in RawEmails, pw \in Passwords \ {"wrong"} :
         LET email == normalizeEmail(raw)
             c == [NoCall EXCEPT !.op = "register", !.user = email, !.password = pw]
         IN \/ (email = None \/ pw \in {"blank", "short"}) /\ Answer(r, c, 400)
            \/ email # None /\ pw = "tooLong" /\ Answer(r, c, 500)  \* bcrypt refuses
            \/ email # None /\ pw = "right" /\ Goto(r, c, "CreateUser")

Login(r) ==
    /\ Arrives(r, "login")
    /\ Room
    /\ \E raw \in RawEmails, pw \in {"blank", "wrong", "right"} :
         LET email == normalizeEmail(raw)
             c == [NoCall EXCEPT !.op = "login", !.user = email, !.password = pw]
         IN \/ (email = None \/ pw = "blank") /\ Answer(r, c, 400)
            \/ /\ email # None /\ pw # "blank"
               /\ Goto(r, [c EXCEPT !.seenActive = InForce(email)],
                       "CredentialsByEmail")

\* The cookie is absent (or blank), unknown to the server, or one the server
\* handed out.
Refresh(r) ==
    /\ Arrives(r, "refresh")
    /\ LET c == [NoCall EXCEPT !.op = "refresh", !.now = clock] IN
       \/ Answer(r, c, 401)
       \/ /\ Room
          /\ \E s \in cookies \cup {None} :
               Goto(r, [c EXCEPT !.token = s, !.stale = Stale(s)], "SessionByHash")

Logout(r) ==
    /\ Arrives(r, "logout")
    /\ LET c == [NoCall EXCEPT !.op = "logout"] IN
       \/ Answer(r, c, 200)
       \/ \E s \in cookies \cup {None} : Goto(r, [c EXCEPT !.token = s], "SessionByHash")

\* Middleware and Authenticate: the bearer token is missing, forged or of
\* another type (user None), or was minted for u; VerifyAccessToken rejects it
\* from its expiry on.  Presenting the latest token minted for u stands for all.
Authenticate(r) ==
    /\ Arrives(r, "me")
    /\ \E u \in Emails \cup {None} :
         LET c == [NoCall EXCEPT !.op = "me", !.user = u]
         IN \/ ~VerifyAccessToken(u) /\ Answer(r, c, 401)
            \/ /\ VerifyAccessToken(u)
               /\ Goto(r, [c EXCEPT !.seenActive = InForce(u)], "UserByID")

-----------------------------------------------------------------------------
(* Statements outside transactions *)

At(r, label) == pc[r] = label /\ UNCHANGED <<clock, clients>>

CreateUser(r) ==
    /\ At(r, "CreateUser")
    /\ \/ /\ users[call[r].user] # "absent"      \* unique violation
          /\ Answer(r, call[r], 409)
          /\ UNCHANGED db
       \/ /\ users[call[r].user] = "absent"
          /\ users' = [users EXCEPT ![call[r].user] = "active"]
          /\ \E ok \in Acked :
               LET c == [call[r] EXCEPT !.status = IF ok THEN 0 ELSE 500]
               IN /\ pc' = [pc EXCEPT ![r] = IF ok THEN "WriteAudit" ELSE "answer"]
                  /\ call' = Witness([call EXCEPT ![r] = c], c.user)
          /\ UNCHANGED <<sessions, locks, parent>>

\* GetUserByEmail, then the password comparison and the is_active check on the
\* row just read; a refusal is decided here and recorded by the next statement.
CredentialsByEmail(r) ==
    /\ At(r, "CredentialsByEmail")
    /\ LET c == call[r]
           Refuse(status) == Goto(r, [c EXCEPT !.status = status], "RecordLoginAttempt")
           known == users[c.user] # "absent" /\ c.password = "right"
       IN \/ ~known /\ Refuse(401)
          \/ known /\ ~IsActive(c.user) /\ Refuse(403)
          \/ /\ known /\ IsActive(c.user)
             /\ Goto(r, [c EXCEPT !.now = clock], "CreateSession")
    /\ UNCHANGED db

CreateSession(r) ==
    /\ At(r, "CreateSession")
    /\ \E s \in Fresh, ok \in Acked :
         LET c == [call[r] EXCEPT !.new = s] IN
         /\ sessions' = Insert(sessions, s, sessionParams(c.user, c.now))
         /\ IF ok THEN Goto(r, c, "RecordLoginAttempt") ELSE Answer(r, c, 500)
    /\ UNCHANGED <<users, locks, parent>>

\* A failure to record is logged and swallowed, here and in WriteAudit.
RecordLoginAttempt(r) ==
    /\ At(r, "RecordLoginAttempt")
    /\ \E ok \in Acked :
         LET success == call[r].status = 0
             outcome == IF success THEN "success" ELSE "failure"
         IN Goto(r, [call[r] EXCEPT !.attempt = IF ok THEN outcome ELSE "failedToRecord"],
                 IF success THEN "WriteAudit" ELSE "answer")
    /\ UNCHANGED db

\* The last statement of every successful request; buildResult follows it.
WriteAudit(r) ==
    /\ At(r, "WriteAudit")
    /\ \E ok \in Acked :
         Answer(r, [call[r] EXCEPT !.audited = ok],
                IF call[r].op = "register" THEN 201 ELSE 200)
    /\ UNCHANGED db

\* The lookup of Refresh and Logout.  Refresh compares the row it read with the
\* instant at which the request arrived.
SessionByHash(r) ==
    /\ At(r, "SessionByHash")
    /\ LET c == call[r]
           s == c.token
           found == s \in Stored
           d == [c EXCEPT !.user = sessions[s].user]
       IN \/ ~found /\ Answer(r, c, IF c.op = "logout" THEN 200 ELSE 401)
          \/ found /\ c.op = "logout" /\ Goto(r, d, "RevokeSession")
          \/ found /\ c.op = "refresh" /\ ~Usable(s, c.now) /\ Answer(r, c, 401)
          \/ found /\ c.op = "refresh" /\ Usable(s, c.now) /\ Goto(r, d, "RotateInsert")
    /\ UNCHANGED db

\* UPDATE ... WHERE id = $1 AND revoked_at IS NULL: waits for a row lock.
RevokeSession(r) ==
    /\ At(r, "RevokeSession")
    /\ LET s == call[r].token
       IN /\ locks[s] = None
          /\ sessions' = IF StillLive(s) THEN [sessions EXCEPT ![s].revoked = TRUE]
                                         ELSE sessions
    /\ \E ok \in Acked : IF ok THEN Goto(r, call[r], "WriteAudit")
                               ELSE Answer(r, call[r], 500)
    /\ UNCHANGED <<users, locks, parent>>

UserByID(r) ==
    /\ At(r, "UserByID")
    /\ Answer(r, call[r], IF IsActive(call[r].user) THEN 200 ELSE 401)
    /\ UNCHANGED db

-----------------------------------------------------------------------------
(* RotateSession: one transaction *)

\* CreateRefreshSession: nobody else sees the row before the commit.
RotateInsert(r) ==
    /\ At(r, "RotateInsert")
    /\ \E s \in Fresh : Goto(r, [call[r] EXCEPT !.new = s], "RotateRevoke")
    /\ UNCHANGED db

\* Mutant of RotateRevoke: the UPDATE goes to the pool, not to the transaction.
RotateRevokeOutside(r) ==
    /\ At(r, "RotateRevoke")
    /\ locks[call[r].token] = None
    /\ sessions' = IF StillLive(call[r].token)
                   THEN RevokeAndReplace(sessions, call[r].token, call[r].new) ELSE sessions
    /\ Goto(r, call[r], "RotateCommit")
    /\ UNCHANGED <<users, locks, parent>>

\* RevokeAndReplaceRefreshSession: waits while another transaction holds the
\* row, then locks it if revoked_at is still NULL.  The number of rows updated
\* is not looked at.
RotateRevoke(r) ==
    /\ At(r, "RotateRevoke")
    /\ LET s == call[r].token
           hit == StillLive(s)
       IN /\ locks[s] = None
          /\ locks' = IF hit THEN [locks EXCEPT ![s] = r] ELSE locks
          /\ Goto(r, [call[r] EXCEPT !.matched = hit], "RotateCommit")
    /\ UNCHANGED <<users, sessions, parent>>

\* The row locks left when the transaction of r ends.
Released(r) == [s \in Sessions |-> IF locks[s] = r THEN None ELSE locks[s]]

\* Both writes become visible and the lock is released.
RotateCommit(r) ==
    /\ At(r, "RotateCommit")
    /\ LET c == call[r]
           linked == IF c.matched THEN RevokeAndReplace(sessions, c.token, c.new)
                                  ELSE sessions
       IN /\ sessions' = Insert(linked, c.new, sessionParams(c.user, c.now))
          /\ parent' = [parent EXCEPT ![c.new] = c.token]
          /\ \E ok \in Acked : IF ok THEN Goto(r, c, "WriteAudit") ELSE Answer(r, c, 500)
    /\ locks' = Released(r)
    /\ UNCHANGED users

-----------------------------------------------------------------------------
(* Faults, answers and the environment *)

\* Mutant of Rollback: the transaction of a failed RotateSession stays open.
NoRollback(r) == UNCHANGED locks

\* The deferred Rollback of RotateSession.
Rollback(r) == locks' = Released(r)

\* Mutant of ErrorStatus: logout never fails.
ErrorStatusUnlessLogout(c) == IF c.op = "logout" THEN 200 ELSE 500

ErrorStatus(c) == 500

\* Mutant of Fail: the error of a write is ignored.
FailWritesIgnored(r) ==
    /\ "dbError" \in Events
    /\ pc[r] \in {"CreateUser", "CreateSession", "RotateCommit", "RevokeSession"}
    /\ Goto(r, call[r], "WriteAudit")
    /\ Rollback(r)
    /\ UNCHANGED <<clock, users, sessions, parent, clients>>

\* A statement fails without effect.  RecordLoginAttempt and WriteAudit never
\* fail a request; a failure inside RotateSession rolls the transaction back.
Fail(r) ==
    /\ "dbError" \in Events
    /\ pc[r] \in Statements \ {"RecordLoginAttempt", "WriteAudit"}
    /\ Answer(r, [call[r] EXCEPT !.new = None, !.matched = FALSE], ErrorStatus(call[r]))
    /\ Rollback(r)
    /\ UNCHANGED <<clock, users, sessions, parent, clients>>

\* The handler writes the response; the client receives it or is gone.
\* MintAccessToken stamps the token with the instant the session was made at.
Respond(r) ==
    /\ pc[r] = "answer"
    /\ LET c == call[r]
           granted == c.status = 200 /\ c.op \in {"login", "refresh"}
           expiry == MintAccessToken(c)
       IN \E received \in IF "lostResponse" \in Events THEN BOOLEAN ELSE {TRUE} :
            /\ cookies' = IF received /\ granted THEN cookies \cup {c.new} ELSE cookies
            /\ accessUntil' = IF received /\ granted /\ expiry > accessUntil[c.user]
                              THEN [accessUntil EXCEPT ![c.user] = expiry]
                              ELSE accessUntil
            /\ loggedOut' = IF received /\ c.op = "logout" /\ c.status = 200 /\ c.token # None
                            THEN loggedOut \cup {c.token}
                            ELSE loggedOut
    /\ Goto(r, NoCall, "idle")
    /\ UNCHANGED <<clock, db>>

\* The process dies; Postgres rolls open transactions back.
Crash ==
    /\ "crash" \in Events
    /\ \E r \in Requests : pc[r] # "idle"
    /\ pc' = [r \in Requests |-> "idle"]
    /\ call' = [r \in Requests |-> NoCall]
    /\ locks' = [s \in Sessions |-> None]
    /\ UNCHANGED <<clock, users, sessions, parent, clients>>

Tick ==
    /\ clock < MaxClock
    /\ clock' = clock + 1
    /\ UNCHANGED <<db, pc, call, clients>>

\* An operator flips users.is_active; no code of the service writes it.
SetActive(u) ==
    /\ "operator" \in Events
    /\ users[u] # "absent"
    /\ users' = [users EXCEPT ![u] = IF @ = "active" THEN "inactive" ELSE "active"]
    /\ call' = IF users[u] = "inactive" THEN Witness(call, u) ELSE call
    /\ UNCHANGED <<clock, sessions, locks, parent, pc, clients>>

\* What a request does next when nothing fails.
Step(r) ==
    \/ CreateUser(r) \/ CredentialsByEmail(r) \/ CreateSession(r)
    \/ RecordLoginAttempt(r) \/ WriteAudit(r) \/ SessionByHash(r)
    \/ RevokeSession(r) \/ UserByID(r)
    \/ RotateInsert(r) \/ RotateRevoke(r) \/ RotateCommit(r)
    \/ Respond(r)

Next ==
    \/ \E r \in Requests :
         \/ Register(r) \/ Login(r) \/ Refresh(r) \/ Logout(r) \/ Authenticate(r)
         \/ Step(r) \/ Fail(r)
    \/ \E u \in Emails : SetActive(u)
    \/ Crash
    \/ Tick

Spec == Init /\ [][Next]_vars

\* Goroutines are scheduled; Postgres queues the waiters of a row lock.
Fairness ==
    \A r \in Requests : WF_vars(Step(r)) /\ SF_vars(RotateRevoke(r)) /\ SF_vars(RevokeSession(r))

FairSpec == Spec /\ Fairness

-----------------------------------------------------------------------------
(* Properties *)

\* Rotation keeps the books straight whoever else rotates or revokes the same
\* row: a session replaced by another is revoked, its replacement is a stored
\* row of the same user, and was made by rotating it (RotateSession writes both
\* rows in one transaction).
LinksSound ==
    \A s \in Stored :
        LET t == sessions[s].replacedBy IN
        t # None => /\ t \in Stored
                    /\ parent[t] = s
                    /\ IsRevoked(s)
                    /\ sessions[t].user = sessions[s].user

\* A session that came out of a rotation was made while its parent had not
\* expired (Refresh compares before the transaction, with the instant the
\* request arrived at), belongs to the parent's user, and left the parent
\* revoked, even when another transaction revoked it first.
SuccessorsSound ==
    \A t \in Stored :
        LET s == parent[t] IN
        s # None => /\ s \in Stored
                    /\ IsRevoked(s)
                    /\ sessions[t].user = sessions[s].user
                    /\ sessions[t].expiresAt < sessions[s].expiresAt + RefreshTTL

\* Following replaced_by from any session comes to an end: no set of sessions
\* is closed under it ("an auditable chain", the add-user-auth design).
ChainsEnd ==
    \A S \in SUBSET Stored :
        S # {} => \E s \in S : sessions[s].replacedBy \notin S

\* Rows are never deleted, and once revoked_at is set nothing about the row
\* changes any more: a late rotation neither relinks a row somebody else rotated
\* nor claims one that a logout revoked.
RevokedRowsFrozen ==
    [][\A s \in Stored : s \in Stored' /\ (IsRevoked(s) => sessions'[s] = sessions[s])]_vars

\* A refresh token that was already revoked, expired or unknown when the request
\* carrying it arrived never yields a session, not even inside the transaction.
StaleTokenNeverRotates == \A r \in Requests : call[r].stale => call[r].new = None

\* A row lock belongs to a transaction that is about to commit the revocation
\* of a row still live: every failure path of RotateSession gives it back.
LocksHeldByRotations ==
    \A s \in Sessions : locks[s] # None =>
        /\ s \in Stored /\ ~IsRevoked(s)
        /\ pc[locks[s]] = "RotateCommit"
        /\ call[locks[s]].token = s
        /\ call[locks[s]].matched

\* What a rotation read before its transaction is still true inside it, however
\* long it waited: its session is stored, was not expired at the instant the
\* request arrived at, and belongs to the user; the new row is nobody else's; and
\* when it commits it either holds the row lock or somebody has revoked the row.
InRotation == {"RotateInsert", "RotateRevoke", "RotateCommit"}
TransactionsSound ==
    \A r \in Requests :
        LET c == call[r] IN
        /\ pc[r] \in InRotation \cup {"RevokeSession"} => c.token \in Stored
        /\ pc[r] \in InRotation => /\ c.user = sessions[c.token].user
                                  /\ c.now < sessions[c.token].expiresAt
        /\ pc[r] \in {"RotateRevoke", "RotateCommit"} =>
             /\ c.new \in Sessions \ Stored
             /\ \A q \in Requests \ {r} : call[q].new # c.new
        /\ pc[r] = "RotateCommit" => IF c.matched THEN locks[c.token] = r
                                                  ELSE IsRevoked(c.token)

\* What the login_attempts and audit_logs rows of a request say has happened:
\* the session they report is committed, the logout's session is revoked.
RecordsAreTrue ==
    \A r \in Requests :
        LET c == call[r] IN
        /\ c.attempt = "success" => c.new \in Stored
        /\ c.audited /\ c.op \in {"login", "refresh"} => c.new \in Stored
        /\ c.audited /\ c.op = "logout" => IsRevoked(c.token)
        /\ c.audited /\ c.op = "register" => users[c.user] # "absent"

\* A token a client holds was committed before it was sent, and the access token
\* that goes with it stems from a stored session of the same user, issued at the
\* same instant (exp = iat + ACCESS_TOKEN_TTL).
GrantsAreBacked ==
    /\ cookies \subseteq Stored
    /\ \A u \in Emails : accessUntil[u] # 0 =>
         \E s \in Stored : /\ sessions[s].user = u
                           /\ sessions[s].expiresAt + AccessTTL = accessUntil[u] + RefreshTTL

\* Once a client has been told that it is logged out, its refresh token is
\* revoked, also when a rotation of it was under way and then failed.
LoggedOutIsRevoked == \A s \in loggedOut : s \in Stored /\ IsRevoked(s)

\* An account that was inactive during the whole of a login or of an
\* authenticated request is not let in, whatever tokens it still holds.
InactiveShutOut ==
    \A r \in Requests :
        call[r].op \in {"login", "me"} /\ call[r].status = 200 => call[r].seenActive

\* The table, with its transactions and row locks, implements the lifecycle that
\* SessionStore promises: RotateSession looks atomic to everybody else.
Store == INSTANCE SessionStore WITH
    Users <- Emails,
    state <- [s \in Sessions |-> IF s \notin Stored THEN "absent"
                                ELSE IF IsRevoked(s) THEN "revoked" ELSE "live"],
    holder <- [s \in Sessions |-> IF s \in Stored THEN sessions[s].user ELSE None],
    successor <- [s \in Sessions |-> IF s \in Stored THEN sessions[s].replacedBy ELSE None]
ImplementsStore == Store!Spec

\* Every request comes to an end: no wait for a row lock lasts forever.
Answered == \A r \in Requests : pc[r] # "idle" ~> pc[r] = "idle"

-----------------------------------------------------------------------------
(* What the documents claim of the service *)

\* "Logout works by revoking the refresh session so no new access token can be
\* minted": once the logout has been answered, the token yields no new session.
NoSessionAfterLogout ==
    [][\A t \in Stored' \ Stored : parent'[t] \notin loggedOut]_vars

=============================================================================
