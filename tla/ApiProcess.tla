----------------------------- MODULE ApiProcess -----------------------------
(***************************************************************************)
(* cmd/api and internal/app: processes of the API that open a pool of      *)
(* connections to Postgres and a Redis client, serve requests behind the   *)
(* rate limiters of internal/ratelimit, and drain, close and exit on a     *)
(* signal.  Processes share Redis, which counts the hits of every client.  *)
(*                                                                         *)
(* What a handler does is here a number of statements, each of which takes *)
(* a connection and gives it back; AuthSessions and SafeRoutes say more.   *)
(***************************************************************************)
EXTENDS Integers, Sequences, FiniteSets

CONSTANTS
    Procs,        \* processes
    Configs,      \* the environments a process may be started with
    Requests,     \* slots: requests under way at the same time
    Clients,      \* addresses
    Limit,        \* [endpoint -> requests per window], one prefix each
    Authenticated,\* endpoints behind the auth middleware
    Statements,   \* [endpoint -> statements of its handler]
    MaxConns,     \* of a pool
    Window,       \* the period of a rate, in ticks
    Events,       \* what may go wrong: redis, postgres, listener
    None,         \* no value
    MaxClock,     \* bound: ticks
    MaxArrivals   \* bound: requests

Endpoints == DOMAIN Limit
Keys == Endpoints \X Clients
Config == [weakSecret: BOOLEAN, development: BOOLEAN, redis: BOOLEAN,
           rateLimit: BOOLEAN, routeCache: BOOLEAN]

ASSUME ConfigAssumption == Configs \subseteq Config /\ None \notin Configs
ASSUME LimitAssumption == Limit \in [Endpoints -> Nat]
ASSUME AuthenticatedAssumption == Authenticated \subseteq Endpoints
ASSUME StatementsAssumption == Statements \in [Endpoints -> Nat \ {0}]
ASSUME SizeAssumption ==
    /\ MaxConns \in Nat \ {0} /\ Window \in Nat \ {0}
    /\ MaxClock \in Nat /\ MaxArrivals \in Nat
ASSUME SlotAssumption == IsFiniteSet(Requests)
ASSUME EventAssumption == Events \subseteq {"redis", "postgres", "listener"}

VARIABLES
    proc,       \* each process: where main is, and what it has opened
    req,        \* each request: what it does next, in which process
    counter,    \* Redis: hits of a key, and when the entry expires
    clock,
    arrivals,   \* how many requests have arrived
    hits,       \* history: the instants at which the limiter of a key was asked
    admitted    \* history: those at which it let the request pass

history == <<arrivals, hits, admitted>>
vars == <<proc, req, counter, clock, arrivals, hits, admitted>>

Starting == {"NewPool", "NewClient", "NewMiddlewares"}
Ended == {"failed", "stopped", "killed"}
Stages == {"serving", "Shutdown", "Close", "CloseRedis", "return"} \cup Starting \cup Ended

\* late: history, requests were left when the 30 seconds were over; harmed: history,
\* a request met a closed pool or client, or was cut off by the exit.
Process == [at: Stages, config: Configs \cup {None}, pool: {"none", "open", "closing", "closed"},
            redis: {"none", "open", "closed"}, late: BOOLEAN, harmed: BOOLEAN]

Request == [at: {"idle", "limiter", "acquire", "query", "answer"}, in: Procs \cup {None},
            key: Keys \cup {None}, left: Nat, status: {0, 200, 401, 429, 500}]

NotRunning == [at |-> "stopped", config |-> None, pool |-> "none", redis |-> "none",
               late |-> FALSE, harmed |-> FALSE]

NoRequest == [at |-> "idle", in |-> None, key |-> None, left |-> 0, status |-> 0]

Instants == 0..MaxClock
Unused == [count |-> 0, until |-> 0]

TypeOK ==
    /\ proc \in [Procs -> Process]
    /\ req \in [Requests -> Request]
    /\ counter \in [Keys -> [count: Nat, until: 0..(MaxClock + Window)]]
    /\ clock \in Instants /\ arrivals \in 0..MaxArrivals
    /\ hits \in [Keys -> Seq(Instants)]
    /\ admitted \in [Keys -> Seq(Instants)]

Init ==
    /\ proc = [p \in Procs |-> NotRunning]
    /\ req = [r \in Requests |-> NoRequest]
    /\ counter = [k \in Keys |-> Unused]
    /\ clock = 0 /\ arrivals = 0
    /\ hits = [k \in Keys |-> <<>>]
    /\ admitted = hits

-----------------------------------------------------------------------------
(* Starting *)

\* validateAuthConfig and validateRedisConfig.
Valid(c) ==
    /\ c.weakSecret => c.development
    /\ c.rateLimit \/ c.routeCache => c.redis

Become(p, new) == proc' = [proc EXCEPT ![p] = new]

At(p, stage) == proc[p].at = stage /\ UNCHANGED <<counter, clock, history>>

Closed(resource) == IF resource = "open" THEN "closed" ELSE resource

\* Mutant of Abandon: the client is forgotten.
AbandonPool(s) == [s EXCEPT !.at = "failed", !.pool = Closed(@)]

\* New returns an error: what it has opened so far is closed.
Abandon(s) == [s EXCEPT !.at = "failed", !.pool = Closed(@), !.redis = Closed(@)]

\* Started for the first time, or again after it has ended; what Redis counts remains.
Boot(p) ==
    /\ proc[p].at \in Ended /\ UNCHANGED <<req, counter, clock, history>>
    /\ \E c \in Configs :
         Become(p, IF Valid(c) THEN [NotRunning EXCEPT !.at = "NewPool", !.config = c]
                               ELSE [NotRunning EXCEPT !.at = "failed"])

\* Opened, and the ping succeeds; or one of them fails, within the 10 seconds.
NewPool(p) ==
    /\ At(p, "NewPool")
    /\ LET s == [proc[p] EXCEPT !.pool = "open"]
       IN \/ Become(p, [s EXCEPT !.at = IF s.config.redis THEN "NewClient" ELSE "serving"])
          \/ "postgres" \in Events /\ Become(p, Abandon(s))
    /\ UNCHANGED req

NewClient(p) ==
    /\ At(p, "NewClient")
    /\ LET s == [proc[p] EXCEPT !.redis = "open"]
       IN \/ Become(p, [s EXCEPT !.at = IF s.config.rateLimit THEN "NewMiddlewares"
                                                              ELSE "serving"])
          \/ "redis" \in Events /\ Become(p, Abandon(s))
    /\ UNCHANGED req

\* The store of a limiter loads its scripts into Redis.
NewMiddlewares(p) ==
    /\ At(p, "NewMiddlewares")
    /\ \/ Become(p, [proc[p] EXCEPT !.at = "serving"])
       \/ "redis" \in Events /\ Become(p, Abandon(proc[p]))
    /\ UNCHANGED req

-----------------------------------------------------------------------------
(* Stopping *)

InProcess(p) == {r \in Requests : req[r].at # "idle" /\ req[r].in = p}
Holders(p) == {r \in InProcess(p) : req[r].at = "query"}

\* The process is gone, and with it its requests and whatever it held open.
Exit(p, how) ==
    /\ Become(p, [proc[p] EXCEPT !.at = how, !.harmed = @ \/ InProcess(p) # {}])
    /\ req' = [r \in Requests |-> IF r \in InProcess(p) THEN NoRequest ELSE req[r]]

\* SIGINT or SIGTERM: main is waiting for it; it kills a process that has not called
\* signal.Notify yet; one that is already stopping takes no more notice.
Signal(p) ==
    \/ /\ At(p, "serving")
       /\ Become(p, [proc[p] EXCEPT !.at = "Shutdown"])
       /\ UNCHANGED req
    \/ \E stage \in Starting : At(p, stage) /\ Exit(p, "killed")

\* Mutant of Drained: Close is called without Shutdown.
CloseAtOnce(p) ==
    /\ At(p, "Shutdown")
    /\ Become(p, [proc[p] EXCEPT !.at = "Close"])
    /\ UNCHANGED req

\* Shutdown: the listener is closed; it returns when no request is left, or after
\* 30 seconds.
Drained(p) ==
    /\ At(p, "Shutdown") /\ InProcess(p) = {}
    /\ Become(p, [proc[p] EXCEPT !.at = "Close"])
    /\ UNCHANGED req

Deadline(p) ==
    /\ At(p, "Shutdown") /\ InProcess(p) # {}
    /\ Become(p, [proc[p] EXCEPT !.at = "Close", !.late = TRUE])
    /\ UNCHANGED req

\* pool.Close: nobody gets a connection from now on ...
ClosePool(p) ==
    /\ At(p, "Close") /\ proc[p].pool = "open"
    /\ Become(p, [proc[p] EXCEPT !.pool = "closing"])
    /\ UNCHANGED req

\* Mutant of PoolClosed: it does not wait.
PoolDropped(p) ==
    /\ At(p, "Close") /\ proc[p].pool = "closing"
    /\ Become(p, [proc[p] EXCEPT !.pool = "closed", !.at = "CloseRedis"])
    /\ UNCHANGED req

\* Mutant of CloseRedis: the client may be nil, and main panics.
CloseNilClient(p) ==
    /\ At(p, "CloseRedis")
    /\ IF proc[p].redis = "none" THEN Exit(p, "killed")
       ELSE /\ Become(p, [proc[p] EXCEPT !.redis = Closed(@), !.at = "return"])
            /\ UNCHANGED req

\* ... and it returns when the last one has been given back.
PoolClosed(p) ==
    /\ At(p, "Close") /\ proc[p].pool = "closing" /\ Holders(p) = {}
    /\ Become(p, [proc[p] EXCEPT !.pool = "closed", !.at = "CloseRedis"])
    /\ UNCHANGED req

CloseRedis(p) ==
    /\ At(p, "CloseRedis")
    /\ Become(p, [proc[p] EXCEPT !.redis = Closed(@), !.at = "return"])
    /\ UNCHANGED req

MainReturns(p) == At(p, "return") /\ Exit(p, "stopped")

\* ListenAndServe fails, and its goroutine calls os.Exit.
ListenerFails(p) == "listener" \in Events /\ At(p, "serving") /\ Exit(p, "killed")

-----------------------------------------------------------------------------
(* Requests *)

In(r, step) == req[r].at = step /\ UNCHANGED clock

Continue(r, new) == req' = [req EXCEPT ![r] = new]

Answer(r, status) == Continue(r, [req[r] EXCEPT !.at = "answer", !.status = status, !.left = 0])

\* The route of the endpoint is reached: its limiter, if there are any, or its handler.
Enter(r, new) ==
    Continue(r, [new EXCEPT !.at = IF proc[new.in].config.rateLimit THEN "limiter" ELSE "acquire",
                            !.left = Statements[new.key[1]]])

\* The auth middleware is put around the group of the protected routes, the limiter
\* around each route within: the token is verified first, or refused with 401, and
\* then the user is read, by a statement more than those of the handler.
Arrive(r) ==
    /\ In(r, "idle") /\ arrivals < MaxArrivals
    /\ \E p \in Procs, k \in Keys :
         LET new == [at |-> "acquire", in |-> p, key |-> k, left |-> Statements[k[1]] + 1,
                     status |-> 0]
         IN /\ proc[p].at = "serving"
            /\ \/ k[1] \notin Authenticated /\ Enter(r, new)
               \/ k[1] \in Authenticated /\ Continue(r, new)
               \/ /\ k[1] \in Authenticated
                  /\ Continue(r, [new EXCEPT !.at = "answer", !.left = 0, !.status = 401])
    /\ arrivals' = arrivals + 1
    /\ UNCHANGED <<proc, counter, hits, admitted>>

InMiddleware(r) == req[r].left > Statements[req[r].key[1]]

\* UserByID has returned an active user, who goes on to the route, or none.
Authenticate(r) ==
    /\ In(r, "query") /\ InMiddleware(r)
    /\ Enter(r, req[r]) \/ Answer(r, 401)
    /\ UNCHANGED <<proc, counter, history>>

\* Mutant of LimiterKey: all endpoints share one prefix.
SharedPrefix(r) == <<CHOOSE e \in Endpoints : TRUE, req[r].key[2]>>

\* Under which key a request is counted: the prefix of the endpoint, and the address.
LimiterKey(r) == req[r].key

\* One script increments the counter, and lets the first hit set its time to live.
Hit(k) ==
    IF counter[k].count = 0 THEN [count |-> 1, until |-> clock + Window]
                            ELSE [counter[k] EXCEPT !.count = @ + 1]

Tally(table, k) == [table EXCEPT ![k] = Append(@, clock)]

Pass(r) ==
    /\ Continue(r, [req[r] EXCEPT !.at = "acquire"])
    /\ admitted' = Tally(admitted, req[r].key)

\* Too many hits, admitted or not: 429, and the handler is not called.
Limiter(r) ==
    /\ In(r, "limiter")
    /\ proc[req[r].in].redis = "open"
    /\ LET k == LimiterKey(r)
       IN /\ counter' = [counter EXCEPT ![k] = Hit(k)]
          /\ IF Hit(k).count <= Limit[req[r].key[1]]
             THEN Pass(r)
             ELSE Answer(r, 429) /\ UNCHANGED admitted
    /\ hits' = Tally(hits, req[r].key)
    /\ UNCHANGED <<proc, arrivals>>

\* Mutant of LimiterFails: without Redis the request passes.
LimiterFailsOpen(r) ==
    /\ In(r, "limiter")
    /\ "redis" \in Events \/ proc[req[r].in].redis = "closed"
    /\ Pass(r)
    /\ hits' = Tally(hits, req[r].key)
    /\ UNCHANGED <<proc, counter, arrivals>>

\* Redis fails, perhaps after it has counted, or the client is closed: the error
\* handler of the limiter panics, and sloghttp.Recovery answers.
LimiterFails(r) ==
    /\ In(r, "limiter")
    /\ "redis" \in Events \/ proc[req[r].in].redis = "closed"
    /\ LET k == LimiterKey(r)
           counted == [counter EXCEPT ![k] = Hit(k)]
       IN counter' \in {counter} \cup (IF proc[req[r].in].redis = "open" THEN {counted} ELSE {})
    /\ Answer(r, 500)
    /\ hits' = Tally(hits, req[r].key)
    /\ proc' = [proc EXCEPT ![req[r].in].harmed = @ \/ proc[req[r].in].redis = "closed"]
    /\ UNCHANGED <<arrivals, admitted>>

\* A statement gets a connection, waiting for one if all are in use.
Acquire(r) ==
    /\ In(r, "acquire")
    /\ proc[req[r].in].pool = "open" /\ Cardinality(Holders(req[r].in)) < MaxConns
    /\ Continue(r, [req[r] EXCEPT !.at = "query"])
    /\ UNCHANGED <<proc, counter, history>>

\* The pool is closed, or about to be.
AcquireFails(r) ==
    /\ In(r, "acquire")
    /\ proc[req[r].in].pool # "open"
    /\ Answer(r, 500)
    /\ proc' = [proc EXCEPT ![req[r].in].harmed = TRUE]
    /\ UNCHANGED <<counter, history>>

\* Mutant of QueryDone: there is always another statement.
QueryDoneForEver(r) ==
    /\ In(r, "query") /\ ~InMiddleware(r)
    /\ Continue(r, [req[r] EXCEPT !.at = "acquire", !.left = @ - 1])
    /\ UNCHANGED <<proc, counter, history>>

\* A statement of the handler is done and its connection is back in the pool.
QueryDone(r) ==
    /\ In(r, "query") /\ ~InMiddleware(r)
    /\ IF req[r].left = 1 THEN Answer(r, 200)
       ELSE Continue(r, [req[r] EXCEPT !.at = "acquire", !.left = @ - 1])
    /\ UNCHANGED <<proc, counter, history>>

QueryFails(r) ==
    /\ In(r, "query") /\ "postgres" \in Events
    /\ Answer(r, 500)
    /\ UNCHANGED <<proc, counter, history>>

Respond(r) ==
    /\ In(r, "answer")
    /\ Continue(r, NoRequest)
    /\ UNCHANGED <<proc, counter, history>>

-----------------------------------------------------------------------------

\* Time passes; Redis drops the counters that expire.
Tick ==
    /\ clock < MaxClock
    /\ clock' = clock + 1
    /\ counter' = [k \in Keys |-> IF counter[k].until <= clock + 1 THEN Unused ELSE counter[k]]
    /\ UNCHANGED <<proc, req, history>>

MainStep(p) ==
    \/ NewPool(p) \/ NewClient(p) \/ NewMiddlewares(p)
    \/ Drained(p) \/ Deadline(p) \/ ClosePool(p) \/ PoolClosed(p)
    \/ CloseRedis(p) \/ MainReturns(p)

HandlerStep(r) ==
    \/ Authenticate(r) \/ Limiter(r) \/ LimiterFails(r) \/ AcquireFails(r)
    \/ QueryDone(r) \/ QueryFails(r) \/ Respond(r)

Next ==
    \/ \E p \in Procs : Boot(p) \/ MainStep(p) \/ Signal(p) \/ ListenerFails(p)
    \/ \E r \in Requests : Arrive(r) \/ HandlerStep(r) \/ Acquire(r)
    \/ Tick

Spec == Init /\ [][Next]_vars

\* main and the handlers are scheduled, statements end, timers fire; connections are
\* handed to those who wait in turn.
Fairness ==
    /\ \A p \in Procs : WF_vars(MainStep(p))
    /\ \A r \in Requests : WF_vars(HandlerStep(r)) /\ SF_vars(Acquire(r))

FairSpec == Spec /\ Fairness

-----------------------------------------------------------------------------
(* Properties *)

\* main leaves nothing open, whether the start fails half way through or the process
\* is stopped; and nobody uses a client that was never opened: the two feature "flags
\* require it (validated above), so when either is on the client is non-nil".
ResourcesSound ==
    /\ \A p \in Procs : proc[p].at \in {"failed", "stopped"} =>
         {proc[p].pool, proc[p].redis} \subseteq {"none", "closed"}
    /\ \A p \in Procs : proc[p].at \in {"serving", "Shutdown"} =>
         /\ proc[p].pool = "open"
         /\ proc[p].config.routeCache \/ proc[p].config.rateLimit => proc[p].redis = "open"
    /\ \A r \in Requests : req[r].at = "limiter" => proc[req[r].in].redis # "none"

\* A request meets a closed pool or client, or is cut off, only if the 30 seconds of
\* the shutdown were over before it was answered, or the process is killed.
GracefulStop == \A p \in Procs : proc[p].harmed => proc[p].late \/ proc[p].at = "killed"

\* Even after that a statement under way keeps its connection: pool.Close waits for
\* it, and Redis and the process go later. The pool is never exceeded.
StatementsKeepTheirConnection ==
    \A p \in Procs : /\ Cardinality(Holders(p)) <= MaxConns
                     /\ Holders(p) # {} => /\ proc[p].pool \in {"open", "closing"}
                                           /\ proc[p].at \in {"serving", "Shutdown", "Close"}

During(table, k, first, last) ==
    Cardinality({i \in DOMAIN table[k] : first <= table[k][i] /\ table[k][i] <= last})

\* However many processes and requests race, and whether Redis answers, fails before it
\* counts or fails after it, as long as it keeps its counters: a client gets at most
\* the limit of an endpoint past its limiter while one counter lives, and less than
\* twice the limit in any period of that length.
QuotaKept ==
    \A k \in Keys :
        LET limit == Limit[k[1]]
        IN /\ counter[k].count > 0 =>
                During(admitted, k, counter[k].until - Window, clock) <= limit
           /\ limit > 0 => \A t \in Instants :
                During(admitted, k, t, t + Window - 1) <= 2 * limit - 1

\* "Quotas never bleed across endpoints", nor from one address to another: who gets a
\* 429 has asked for the same endpoint more often than its limit in this period.
RejectedForOwnHits ==
    [][\A r \in Requests : req[r].status # 429 /\ req'[r].status = 429 =>
         LET k == req[r].key
         IN During(hits', k, (clock + 1) - Window, clock) > Limit[k[1]]]_vars

\* A process that is told to stop stops in order, even if requests outlast the 30
\* seconds: they give their connections back and get no new ones.
StopsInOrder == \A p \in Procs : proc[p].at = "Shutdown" ~> proc[p].at = "stopped"

=============================================================================
