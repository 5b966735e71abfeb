----------------------------- MODULE SafeRoutes -----------------------------
(***************************************************************************)
(* internal/saferoutes: requests for safe routes, served concurrently from *)
(* Postgres and a Redis cache, while the risk pipeline redefines, rescores *)
(* and activates models.                                                   *)
(*                                                                         *)
(* A step of a request is one statement, or one Redis command.  A request  *)
(* holds no transaction: each statement sees the tables as they are then.  *)
(* The pipeline appears as ModelRegistry, which RiskModels implements.     *)
(***************************************************************************)
EXTENDS Naturals, FiniteSets

CONSTANTS
    Models, Params, Batches,   \* as in ModelRegistry; Params: the risk levels
    Queries,      \* what clients ask: endpoints and a time
    Keys,         \* endpoints to 5 decimals, time bucket and weekday type
    Resolved,     \* [Queries -> Keys]
    Outcome,      \* [Queries -> what the graph has for the exact endpoints]
    Profiles,     \* how many profiles are routed: fastest, balanced, safest
    Requests,     \* slots: at most Cardinality(Requests) requests at once
    Events,       \* what else happens: failing statements and commands, crashes
    MaxChanges,   \* bound: the pipeline commits at most this often
    None          \* no rows, no value

Outcomes == {"invalid", "outside", "unreachable", "routed"}

ASSUME NoneAssumption ==
    None \notin Models \cup Params \cup Batches \cup Queries
ASSUME QueryAssumption ==
    Resolved \in [Queries -> Keys] /\ Outcome \in [Queries -> Outcomes]
ASSUME ProfileAssumption == Profiles \in Nat \ {0}
ASSUME BoundAssumption == MaxChanges \in Nat
ASSUME EventAssumption == Events \subseteq {"dbError", "cacheError", "crash", "expiry"}

VARIABLES
    parameters, scores, active,   \* the registry
    cache,       \* what Redis holds under a key
    pc, req,     \* each request: the next statement, and what it carries
    changes,     \* how often the pipeline has committed
    served,      \* history: the models that have been active
    rewritten    \* history: models redefined or rescored after being active

registry == <<parameters, scores, active>>
history == <<changes, served, rewritten>>
vars == <<parameters, scores, active, cache, pc, req, changes, served, rewritten>>

Registry == INSTANCE ModelRegistry

\* A response: for which query and model it was computed, with the bounds of the
\* risk levels it used and the scores its statements found.
Response == [query: Queries, model: Models, bounds: Params \cup {None},
             reads: SUBSET (Batches \cup {None})]

Labels == {"idle", "ActiveModel", "CacheGet", "SnapEndpoints", "FindRoute",
           "TimeOfDayRisk", "FindCandidates", "CandidateRisk", "CacheSet", "answer"}

Statuses == {0, 200, 400, 404, 500, 503}   \* 0: not answered yet

\* left: profiles not routed yet; failed: history, a statement has failed; seen:
\* history, the models that were active at some time since it arrived.
Request == [query: Queries \cup {None}, model: Models \cup {None},
            bounds: Params \cup {None}, reads: SUBSET (Batches \cup {None}),
            left: 0..Profiles, status: Statuses,
            answer: Response \cup {None}, failed: BOOLEAN, seen: SUBSET Models]

\* A request whose query is parsed and that has read nothing yet, or has dropped
\* what it read.
Bare(query, seen, status, answer) ==
    [query |-> query, model |-> None, bounds |-> None, reads |-> {}, left |-> 0,
     status |-> status, answer |-> answer, failed |-> FALSE, seen |-> seen]

NoRequest == Bare(None, {}, 0, None)

Slots == Keys \X Models

TypeOK ==
    /\ parameters \in [Models -> Params \cup {None}]
    /\ scores \in [Models -> Batches \cup {None}]
    /\ active \in Models \cup {None}
    /\ cache \in [Slots -> Response \cup {None}]
    /\ pc \in [Requests -> Labels]
    /\ req \in [Requests -> Request]
    /\ changes \in 0..MaxChanges
    /\ served \subseteq Models /\ rewritten \subseteq Models

Init ==
    /\ Registry!Init
    /\ cache = [k \in Slots |-> None]
    /\ pc = [r \in Requests |-> "idle"]
    /\ req = [r \in Requests |-> NoRequest]
    /\ changes = 0 /\ served = {} /\ rewritten = {}

-----------------------------------------------------------------------------
(* Helpers *)

\* Mutants of routeCacheKey: the model, or the rest, is left out.
KeyWithoutModel(q, m) == <<Resolved[q], CHOOSE x \in Models : TRUE>>
KeyWithoutContext(q, m) == <<CHOOSE k \in Keys : TRUE, m>>

routeCacheKey(q, m) == <<Resolved[q], m>>

Goto(r, label, c) ==
    pc' = [pc EXCEPT ![r] = label] /\ req' = [req EXCEPT ![r] = c]

\* What a request worked with is dropped when it is answered.
Done(c, status, response) == Bare(c.query, c.seen, status, response)

Finish(r, status) == Goto(r, "answer", Done(req[r], status, None))

Deliver(r, response) == Goto(r, "answer", Done(req[r], 200, response))

\* Mutant of ReadScores: each statement joins the active model again.
ReadActiveScores(c) == [c EXCEPT !.reads = @ \cup {scores[active]}]

\* A statement that joins the scores of the model finds those committed now.
ReadScores(c) == [c EXCEPT !.reads = @ \cup {scores[c.model]}]

Computed(c) == [query |-> c.query, model |-> c.model, bounds |-> c.bounds, reads |-> c.reads]

At(r, label) == pc[r] = label /\ UNCHANGED <<registry, history>>

-----------------------------------------------------------------------------
(* The request *)

\* Decoding, and the checks before the first statement.
Arrive(r) ==
    /\ At(r, "idle")
    /\ \E q \in Queries :
         LET seen == {active} \ {None}
         IN IF Outcome[q] = "invalid" THEN Goto(r, "answer", Bare(q, seen, 400, None))
                                      ELSE Goto(r, "ActiveModel", Bare(q, seen, 0, None))
    /\ UNCHANGED cache

\* Mutant of ActiveModel: not WHERE is_active, but the first one defined.
AnyModel(r) ==
    /\ At(r, "ActiveModel")
    /\ IF \A m \in Models : parameters[m] = None
       THEN Finish(r, 503)
       ELSE LET m == CHOOSE x \in Models : parameters[x] # None
            IN Goto(r, "CacheGet", [req[r] EXCEPT !.model = m, !.bounds = parameters[m]])
    /\ UNCHANGED cache

ActiveModel(r) ==
    /\ At(r, "ActiveModel")
    /\ IF active = None
       THEN Finish(r, 503)
       ELSE Goto(r, "CacheGet",
                 [req[r] EXCEPT !.model = active, !.bounds = parameters[active]])
    /\ UNCHANGED cache

\* Mutant of CacheGet: an error of Redis is returned.
CacheGetStrict(r) ==
    /\ At(r, "CacheGet")
    /\ LET entry == cache[routeCacheKey(req[r].query, req[r].model)]
       IN \/ entry # None /\ Deliver(r, entry)
          \/ entry = None /\ Goto(r, "SnapEndpoints", req[r])
          \/ "cacheError" \in Events /\ Finish(r, 500)
    /\ UNCHANGED cache

\* A hit, or a miss; an error of Redis, or an entry that does not decode, is one.
CacheGet(r) ==
    /\ At(r, "CacheGet")
    /\ LET entry == cache[routeCacheKey(req[r].query, req[r].model)]
       IN \/ entry # None /\ Deliver(r, entry)
          \/ (entry = None \/ "cacheError" \in Events) /\ Goto(r, "SnapEndpoints", req[r])
    /\ UNCHANGED cache

\* RouteProfiles and SnapEndpoints: what they read, profiles and graph, is loaded
\* offline.
SnapEndpoints(r) ==
    /\ At(r, "SnapEndpoints")
    /\ IF Outcome[req[r].query] = "outside"
       THEN Finish(r, 400)
       ELSE Goto(r, "FindRoute", [req[r] EXCEPT !.left = Profiles])
    /\ UNCHANGED cache

FindRoute(r) ==
    /\ At(r, "FindRoute")
    /\ IF Outcome[req[r].query] = "unreachable"
       THEN Finish(r, 404)
       ELSE Goto(r, "TimeOfDayRisk", ReadScores(req[r]))
    /\ UNCHANGED cache

\* Mutant of TimeOfDayRisk: one profile too many.
OneMoreProfile(r) ==
    /\ At(r, "TimeOfDayRisk")
    /\ LET c == [ReadScores(req[r]) EXCEPT !.left = @ - 1]
       IN Goto(r, IF req[r].left = 0 THEN "FindCandidates" ELSE "FindRoute", c)
    /\ UNCHANGED cache

\* RouteRiskByBucket, then the next profile.
TimeOfDayRisk(r) ==
    /\ At(r, "TimeOfDayRisk")
    /\ LET c == [ReadScores(req[r]) EXCEPT !.left = @ - 1]
       IN Goto(r, IF c.left = 0 THEN "FindCandidates" ELSE "FindRoute", c)
    /\ UNCHANGED cache

\* leastSafeCandidate: a candidate within the detour bound, or none.
FindCandidates(r) ==
    /\ At(r, "FindCandidates")
    /\ \E next \in {"CandidateRisk", "CacheSet"} : Goto(r, next, ReadScores(req[r]))
    /\ UNCHANGED cache

CandidateRisk(r) ==
    /\ At(r, "CandidateRisk")
    /\ Goto(r, "CacheSet", ReadScores(req[r]))
    /\ UNCHANGED cache

\* The answer is the same whether Redis takes it, fails, or takes it and fails.
CacheSet(r) ==
    /\ At(r, "CacheSet")
    /\ LET c == req[r]
           stored == [cache EXCEPT ![routeCacheKey(c.query, c.model)] = Computed(c)]
       IN /\ cache' = stored \/ ("cacheError" \in Events /\ cache' = cache)
          /\ Deliver(r, Computed(c))

\* The response is written; the slot is free again.
Respond(r) ==
    /\ At(r, "answer")
    /\ Goto(r, "idle", NoRequest)
    /\ UNCHANGED cache

\* These fail when the statement does, when the context is cancelled because the
\* client has left, and when the rows do not decode.
Statements == {"ActiveModel", "SnapEndpoints", "FindRoute", "TimeOfDayRisk",
               "FindCandidates", "CandidateRisk"}

Fail(r) ==
    /\ "dbError" \in Events
    /\ pc[r] \in Statements
    /\ Goto(r, "answer", [Done(req[r], 500, None) EXCEPT !.failed = TRUE])
    /\ UNCHANGED <<registry, history, cache>>

-----------------------------------------------------------------------------
(* Around the requests *)

\* An entry expires, or Redis evicts it.
Expire(k) ==
    /\ "expiry" \in Events
    /\ cache[k] # None
    /\ cache' = [cache EXCEPT ![k] = None]
    /\ UNCHANGED <<registry, history, pc, req>>

\* The process dies and is started again; Redis keeps its entries.
Crash ==
    /\ "crash" \in Events
    /\ pc' = [r \in Requests |-> "idle"]
    /\ req' = [r \in Requests |-> NoRequest]
    /\ UNCHANGED <<registry, history, cache>>

UnderWay(r) == pc[r] \notin {"idle", "answer"}

\* A step of the pipeline, and what history takes down of it.
PipelineStep ==
    /\ changes < MaxChanges
    /\ changes' = changes + 1
    /\ Registry!Next
    /\ served' = served \cup ({active'} \ {None})
    /\ rewritten' = rewritten \cup {m \in served : \/ parameters'[m] # parameters[m]
                                                  \/ scores'[m] # scores[m]}
    /\ req' = [r \in Requests |->
                 IF UnderWay(r) THEN [req[r] EXCEPT !.seen = @ \cup ({active'} \ {None})]
                                ELSE req[r]]
    /\ UNCHANGED <<cache, pc>>

Step(r) ==
    \/ ActiveModel(r) \/ CacheGet(r) \/ SnapEndpoints(r)
    \/ FindRoute(r) \/ TimeOfDayRisk(r) \/ FindCandidates(r) \/ CandidateRisk(r)
    \/ CacheSet(r) \/ Respond(r)

Next ==
    \/ \E r \in Requests : Arrive(r) \/ Step(r) \/ Fail(r)
    \/ \E k \in Slots : Expire(k)
    \/ Crash
    \/ PipelineStep

Spec == Init /\ [][Next]_vars

-----------------------------------------------------------------------------
(* Properties *)

\* Everything a client has got or may get from the cache.
Answers == {req[r].answer : r \in Requests} \ {None}
Entries == {cache[k] : k \in Slots} \ {None}

\* No route is computed from missing scores (COALESCE would take them for zero
\* risk), although scores are replaced and models activated during the request.
NoBlindRoutes == \A a \in Answers \cup Entries : a.reads # {} /\ None \notin a.reads

\* A client gets routes of a model that was active at some time while it waited,
\* from the cache too: the key holds the model the request has looked up.
ServedModelWasActive ==
    \A r \in Requests : req[r].answer # None => req[r].answer.model \in req[r].seen

\* A hit answers the question: it was computed for endpoints and a time that
\* resolve to the same, and the graph had a route for them.
ServesTheQuestion ==
    \A r \in Requests : req[r].answer # None =>
        LET q == req[r].answer.query
        IN Resolved[q] = Resolved[req[r].query] /\ Outcome[q] = "routed"

\* "Cache trouble never fails a request": only a failed statement gives 500, and
\* 503 means that no model was active while the request waited for one, since the
\* pipeline never takes the active model away.
OnlyTheDatabaseFails ==
    \A r \in Requests : /\ req[r].status = 500 => req[r].failed
                        /\ req[r].status = 503 => req[r].seen = {}

\* Routes of a model that has not been redefined or rescored since it was first
\* activated are those of its scores and its parameters, cached or not, whatever
\* else was activated meanwhile; only rewriting in place makes entries stale.
FreshUnlessRewritten ==
    \A a \in Answers \cup Entries : a.model \notin rewritten =>
        a.reads = {scores[a.model]} /\ a.bounds = parameters[a.model]

=============================================================================
