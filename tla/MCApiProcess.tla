---------------------------- MODULE MCApiProcess ----------------------------
(* Instances of ApiProcess for TLC. *)
EXTENDS ApiProcess, TLC

Environment(secret, redis, limits, cache) ==
    [weakSecret |-> secret, development |-> FALSE, redis |-> redis,
     rateLimit |-> limits, routeCache |-> cache]

\* Everything on; no Redis; limits without Redis; the placeholder secret.
SomeConfigs == {Environment(FALSE, TRUE, TRUE, TRUE), Environment(FALSE, FALSE, FALSE, FALSE),
                Environment(FALSE, FALSE, TRUE, FALSE), Environment(TRUE, TRUE, TRUE, TRUE)}

\* A public endpoint, and GET /routes/safe, which is a protected one: it reads the user
\* before its handler reads anything.
SomeLimits == ("login" :> 2) @@ ("routes" :> 1)
SomeStatements == ("login" :> 2) @@ ("routes" :> 1)

=============================================================================
