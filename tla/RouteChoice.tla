----------------------------- MODULE RouteChoice -----------------------------
(***************************************************************************)
(* internal/saferoutes, what a request for safe routes computes: it snaps  *)
(* its endpoints to the road graph, finds a cheapest route per profile and *)
(* a risky candidate, and aggregates the risk of their edges, while the    *)
(* graph is normalized and cleaned up.                                     *)
(*                                                                         *)
(* Numbers are integers: the risk of an edge is in units, Unit of which    *)
(* make one step of what is displayed, and Grid steps make 1.  Each search *)
(* is a statement of its own and sees the graph as it is then; risks do    *)
(* not change here (SafeRoutes is about requests while they do).           *)
(***************************************************************************)
EXTENDS RoadGraph, SequencesExt

CONSTANTS
    Risks,            \* tables of risk_score: [Buckets -> [Edges -> units or None]]
    Multiplier,       \* of each profile, in the order fastest, balanced, safest
    Scale,            \* what a multiplier of 1 and a risk of 1 make together
    LowMax, ModerateMax,      \* thresholds of the levels, in units
    Unit, Grid,       \* units of risk in a displayed step, and steps in 1
    LengthUnit,       \* units of length in a displayed step
    Times,            \* the buckets that are asked for
    K,                \* candidates asked of pgr_ksp
    Detour,           \* of a candidate, as a fraction: <<7, 4>>
    None              \* no score, no candidate

Kinds == 1..3
Buckets == 1..4       \* morning, afternoon, evening, night

ASSUME TimeAssumption == Times \subseteq Buckets

VARIABLES
    risk,      \* the scores of the active model, and the weekday type of the request
    req        \* the request

vars == <<quality, checked, cleanup, risk, req>>

-----------------------------------------------------------------------------
(* Paths of the graph, each with the nodes it passes *)

Extensions(w) ==
    {[from |-> w.from, to |-> hop[2], passed |-> w.passed \cup {hop[2]},
      edges |-> Append(w.edges, hop[1])] :
       hop \in {hop \in Edges \X Nodes :
                  /\ hop[2] \notin w.passed
                  /\ Ends[hop[1]] = <<w.to, hop[2]>> \/ Ends[hop[1]] = <<hop[2], w.to>>}}

\* The walks of n edges, none of which passes a node twice.
Walks[n \in Nat] ==
    IF n = 0 THEN {[from |-> m, to |-> m, passed |-> {m}, edges |-> <<>>] : m \in Nodes}
             ELSE UNION {Extensions(w) : w \in Walks[n - 1]}

SimplePaths == UNION {Walks[n] : n \in 1..Cardinality(Nodes)}

AllPaths == {w.edges : w \in SimplePaths}

ASSUME NoneAssumption == None \notin Nat \cup AllPaths

PathsBetween ==
    [ends \in Nodes \X Nodes |->
       {w.edges : w \in {w \in SimplePaths : w.from = ends[1] /\ w.to = ends[2]}}]

\* What pgRouting chooses among.
Paths(from, to) == {p \in PathsBetween[<<from, to>>] : ToSet(p) \subseteq Routable}

-----------------------------------------------------------------------------
(* Sums over the edges of a path *)

\* Of what each edge weighs.
Sum(weight, p) ==
    LET upTo[n \in 0..Len(p)] == IF n = 0 THEN 0 ELSE upTo[n - 1] + weight[p[n]]
    IN upTo[Len(p)]

LengthOf == [p \in AllPaths |-> Sum(Length, p)]

\* COALESCE(risk_score, 0)
ScoreIn(scores, e) == IF scores[e] = None THEN 0 ELSE scores[e]

ExposureIn(scores) ==
    LET exposure == [e \in Edges |-> Length[e] * ScoreIn(scores, e)]
    IN [p \in AllPaths |-> Sum(exposure, p)]

ExposureOf == [table \in Risks |-> [bucket \in Buckets |-> ExposureIn(table[bucket])]]

ASSUME RiskAssumption == Risks \subseteq [Buckets -> [Edges -> (0..Unit * Grid) \cup {None}]]
ASSUME ProfileAssumption ==
    /\ Multiplier \in [Kinds -> Nat] /\ Multiplier[1] = 0 /\ Scale \in Nat \ {0}
    /\ \A i, j \in Kinds : i < j => Multiplier[i] < Multiplier[j]
ASSUME CandidateAssumption ==
    K \in Nat \ {0} /\ Detour \in (Nat \ {0}) \X (Nat \ {0}) /\ Detour[1] >= Detour[2]
ASSUME UnitAssumption ==
    /\ {Unit, Grid, LengthUnit} \subseteq Nat \ {0}
    /\ LowMax \in Nat /\ ModerateMax \in Nat /\ LowMax <= ModerateMax

Exposure(p) == ExposureOf[risk][req.bucket][p]

\* length * (1 + multiplier * risk), scaled.
Cost(kind, p) == Scale * LengthOf[p] + Multiplier[kind] * Exposure(p)

\* internal/roadgraph: a shortest path from where the endpoints are snapped to, or none.
FindWalkRoute(from, to) ==
    LET paths == Paths(from, to)
    IN {p \in paths : \A q \in paths : LengthOf[p] <= LengthOf[q]}

Cheapest(kind, paths) == {p \in paths : \A q \in paths : Cost(kind, p) <= Cost(kind, q)}

\* Sets of paths that are the K shortest: of several of one length, any.
Shortest(paths) ==
    {pool \in SUBSET paths :
       /\ Cardinality(pool) = IF Cardinality(paths) < K THEN Cardinality(paths) ELSE K
       /\ \A p \in pool, q \in paths \ pool : LengthOf[p] <= LengthOf[q]}

-----------------------------------------------------------------------------
(* risk_aggregation.go *)

\* math.Round of n / d, for what is not negative.
Round(n, d) == (2 * n + d) \div (2 * d)

Largest(scores) == CHOOSE s \in scores : \A t \in scores : t <= s

\* Mutant of Blend: weights that do not add up to one.
BlendTooMuch(weighted, length, largest) ==
    IF length > 0 THEN <<4 * weighted + length * largest, 4 * length>> ELSE <<largest, 4>>

\* Three parts of the average, by length, and one of the largest, as a fraction.
Blend(weighted, length, largest) ==
    IF length > 0 THEN <<3 * weighted + length * largest, 4 * length>> ELSE <<largest, 4>>

\* Levels in their order: low, moderate, high.
riskLevel(n, d) ==
    IF n <= LowMax * d THEN 0 ELSE IF n <= ModerateMax * d THEN 1 ELSE 2

\* What the request has of an edge: its score at the time asked for.
EdgeRisk(e) == ScoreIn(risk[req.bucket], e)

RouteScore(p) == Blend(Exposure(p), LengthOf[p], Largest({EdgeRisk(e) : e \in ToSet(p)}))

\* The rows there are for the edges of a path; edges without one count as zero.
RouteRiskByBucket(p) ==
    {row \in Buckets \X ToSet(p) : risk[row[1]][row[2]] # None}

\* aggregateBucketRisk, for one bucket.
BucketRisk(bucket, p) ==
    LET found(e) == IF <<bucket, e>> \in RouteRiskByBucket(p) THEN risk[bucket][e] ELSE 0
        score == Blend(Sum([e \in Edges |-> Length[e] * found(e)], p), LengthOf[p],
                       Largest({found(e) : e \in ToSet(p)}))
    IN [score |-> Round(score[1], score[2] * Unit), level |-> riskLevel(score[1], score[2])]

\* The first of the worst.
Peak(p) ==
    CHOOSE b \in Buckets :
      /\ \A c \in Buckets : BucketRisk(c, p).score <= BucketRisk(b, p).score
      /\ \A c \in Buckets : BucketRisk(c, p).score = BucketRisk(b, p).score => b <= c

HighRiskMeters(p) ==
    Sum([e \in Edges |-> IF EdgeRisk(e) > ModerateMax THEN Length[e] ELSE 0], p)

\* What is shown of a route; buckets is its time-of-day risk.
aggregateRoute(p) ==
    LET largest == Largest({EdgeRisk(e) : e \in ToSet(p)})
        length == LengthOf[p]
        score == RouteScore(p)
    IN [distance |-> Round(length, LengthUnit),
        score |-> Round(score[1], score[2] * Unit),
        level |-> riskLevel(score[1], score[2]),
        average |-> IF length > 0 THEN Round(Exposure(p), length * Unit) ELSE 0,
        largest |-> Round(largest, Unit),
        riskiest |-> riskLevel(largest, 1),
        highRisk |-> Round(HighRiskMeters(p), LengthUnit),
        buckets |-> [b \in Buckets |-> BucketRisk(b, p)],
        peak |-> Peak(p)]

\* risk_reduction_vs_fastest_percent, in steps: Grid of them are 100 percent.
Reduction(score, fastest) ==
    IF fastest = 0 THEN 0
    ELSE IF score <= fastest THEN Round(Grid * (fastest - score), fastest)
                             ELSE -Round(Grid * (score - fastest), fastest)

-----------------------------------------------------------------------------
(* The request *)

\* routes: found so far; steady: history, the graph is as the endpoints saw it; clean:
\* history, it was clean then.
Request == [at: {"idle", "SnapEndpoints", "FindRoute", "FindCandidates", "answer"},
            status: {0, 200, 400, 404}, bucket: Buckets, from: Nodes \cup {None},
            to: Nodes \cup {None}, routes: Seq(AllPaths),
            candidate: AllPaths \cup {None}, steady: BOOLEAN, clean: BOOLEAN]

NoRequest == [at |-> "idle", status |-> 0, bucket |-> 1, from |-> None, to |-> None,
              routes |-> <<>>, candidate |-> None, steady |-> TRUE, clean |-> FALSE]

TypeOK ==
    /\ GraphTypeOK
    /\ risk \in Risks
    /\ req \in Request /\ Len(req.routes) <= 3

Init ==
    /\ GraphInit
    /\ risk \in Risks
    /\ req = NoRequest

Answer(status) == req' = [req EXCEPT !.at = "answer", !.status = status]

Arrive ==
    /\ req.at = "idle"
    /\ \E bucket \in Times :
         req' = [NoRequest EXCEPT !.at = "SnapEndpoints", !.bucket = bucket]
    /\ UNCHANGED <<graph, risk>>

\* Mutant of SnapEndpoints: to the nearest node instead.
SnapToNodes ==
    /\ req.at = "SnapEndpoints"
    /\ \/ \E from, to \in NodesOf(Present) :
            req' = [req EXCEPT !.at = "FindRoute", !.from = from, !.to = to,
                               !.steady = TRUE, !.clean = Clean]
       \/ Answer(400)
    /\ UNCHANGED <<graph, risk>>

\* Each endpoint enters at an end of the edge nearest to it, any for want of
\* coordinates; it is too far away, or there is no edge.
SnapEndpoints ==
    /\ req.at = "SnapEndpoints"
    /\ \/ \E from, to \in NodesOf(Routable) :
            req' = [req EXCEPT !.at = "FindRoute", !.from = from, !.to = to,
                               !.steady = TRUE, !.clean = Clean]
       \/ Answer(400)
    /\ UNCHANGED <<graph, risk>>

\* Mutant of FindRoute: the profiles are routed in another order.
FindRouteBackwards ==
    /\ req.at = "FindRoute"
    /\ LET paths == Paths(req.from, req.to)
           kind == 3 - Len(req.routes)
       IN \/ paths = {} /\ Answer(404)
          \/ \E p \in Cheapest(kind, paths) :
               req' = [req EXCEPT !.routes = Append(@, p),
                                  !.at = IF kind = 1 THEN "FindCandidates" ELSE "FindRoute"]
    /\ UNCHANGED <<graph, risk>>

\* The next profile; of several cheapest paths any.
FindRoute ==
    /\ req.at = "FindRoute"
    /\ LET paths == Paths(req.from, req.to)
           kind == Len(req.routes) + 1
       IN \/ paths = {} /\ Answer(404)
          \/ \E p \in Cheapest(kind, paths) :
               req' = [req EXCEPT !.routes = Append(@, p),
                                  !.at = IF kind = 3 THEN "FindCandidates" ELSE "FindRoute"]
    /\ UNCHANGED <<graph, risk>>

\* The detour is measured on displayed distances.
WithinDetour(p) ==
    LET fastest == Round(LengthOf[req.routes[1]], LengthUnit)
    IN fastest > 0 => Detour[2] * Round(LengthOf[p], LengthUnit) <= Detour[1] * fastest

\* Mutant of Worst: the best of them.
Best(paths) ==
    LET score(p) == Round(RouteScore(p)[1], RouteScore(p)[2] * Unit)
    IN {p \in paths : \A q \in paths :
          score(q) > score(p) \/ (score(q) = score(p) /\ LengthOf[p] <= LengthOf[q])}

\* Of two of the same displayed score the shorter, which came first.
Worst(paths) ==
    LET score(p) == Round(RouteScore(p)[1], RouteScore(p)[2] * Unit)
    IN {p \in paths : \A q \in paths :
          score(q) < score(p) \/ (score(q) = score(p) /\ LengthOf[p] <= LengthOf[q])}

\* leastSafeCandidate
FindCandidates ==
    /\ req.at = "FindCandidates"
    /\ \E pool \in Shortest(Paths(req.from, req.to)) :
         LET usable == {p \in pool : WithinDetour(p)}
         IN \E c \in IF usable = {} THEN {None} ELSE Worst(usable) :
              req' = [req EXCEPT !.at = "answer", !.status = 200, !.candidate = c]
    /\ UNCHANGED <<graph, risk>>

Respond ==
    /\ req.at = "answer"
    /\ req' = NoRequest
    /\ UNCHANGED <<graph, risk>>

GraphStep ==
    /\ GraphNext
    /\ req' = [req EXCEPT !.steady = @ /\ Routable' = Routable]
    /\ UNCHANGED risk

Next ==
    \/ Arrive \/ SnapEndpoints \/ FindRoute \/ FindCandidates \/ Respond
    \/ GraphStep

Spec == Init /\ [][Next]_vars

-----------------------------------------------------------------------------
(* Properties *)

Answered == req.at = "answer" /\ req.status = 200

Displays == ToSet(req.routes) \cup ({req.candidate} \ {None})

Shown == {aggregateRoute(p) : p \in Displays}

\* A request whose endpoints were snapped to a clean graph finds a route between two
\* different nodes, unless the graph is changed before it looks for one; a walk, snapped
\* and searched for in one statement, does so always.
NeverStranded ==
    /\ req.status = 404 /\ req.clean /\ req.steady => req.from = req.to
    /\ req.at = "idle" /\ Clean =>
         \A from, to \in NodesOf(Routable) : from # to => FindWalkRoute(from, to) # {}

\* The trade-off the profiles are for: the more weight risk has, the longer a route may
\* be and the less it is exposed, and the metres it adds to the fastest are paid for by
\* the exposure it takes away.  Only for a graph that does not change between the
\* searches.
TradeOff ==
    req.steady =>
      \A i, j \in DOMAIN req.routes : i < j =>
        LET p == req.routes[i]
            q == req.routes[j]
        IN /\ LengthOf[p] <= LengthOf[q] /\ Exposure(q) <= Exposure(p)
           /\ Scale * (LengthOf[q] - LengthOf[p]) <= Multiplier[j] * (Exposure(p) - Exposure(q))

\* Unless the graph has changed, there is a candidate: the shortest path is always one;
\* and as long as all that are as short as the fastest are among the K, it is shown as
\* no safer than the fastest.
CandidateContrasts ==
    Answered /\ req.steady =>
      LET fastest == req.routes[1]
          ties == {p \in Paths(req.from, req.to) : LengthOf[p] = LengthOf[fastest]}
      IN /\ req.candidate # None
         /\ Cardinality(ties) <= K =>
              aggregateRoute(fastest).score <= aggregateRoute(req.candidate).score

\* The numbers of one answer do not contradict each other: a score lies between the
\* average and the largest risk, of two routes and times the one shown with the higher
\* score has no lower level; high-risk metres are shown only if the riskiest segment is
\* high, at least as many as of any segment that is, and no more than the distance; the time-of-day risk, from another statement, repeats the score at
\* the time asked for and names a time at which it is worst; and however coarse the
\* percents, a route is shown as safer than the fastest if and only if its score is lower.
ScoresAgree ==
    Answered =>
      /\ \A r \in Shown :
           /\ r.average <= r.score /\ r.score <= r.largest
           /\ r.level <= r.riskiest
           /\ r.highRisk > 0 => r.riskiest = 2
      /\ \A p \in Displays : \A e \in ToSet(p) :
           LET r == aggregateRoute(p)
           IN /\ EdgeRisk(e) > ModerateMax => Round(Length[e], LengthUnit) <= r.highRisk
              /\ r.highRisk <= r.distance
      /\ \A r, s \in Shown : \A b, c \in Buckets :
           r.buckets[b].score < s.buckets[c].score => r.buckets[b].level <= s.buckets[c].level
      /\ \A r \in Shown :
           /\ r.buckets[req.bucket] = [score |-> r.score, level |-> r.level]
           /\ \A b \in Buckets : r.buckets[b].score <= r.buckets[r.peak].score
      /\ LET fastest == aggregateRoute(req.routes[1])
         IN \A r \in Shown :
              IF fastest.score = 0 THEN Reduction(r.score, 0) = 0
              ELSE (Reduction(r.score, fastest.score) > 0) <=> (r.score < fastest.score)

\* repository_integration_test.go: "safest risk %v exceeds fastest %v" is a failure.
SafestIsNoRiskier ==
    Answered /\ req.steady =>
      aggregateRoute(req.routes[3]).score <= aggregateRoute(req.routes[1]).score

=============================================================================
