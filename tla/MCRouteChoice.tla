---------------------------- MODULE MCRouteChoice ----------------------------
(* A block of streets with an island that only an edge too long connects. *)
EXTENDS RouteChoice

CONSTANTS a, b, c, d, i, j,                            \* nodes
          direct, via, on, around, back, island, bridge, loop   \* edges

EdgeEnds ==
    [e \in Edges |->
       CASE e = direct -> <<a, b>> [] e = via -> <<a, c>> [] e = on -> <<c, b>>
         [] e = around -> <<d, a>> [] e = back -> <<d, b>>
         [] e = island -> <<i, j>> [] e = bridge -> <<d, i>> [] e = loop -> <<a, a>>]

\* Displayed in steps of ten, and too long beyond 900.
EdgeLength ==
    [e \in Edges |->
       CASE e = direct -> 404 [] e = via -> 396 [] e = on -> 40
         [] e = around -> 366 [] e = back -> 338
         [] e = island -> 200 [] e = bridge -> 990 [] e = loop -> 100]

\* A first extract of the map, and all of it.
SomeImports == {{direct, via, on, island, bridge}, Edges}

Scores(x, y, z, w) ==
    [e \in Edges |-> CASE e = direct -> x [] e = via -> y [] e = on -> z
                       [] e = around -> w [] OTHER -> None]

\* A risky direct street, a short and very risky one, scores around the thresholds,
\* some missing, and none.
SomeScores == {Scores(100, 30, 0, 71), Scores(20, 0, 100, 68),
               Scores(29, 31, None, 75), Scores(None, None, None, None)}

SomeRisks == {[bucket \in Buckets |-> IF bucket = 4 THEN night ELSE Scores(20, 0, 100, 68)] :
                night \in SomeScores}

SomeMultipliers == <<0, 3, 6>>
SomeDetour == <<7, 4>>

=============================================================================
