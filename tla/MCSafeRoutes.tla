---------------------------- MODULE MCSafeRoutes ----------------------------
(* Instances of SafeRoutes for TLC. *)
EXTENDS SafeRoutes, TLC

\* here and near differ after the fifth decimal, and the graph ends between them;
\* from away no path leads out; wrong is not in the city.
CONSTANTS here, near, away, wrong, spot, other

TwoKeys == (here :> spot) @@ (near :> spot) @@ (away :> other) @@ (wrong :> other)
Graph == (here :> "routed") @@ (near :> "outside")
         @@ (away :> "unreachable") @@ (wrong :> "invalid")

Symmetry == Permutations(Requests) \cup Permutations(Models)
            \cup Permutations(Batches) \cup Permutations(Params)

=============================================================================
