------------------------------ MODULE RoadGraph ------------------------------
(***************************************************************************)
(* The road graph in Postgres: normalize_osm_graph.sql adds edges, and     *)
(* cleanup_road_graph.sql decides which of them may be walked, both while  *)
(* routes are searched.                                                    *)
(*                                                                         *)
(* Each script is one transaction, READ COMMITTED: a statement of the      *)
(* cleanup sees the edges a normalization has committed meanwhile.         *)
(***************************************************************************)
EXTENDS Integers, Sequences, FiniteSets

CONSTANTS
    Nodes, Edges,
    Ends,          \* [Edges -> Nodes \X Nodes]: from_node_id and to_node_id
    Length,        \* [Edges -> length_meters], in units of their own
    Valid,         \* the edges whose geometry is valid
    MaxLength,     \* 5000 m
    Imports        \* what the OSM tables may hold when they are normalized

ASSUME FiniteAssumption == IsFiniteSet(Nodes) /\ IsFiniteSet(Edges)
ASSUME EndsAssumption == Ends \in [Edges -> Nodes \X Nodes]
ASSUME LengthAssumption == Length \in [Edges -> Nat] /\ MaxLength \in Nat
ASSUME ImportAssumption == Imports \subseteq SUBSET Edges /\ Valid \subseteq Edges

VARIABLES
    quality,   \* of each row of road_edges: is_routable, or excluded_reason
    checked,   \* the rows with a quality_checked_at
    cleanup    \* the running cleanup: its next statement and its writes

graph == <<quality, checked, cleanup>>

Rules == <<"invalid_geometry", "zero_or_negative_length", "self_loop",
           "suspicious_long_edge_over_5000m", "disconnected_component">>

Quality == {"absent", "routable"} \cup {Rules[i] : i \in 1..5}

NotCleaning == [at |-> 0, own |-> [e \in Edges |-> "untouched"]]

\* at: 0 for none, a rule, or 6 for COMMIT.
GraphTypeOK ==
    /\ quality \in [Edges -> Quality]
    /\ checked \subseteq Edges
    /\ cleanup \in [at: 0..6, own: [Edges -> Quality \cup {"untouched"}]]

GraphInit ==
    /\ quality = [e \in Edges |-> "absent"]
    /\ checked = {}
    /\ cleanup = NotCleaning

Present == {e \in Edges : quality[e] # "absent"}

\* The view routable_road_edges.
Routable == {e \in Edges : quality[e] = "routable"}

-----------------------------------------------------------------------------
(* Components, without paths: a set of nodes hangs together if no way to   *)
(* cut it in two is without an edge across.                                *)

NodesOf(edges) == {n \in Nodes : \E e \in edges : n = Ends[e][1] \/ n = Ends[e][2]}

Across(e, S) == ~(Ends[e][1] \in S <=> Ends[e][2] \in S)

HangsTogether(C, edges) ==
    \A S \in SUBSET C : S # {} /\ S # C => \E e \in edges : Across(e, S)

\* pgr_connectedComponents
Components(edges) ==
    {C \in SUBSET NodesOf(edges) :
       /\ C # {}
       /\ \A e \in edges : ~Across(e, C)
       /\ HangsTogether(C, edges)}

\* The largest, by its nodes; any of them if there are more.
Giants(edges) ==
    LET components == Components(edges)
    IN {C \in components : \A D \in components : Cardinality(D) <= Cardinality(C)}

-----------------------------------------------------------------------------
(* normalize_osm_graph.sql *)

\* ON CONFLICT DO NOTHING: a row that is there stays as it is.  is_routable is true
\* and quality_checked_at NULL by default.
Normalize ==
    /\ \E batch \in Imports :
         /\ \E e \in batch : quality[e] = "absent"
         /\ quality' = [e \in Edges |->
                          IF e \in batch /\ quality[e] = "absent" THEN "routable" ELSE quality[e]]
    /\ UNCHANGED <<checked, cleanup>>

-----------------------------------------------------------------------------
(* cleanup_road_graph.sql *)

\* What a statement of the cleanup sees.
Seen == [e \in Edges |-> IF cleanup.own[e] = "untouched" THEN quality[e] ELSE cleanup.own[e]]

SeenRoutable == {e \in Edges : Seen[e] = "routable"}

Reset ==
    /\ cleanup.at = 0
    /\ cleanup' = [at |-> 1,
                   own |-> [e \in Edges |-> IF e \in Present THEN "routable" ELSE "untouched"]]
    /\ UNCHANGED <<quality, checked>>

Breaks(e, rule) ==
    CASE rule = 1 -> e \notin Valid
      [] rule = 2 -> Length[e] <= 0
      [] rule = 3 -> Ends[e][1] = Ends[e][2]
      [] rule = 4 -> Length[e] > MaxLength

\* UPDATE ... WHERE is_routable AND ..., with the rows it finds.
Exclude(edges) ==
    /\ cleanup' = [at |-> cleanup.at + 1,
                   own |-> [e \in Edges |->
                              IF e \in edges THEN Rules[cleanup.at] ELSE cleanup.own[e]]]
    /\ UNCHANGED <<quality, checked>>

\* Rules 1 to 4 look at one row at a time.
ExcludeUnfit ==
    /\ cleanup.at \in 1..4
    /\ Exclude({e \in SeenRoutable : Breaks(e, cleanup.at)})

\* Mutant of ExcludeIslands: components of the graph as it was imported.
ExcludeImportedIslands ==
    /\ cleanup.at = 5
    /\ \/ Present = {} /\ Exclude({})
       \/ \E giant \in Giants(Present) :
            Exclude({e \in SeenRoutable : Ends[e][1] \notin giant})

\* Rule 5: components of the graph that survived the rules before.
ExcludeIslands ==
    /\ cleanup.at = 5
    /\ \/ SeenRoutable = {} /\ Exclude({})
       \/ \E giant \in Giants(SeenRoutable) :
            Exclude({e \in SeenRoutable : Ends[e][1] \notin giant})

CommitCleanup ==
    /\ cleanup.at = 6
    /\ quality' = Seen
    /\ checked' = checked \cup {e \in Edges : cleanup.own[e] # "untouched"}
    /\ cleanup' = NotCleaning

\* A statement fails (ON_ERROR_STOP), or psql dies.
RollbackCleanup ==
    /\ cleanup.at # 0
    /\ cleanup' = NotCleaning
    /\ UNCHANGED <<quality, checked>>

GraphNext ==
    \/ Normalize
    \/ Reset \/ ExcludeUnfit \/ ExcludeIslands \/ CommitCleanup \/ RollbackCleanup

GraphSpec == GraphInit /\ [][GraphNext]_graph

-----------------------------------------------------------------------------
(* Properties *)

\* All rows have been through a cleanup since they were inserted.
Clean == Present \subseteq checked

\* "Nearest-edge snapping can never strand a route request on an isolated island":
\* once all rows are checked, the routable ones are fit and hang together, although
\* rows are added while the cleanup runs.
OneComponent ==
    Clean =>
      /\ \A e \in Routable : \A rule \in 1..4 : ~Breaks(e, rule)
      /\ HangsTogether(NodesOf(Routable), Routable)

=============================================================================
