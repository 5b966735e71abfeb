-------------------------- MODULE RouteChoiceProofs --------------------------
(* What RouteChoice and its graph keep, for every graph and every risk. *)
EXTENDS RouteChoice, FiniteSetTheorems, TLAPS

-----------------------------------------------------------------------------
(* Types *)

LEMMA RulesAreReasons ==
    ASSUME NEW i \in 1..5
    PROVE  Rules[i] \in Quality /\ Rules[i] \notin {"absent", "routable", "untouched"}
BY DEF Rules, Quality

LEMMA RoutableIsQuality == {"absent", "routable"} \subseteq Quality
BY DEF Quality

LEMMA GraphTypesInit == GraphInit => GraphTypeOK
BY RoutableIsQuality DEF GraphInit, GraphTypeOK, NotCleaning

LEMMA SeenIsQuality == GraphTypeOK => Seen \in [Edges -> Quality]
<1>1. SUFFICES ASSUME GraphTypeOK, NEW e \in Edges
               PROVE  (IF cleanup.own[e] = "untouched" THEN quality[e] ELSE cleanup.own[e])
                        \in Quality
  BY DEF Seen
<1>2. quality[e] \in Quality /\ cleanup.own[e] \in Quality \cup {"untouched"}
  BY <1>1 DEF GraphTypeOK
<1>3. QED BY <1>2

LEMMA ExcludeTypes ==
    ASSUME GraphTypeOK, cleanup.at \in 1..5, NEW edges, Exclude(edges)
    PROVE  GraphTypeOK'
<1>1. Rules[cleanup.at] \in Quality
  BY RulesAreReasons
<1>2. cleanup.own \in [Edges -> Quality \cup {"untouched"}]
  BY DEF GraphTypeOK
<1>3. cleanup' \in [at: 0..6, own: [Edges -> Quality \cup {"untouched"}]]
  BY <1>1, <1>2 DEF Exclude
<1>4. QED BY <1>3 DEF Exclude, GraphTypeOK

LEMMA GraphTypesStep == GraphTypeOK /\ GraphNext => GraphTypeOK'
<1> SUFFICES ASSUME GraphTypeOK, GraphNext PROVE GraphTypeOK'
  OBVIOUS
<1>1. CASE Normalize
  BY <1>1, RoutableIsQuality DEF Normalize, GraphTypeOK
<1>2. CASE Reset
  <2>1. cleanup' \in [at: 0..6, own: [Edges -> Quality \cup {"untouched"}]]
    BY <1>2, RoutableIsQuality DEF Reset
  <2>2. QED BY <1>2, <2>1 DEF Reset, GraphTypeOK
<1>3. CASE ExcludeUnfit
  BY <1>3, ExcludeTypes DEF ExcludeUnfit
<1>4. CASE ExcludeIslands
  <2>1. cleanup.at \in 1..5
    BY <1>4 DEF ExcludeIslands
  <2>2. CASE SeenRoutable = {} /\ Exclude({})
    BY <2>1, <2>2, ExcludeTypes
  <2>3. ASSUME NEW giant \in Giants(SeenRoutable),
               Exclude({e \in SeenRoutable : Ends[e][1] \notin giant})
        PROVE  GraphTypeOK'
    BY <2>1, <2>3, ExcludeTypes
  <2>4. QED BY <1>4, <2>2, <2>3 DEF ExcludeIslands
<1>5. CASE CommitCleanup
  BY <1>5, SeenIsQuality DEF CommitCleanup, GraphTypeOK, NotCleaning
<1>6. CASE RollbackCleanup
  BY <1>6 DEF RollbackCleanup, GraphTypeOK, NotCleaning
<1>7. QED BY <1>1, <1>2, <1>3, <1>4, <1>5, <1>6 DEF GraphNext

-----------------------------------------------------------------------------
(* One component *)

\* What the cleanup has written so far.
OwnRoutable == {e \in Edges : cleanup.own[e] = "routable"}

Touched(e) == cleanup.own[e] # "untouched"

\* The writes of a cleanup are of rows that were there, all that have ever been checked
\* among them; those it leaves routable have passed the rules so far.
CleanupSound ==
    /\ checked \subseteq Present
    /\ cleanup.at = 0 => \A e \in Edges : ~Touched(e)
    /\ \A e \in Edges : Touched(e) => e \in Present /\ cleanup.own[e] # "absent"
    /\ cleanup.at # 0 => \A e \in checked : Touched(e)
    /\ \A e \in OwnRoutable : \A rule \in 1..4 : rule < cleanup.at => ~Breaks(e, rule)

\* After the last rule: if nothing was added that the cleanup has not written, what it
\* leaves routable hangs together.
ComponentKept ==
    cleanup.at = 6 /\ (\A e \in Present : Touched(e)) =>
        HangsTogether(NodesOf(OwnRoutable), OwnRoutable)

GraphInv == GraphTypeOK /\ CleanupSound /\ ComponentKept /\ OneComponent

\* The edges with their first end in a component are the edges within it, and they
\* connect it.
LEMMA ComponentHangsTogether ==
    ASSUME NEW edges \in SUBSET Edges, NEW C \in Components(edges),
           NEW inside, inside = {e \in edges : Ends[e][1] \in C}
    PROVE  HangsTogether(NodesOf(inside), inside)
<1>1. /\ C \subseteq NodesOf(edges)
      /\ \A e \in edges : Ends[e][1] \in C <=> Ends[e][2] \in C
      /\ HangsTogether(C, edges)
  BY DEF Components, Across
<1>2. NodesOf(inside) = C
  <2>1. NodesOf(inside) \subseteq C
    BY <1>1 DEF NodesOf
  <2>2. ASSUME NEW n \in C PROVE n \in NodesOf(inside)
    <3>1. PICK e \in edges : n = Ends[e][1] \/ n = Ends[e][2]
      BY <1>1 DEF NodesOf
    <3>2. e \in inside
      BY <1>1, <3>1
    <3>3. n \in Nodes
      BY <1>1 DEF NodesOf
    <3>4. QED BY <3>1, <3>2, <3>3 DEF NodesOf
  <2>3. QED BY <2>1, <2>2
<1>3. ASSUME NEW S \in SUBSET C, S # {}, S # C
      PROVE  \E e \in inside : Across(e, S)
  <2>1. PICK e \in edges : Across(e, S)
    BY <1>1, <1>3 DEF HangsTogether
  <2>2. e \in inside
    BY <1>1, <2>1 DEF Across
  <2>3. QED BY <2>1, <2>2
<1>4. QED BY <1>2, <1>3 DEF HangsTogether

LEMMA EmptyHangsTogether == HangsTogether(NodesOf({}), {})
BY DEF HangsTogether, NodesOf

LEMMA GraphInvInit == GraphInit => GraphInv
<1> SUFFICES ASSUME GraphInit PROVE GraphInv
  OBVIOUS
<1>1. Present = {} /\ Routable = {} /\ checked = {} /\ cleanup.at = 0
  BY DEF GraphInit, Present, Routable, NotCleaning
<1>2. \A e \in Edges : cleanup.own[e] = "untouched"
  BY DEF GraphInit, NotCleaning
<1>3. CleanupSound
  BY <1>1, <1>2 DEF CleanupSound, Touched, OwnRoutable
<1>4. ComponentKept
  BY <1>1 DEF ComponentKept
<1>5. OneComponent
  BY <1>1, EmptyHangsTogether DEF OneComponent
<1>6. QED BY <1>3, <1>4, <1>5, GraphTypesInit DEF GraphInv

\* Rows are added that no cleanup has checked.
LEMMA NormalizeKeeps == GraphInv /\ Normalize => GraphInv'
<1> SUFFICES ASSUME GraphInv, Normalize PROVE GraphInv'
  OBVIOUS
<1>1. PICK batch \in Imports :
        /\ \E e \in batch : quality[e] = "absent"
        /\ quality' = [e \in Edges |->
              IF e \in batch /\ quality[e] = "absent" THEN "routable" ELSE quality[e]]
  BY DEF Normalize
<1>2. checked' = checked /\ cleanup' = cleanup
  BY DEF Normalize
<1>3. Present \subseteq Present'
  BY <1>1 DEF Present
<1>4. PICK new \in Edges : quality[new] = "absent" /\ new \in Present'
  BY <1>1, ImportAssumption DEF Present
<1>5. new \notin checked /\ ~Touched(new)
  BY <1>4 DEF GraphInv, CleanupSound, Present
<1>6. OwnRoutable' = OwnRoutable /\ \A e : Touched(e)' <=> Touched(e)
  BY <1>2 DEF OwnRoutable, Touched
<1>7. CleanupSound'
  <2>1. (checked \subseteq Present)'
    BY <1>2, <1>3 DEF GraphInv, CleanupSound
  <2>2. (\A e \in Edges : Touched(e) => e \in Present /\ cleanup.own[e] # "absent")'
    BY <1>2, <1>3, <1>6 DEF GraphInv, CleanupSound
  <2>3. (\A e \in OwnRoutable : \A rule \in 1..4 : rule < cleanup.at => ~Breaks(e, rule))'
    BY <1>2, <1>6 DEF GraphInv, CleanupSound, Breaks
  <2>4. QED BY <1>2, <1>6, <2>1, <2>2, <2>3 DEF GraphInv, CleanupSound
<1>8. ComponentKept'
  BY <1>4, <1>5, <1>6 DEF ComponentKept
<1>9. OneComponent'
  BY <1>2, <1>4, <1>5 DEF OneComponent, Clean
<1>10. GraphTypeOK'
  BY GraphTypesStep DEF GraphInv, GraphNext
<1>11. QED BY <1>7, <1>8, <1>9, <1>10 DEF GraphInv

LEMMA ResetKeeps == GraphInv /\ Reset => GraphInv'
<1> SUFFICES ASSUME GraphInv, Reset PROVE GraphInv'
  OBVIOUS
<1>1. quality' = quality /\ checked' = checked /\ cleanup'.at = 1
  BY DEF Reset
<1>2. cleanup'.own = [e \in Edges |-> IF e \in Present THEN "routable" ELSE "untouched"]
  BY DEF Reset
<1>3. Present' = Present /\ Routable' = Routable
  BY <1>1 DEF Present, Routable
<1>4. CleanupSound'
  BY <1>1, <1>2, <1>3 DEF GraphInv, CleanupSound, Touched, OwnRoutable, Present
<1>5. ComponentKept'
  BY <1>1 DEF ComponentKept
<1>6. OneComponent'
  BY <1>1, <1>3 DEF GraphInv, OneComponent, Clean, Breaks
<1>7. GraphTypeOK'
  BY GraphTypesStep DEF GraphInv, GraphNext
<1>8. QED BY <1>4, <1>5, <1>6, <1>7 DEF GraphInv

\* A rule that leaves the rows it finds without a reason has been passed by the rest.
LEMMA ExcludeKeeps ==
    ASSUME GraphInv, cleanup.at \in 1..5, NEW edges \in SUBSET SeenRoutable, Exclude(edges),
           cleanup.at \in 1..4 => edges = {e \in SeenRoutable : Breaks(e, cleanup.at)}
    PROVE  GraphTypeOK' /\ CleanupSound' /\ OneComponent'
<1>1. quality' = quality /\ checked' = checked /\ cleanup'.at = cleanup.at + 1
  BY DEF Exclude
<1>2. cleanup'.own = [e \in Edges |->
                        IF e \in edges THEN Rules[cleanup.at] ELSE cleanup.own[e]]
  BY DEF Exclude
<1>3. Present' = Present /\ Routable' = Routable
  BY <1>1 DEF Present, Routable
<1>4. Rules[cleanup.at] \notin {"absent", "routable", "untouched"}
  BY RulesAreReasons
<1>5. edges \subseteq Present
  BY DEF SeenRoutable, Seen, GraphInv, CleanupSound, Present, Touched
<1>6. \A e \in Edges : Touched(e)' <=> Touched(e) \/ e \in edges
  BY <1>2, <1>4 DEF Touched
<1>7. OwnRoutable' = OwnRoutable \ edges
  BY <1>2, <1>4 DEF OwnRoutable
<1>8. OwnRoutable \subseteq SeenRoutable
  BY DEF OwnRoutable, SeenRoutable, Seen
<1>9. CleanupSound'
  <2>1. (checked \subseteq Present)' /\ cleanup'.at # 0
    BY <1>1, <1>3 DEF GraphInv, CleanupSound
  <2>2. (\A e \in Edges : Touched(e) => e \in Present /\ cleanup.own[e] # "absent")'
    <3> SUFFICES ASSUME NEW e \in Edges, Touched(e)'
                 PROVE  e \in Present' /\ cleanup'.own[e] # "absent"
      OBVIOUS
    <3>1. CASE e \in edges
      BY <3>1, <1>2, <1>3, <1>4, <1>5
    <3>2. CASE e \notin edges
      BY <3>2, <1>2, <1>3, <1>6 DEF GraphInv, CleanupSound
    <3>3. QED BY <3>1, <3>2
  <2>3. (\A e \in checked : Touched(e))'
    BY <1>1, <1>6 DEF GraphInv, CleanupSound, GraphTypeOK
  <2>4. (\A e \in OwnRoutable : \A rule \in 1..4 : rule < cleanup.at => ~Breaks(e, rule))'
    <3> SUFFICES ASSUME NEW e \in OwnRoutable', NEW rule \in 1..4, rule < cleanup'.at
                 PROVE  ~Breaks(e, rule)
      BY DEF Breaks
    <3>1. e \in OwnRoutable /\ e \notin edges /\ e \in SeenRoutable
      BY <1>7, <1>8
    <3>2. CASE rule < cleanup.at
      BY <3>1, <3>2 DEF GraphInv, CleanupSound
    <3>3. CASE rule = cleanup.at
      BY <3>1, <3>3
    <3>4. QED BY <1>1, <3>2, <3>3
  <2>5. QED BY <2>1, <2>2, <2>3, <2>4 DEF CleanupSound
<1>10. OneComponent'
  BY <1>1, <1>3 DEF GraphInv, OneComponent, Clean, Breaks
<1>11. QED BY <1>9, <1>10, ExcludeTypes DEF GraphInv

LEMMA ExcludeUnfitKeeps == GraphInv /\ ExcludeUnfit => GraphInv'
<1> SUFFICES ASSUME GraphInv, ExcludeUnfit PROVE GraphInv'
  OBVIOUS
<1>1. cleanup.at \in 1..4 /\ Exclude({e \in SeenRoutable : Breaks(e, cleanup.at)})
  BY DEF ExcludeUnfit
<1>2. GraphTypeOK' /\ CleanupSound' /\ OneComponent'
  BY <1>1, ExcludeKeeps
<1>3. ComponentKept'
  BY <1>1 DEF ComponentKept, Exclude
<1>4. QED BY <1>2, <1>3 DEF GraphInv

LEMMA ExcludeIslandsKeeps == GraphInv /\ ExcludeIslands => GraphInv'
<1> SUFFICES ASSUME GraphInv, ExcludeIslands PROVE GraphInv'
  OBVIOUS
<1>1. cleanup.at = 5
  BY DEF ExcludeIslands
<1>2. ASSUME NEW edges \in SUBSET SeenRoutable, Exclude(edges),
             HangsTogether(NodesOf(SeenRoutable \ edges), SeenRoutable \ edges)
      PROVE  GraphInv'
  <2>1. GraphTypeOK' /\ CleanupSound' /\ OneComponent'
    BY <1>1, <1>2, ExcludeKeeps
  <2>2. cleanup'.own = [e \in Edges |-> IF e \in edges THEN Rules[5] ELSE cleanup.own[e]]
    BY <1>1, <1>2 DEF Exclude
  <2>3. quality' = quality /\ Rules[5] \notin {"absent", "routable", "untouched"}
    BY <1>2, RulesAreReasons DEF Exclude
  <2>4. ASSUME \A e \in Present' : Touched(e)'
        PROVE  OwnRoutable' = SeenRoutable \ edges
    <3>1. OwnRoutable' \subseteq SeenRoutable \ edges
      BY <2>2, <2>3 DEF OwnRoutable, SeenRoutable, Seen
    <3>2. ASSUME NEW e \in SeenRoutable \ edges PROVE e \in OwnRoutable'
      <4>1. e \in Edges /\ Seen[e] = "routable" /\ cleanup'.own[e] = cleanup.own[e]
        BY <2>2 DEF SeenRoutable
      <4>2. cleanup.own[e] # "untouched"
        <5>1. SUFFICES ASSUME cleanup.own[e] = "untouched" PROVE FALSE
          OBVIOUS
        <5>2. quality[e] = "routable"
          BY <4>1, <5>1 DEF Seen
        <5>3. e \in Present'
          BY <4>1, <5>2, <2>3 DEF Present
        <5>4. QED BY <2>4, <4>1, <5>1, <5>3 DEF Touched
      <4>3. QED BY <4>1, <4>2 DEF Seen, OwnRoutable
    <3>3. QED BY <3>1, <3>2
  <2>5. ComponentKept'
    BY <1>2, <2>4 DEF ComponentKept, HangsTogether, NodesOf, Across
  <2>6. QED BY <2>1, <2>5 DEF GraphInv
<1>3. CASE SeenRoutable = {} /\ Exclude({})
  BY <1>2, <1>3, EmptyHangsTogether
<1>4. ASSUME NEW giant \in Giants(SeenRoutable),
             Exclude({e \in SeenRoutable : Ends[e][1] \notin giant})
      PROVE  GraphInv'
  <2>1. giant \in Components(SeenRoutable) /\ SeenRoutable \subseteq Edges
    BY DEF Giants, SeenRoutable
  <2> DEFINE out == {e \in SeenRoutable : Ends[e][1] \notin giant}
             inside == {e \in SeenRoutable : Ends[e][1] \in giant}
  <2>2. SeenRoutable \ out = inside
    OBVIOUS
  <2>3. HangsTogether(NodesOf(inside), inside)
    BY <2>1, ComponentHangsTogether
  <2>4. QED BY <1>2, <1>4, <2>2, <2>3
<1>5. QED BY <1>3, <1>4 DEF ExcludeIslands

LEMMA CommitCleanupKeeps == GraphInv /\ CommitCleanup => GraphInv'
<1> SUFFICES ASSUME GraphInv, CommitCleanup PROVE GraphInv'
  OBVIOUS
<1>1. /\ cleanup.at = 6 /\ quality' = Seen /\ cleanup' = NotCleaning
      /\ checked' = checked \cup {e \in Edges : Touched(e)}
  BY DEF CommitCleanup, Touched
<1>2. Present' = Present
  BY <1>1 DEF Present, Seen, GraphInv, CleanupSound, Touched
<1>3. checked' = {e \in Edges : Touched(e)}
  BY <1>1 DEF GraphInv, CleanupSound, GraphTypeOK
<1>4. CleanupSound'
  <2>1. OwnRoutable' = {} /\ \A e \in Edges : ~Touched(e)'
    BY <1>1 DEF OwnRoutable, NotCleaning, Touched
  <2>2. cleanup'.at = 0
    BY <1>1 DEF NotCleaning
  <2>3. checked' \subseteq Present'
    BY <1>2, <1>3 DEF GraphInv, CleanupSound
  <2>4. QED BY <2>1, <2>2, <2>3 DEF CleanupSound
<1>5. ComponentKept'
  BY <1>1 DEF ComponentKept, NotCleaning
<1>6. OneComponent'
  <2> SUFFICES ASSUME Clean'
               PROVE  /\ \A e \in Routable' : \A rule \in 1..4 : ~Breaks(e, rule)
                      /\ HangsTogether(NodesOf(Routable'), Routable')
    BY DEF OneComponent, HangsTogether, NodesOf, Across, Breaks
  <2>1. \A e \in Present : Touched(e)
    BY <1>2, <1>3 DEF Clean
  <2>2. Routable' = OwnRoutable
    BY <1>1, <2>1 DEF Routable, OwnRoutable, Seen, Present, Touched
  <2>3. HangsTogether(NodesOf(Routable'), Routable')
    BY <1>1, <2>1, <2>2 DEF GraphInv, ComponentKept
  <2>4. \A e \in Routable' : \A rule \in 1..4 : ~Breaks(e, rule)
    BY <1>1, <2>2 DEF GraphInv, CleanupSound
  <2>5. QED BY <2>3, <2>4
<1>7. GraphTypeOK'
  BY GraphTypesStep DEF GraphInv, GraphNext
<1>8. QED BY <1>4, <1>5, <1>6, <1>7 DEF GraphInv

LEMMA RollbackCleanupKeeps == GraphInv /\ RollbackCleanup => GraphInv'
<1> SUFFICES ASSUME GraphInv, RollbackCleanup PROVE GraphInv'
  OBVIOUS
<1>1. quality' = quality /\ checked' = checked /\ cleanup' = NotCleaning
  BY DEF RollbackCleanup
<1>2. Present' = Present /\ Routable' = Routable
  BY <1>1 DEF Present, Routable
<1>3. cleanup'.at = 0 /\ OwnRoutable' = {} /\ \A e \in Edges : ~Touched(e)'
  BY <1>1 DEF OwnRoutable, NotCleaning, Touched
<1>4. CleanupSound'
  BY <1>1, <1>2, <1>3 DEF GraphInv, CleanupSound
<1>5. ComponentKept' /\ OneComponent'
  BY <1>1, <1>2, <1>3 DEF GraphInv, ComponentKept, OneComponent, Clean, Breaks
<1>6. GraphTypeOK'
  BY GraphTypesStep DEF GraphInv, GraphNext
<1>7. QED BY <1>4, <1>5, <1>6 DEF GraphInv

LEMMA GraphInvStep == GraphInv /\ [GraphNext]_graph => GraphInv'
<1> SUFFICES ASSUME GraphInv, [GraphNext]_graph PROVE GraphInv'
  OBVIOUS
<1>1. CASE GraphNext
  BY <1>1, NormalizeKeeps, ResetKeeps, ExcludeUnfitKeeps, ExcludeIslandsKeeps,
     CommitCleanupKeeps, RollbackCleanupKeeps DEF GraphNext
<1>2. CASE UNCHANGED graph
  <2>1. quality' = quality /\ checked' = checked /\ cleanup' = cleanup
    BY <1>2 DEF graph
  <2>2. Present' = Present /\ Routable' = Routable /\ OwnRoutable' = OwnRoutable
    BY <2>1 DEF Present, Routable, OwnRoutable
  <2>3. GraphTypeOK'
    BY <2>1 DEF GraphInv, GraphTypeOK
  <2>4. CleanupSound'
    BY <2>1, <2>2 DEF GraphInv, CleanupSound, Touched, Breaks
  <2>5. ComponentKept'
    BY <2>1, <2>2 DEF GraphInv, ComponentKept, Touched, HangsTogether, NodesOf, Across
  <2>6. OneComponent'
    BY <2>1, <2>2 DEF GraphInv, OneComponent, Clean, Breaks, HangsTogether, NodesOf, Across
  <2>7. QED BY <2>3, <2>4, <2>5, <2>6 DEF GraphInv
<1>3. QED BY <1>1, <1>2

\* Steps of the request leave the graph as it is.
LEMMA StepsOfTheGraph == [Next]_vars => [GraphNext]_graph
BY DEF Next, vars, graph, Arrive, SnapEndpoints, FindRoute, FindCandidates, Respond, GraphStep

\* RouteChoice.OneComponent, for every graph and every extract of the map: once all rows
\* have been through a cleanup, what cleanup_road_graph.sql leaves routable is fit and
\* connected, although normalize_osm_graph.sql adds rows while it runs.
THEOREM OneComponentHolds == Spec => []OneComponent
<1>1. Init => GraphInv
  BY GraphInvInit DEF Init
<1>2. GraphInv /\ [Next]_vars => GraphInv'
  BY GraphInvStep, StepsOfTheGraph
<1>3. GraphInv => OneComponent
  BY DEF GraphInv
<1>4. QED BY <1>1, <1>2, <1>3, PTL DEF Spec

-----------------------------------------------------------------------------
(* Natural numbers *)

LEMMA LeastNat ==
    ASSUME NEW T \in SUBSET Nat, T # {}
    PROVE  \E n \in T : \A m \in T : n <= m
<1>1. PICK n \in T : \A m \in T : <<m, n>> \notin OpToRel(<, Nat)
  BY WFMin, NatLessThanWellFounded, Zenon
<1>2. \A m \in T : ~(m < n)
  BY <1>1, Zenon DEF OpToRel
<1> QED BY <1>2

\* Induction, for a set in the place of a predicate.
LEMMA Induction ==
    ASSUME NEW S, 0 \in S, \A n \in Nat : n \in S => n + 1 \in S
    PROVE  Nat \subseteq S
<1> DEFINE T == Nat \ S
<1>1. SUFFICES ASSUME T # {} PROVE FALSE
  OBVIOUS
<1>2. PICK n \in T : \A m \in T : n <= m
  <2> HIDE DEF T
  <2>1. T \in SUBSET Nat
    BY DEF T
  <2> QED BY <1>1, <2>1, LeastNat
<1>3. n # 0 /\ n \in Nat
  OBVIOUS
<1>4. n - 1 \in Nat /\ n - 1 \notin T
  BY <1>2, <1>3
<1> QED BY <1>4

LEMMA LargestNat ==
    ASSUME NEW T \in SUBSET Nat, T # {}, NEW most \in Nat, \A i \in T : i <= most
    PROVE  \E n \in T : \A i \in T : i <= n
<1> DEFINE from == {most - i : i \in T}
<1>1. from \in SUBSET Nat /\ from # {}
  <2>1. \A i \in T : most - i \in Nat
    OBVIOUS
  <2>2. PICK i \in T : TRUE
    OBVIOUS
  <2>3. most - i \in from
    OBVIOUS
  <2> QED BY <2>1, <2>3
<1>2. PICK d \in from : \A e \in from : d <= e
  <2> HIDE DEF from
  <2> QED BY <1>1, LeastNat
<1>3. PICK n \in T : d = most - n
  OBVIOUS
<1>4. ASSUME NEW i \in T PROVE i <= n
  BY <1>2, <1>3
<1> QED BY <1>4

\* f starts with a, and g makes the next value of the last.
Iterates(f, V, a, g) ==
    f \in [Nat -> V] /\ f[0] = a /\ \A n \in Nat : f[n + 1] = g[<<n, f[n]>>]

\* What is defined by recursion on the naturals exists.
LEMMA Recursion ==
    ASSUME NEW V, NEW a \in V, NEW g \in [Nat \X V -> V]
    PROVE  \E f : Iterates(f, V, a, g)
<1> DEFINE Begins(n, h) == /\ h \in [0..n -> V]
                           /\ h[0] = a
                           /\ \A m \in 0..(n - 1) : h[m + 1] = g[<<m, h[m]>>]
           S == {n \in Nat : \E h \in [0..n -> V] : Begins(n, h)}
<1>1. 0 \in S
  <2> DEFINE h == [m \in 0..0 |-> a]
  <2>1. h \in [0..0 -> V] /\ h[0] = a
    OBVIOUS
  <2>2. Begins(0, h)
    BY <2>1
  <2> QED BY <2>1, <2>2
<1>2. ASSUME NEW n \in Nat, n \in S PROVE n + 1 \in S
  <2>1. PICK h \in [0..n -> V] : Begins(n, h)
    BY <1>2
  <2> DEFINE k == [m \in 0..(n + 1) |-> IF m = n + 1 THEN g[<<n, h[n]>>] ELSE h[m]]
  <2>2. h[n] \in V /\ g[<<n, h[n]>>] \in V
    OBVIOUS
  <2>3. k \in [0..(n + 1) -> V]
    BY <2>2
  <2>4. k[0] = a
    BY <2>1
  <2>5. ASSUME NEW m \in 0..((n + 1) - 1) PROVE k[m + 1] = g[<<m, k[m]>>]
    <3>1. m \in 0..n /\ m + 1 \in 0..(n + 1) /\ k[m] = h[m]
      OBVIOUS
    <3>2. CASE m = n
      BY <3>1, <3>2
    <3>3. CASE m # n
      <4>1. m \in 0..(n - 1) /\ m + 1 # n + 1
        BY <3>1, <3>3
      <4>2. k[m + 1] = h[m + 1]
        BY <3>1, <4>1
      <4>3. h[m + 1] = g[<<m, h[m]>>]
        BY <2>1, <4>1
      <4> QED BY <3>1, <4>2, <4>3
    <3> QED BY <3>2, <3>3
  <2> HIDE DEF k
  <2>6. Begins(n + 1, k)
    BY <2>3, <2>4, <2>5
  <2> HIDE DEF Begins
  <2> QED BY <2>3, <2>6
<1>3. Nat \subseteq S
  <2> HIDE DEF S
  <2> QED BY <1>1, <1>2, Induction
<1> DEFINE H(n) == CHOOSE h \in [0..n -> V] : Begins(n, h)
<1>4. ASSUME NEW n \in Nat PROVE Begins(n, H(n))
  <2>1. \E h \in [0..n -> V] : Begins(n, h)
    BY <1>3
  <2> HIDE DEF Begins
  <2> QED BY <2>1
<1> HIDE DEF H
<1>5. ASSUME NEW n \in Nat PROVE H(n + 1)[n] = H(n)[n]
  <2> DEFINE U == {m \in Nat : m <= n => H(n + 1)[m] = H(n)[m]}
  <2>1. Begins(n, H(n)) /\ Begins(n + 1, H(n + 1))
    BY <1>4
  <2>2. 0 \in U
    BY <2>1
  <2>3. ASSUME NEW m \in Nat, m \in U PROVE m + 1 \in U
    <3> SUFFICES ASSUME m + 1 <= n PROVE H(n + 1)[m + 1] = H(n)[m + 1]
      OBVIOUS
    <3>1. H(n + 1)[m] = H(n)[m]
      BY <2>3
    <3>2. m \in 0..(n - 1) /\ m \in 0..((n + 1) - 1)
      OBVIOUS
    <3> QED BY <2>1, <3>1, <3>2
  <2>4. Nat \subseteq U
    <3> HIDE DEF U
    <3> QED BY <2>2, <2>3, Induction
  <2> QED BY <2>4
<1> DEFINE f == [n \in Nat |-> H(n)[n]]
<1>6. f \in [Nat -> V] /\ f[0] = a
  BY <1>4
<1>7. \A n \in Nat : f[n + 1] = g[<<n, f[n]>>]
  <2> SUFFICES ASSUME NEW n \in Nat PROVE H(n + 1)[n + 1] = g[<<n, H(n)[n]>>]
    OBVIOUS
  <2>1. Begins(n + 1, H(n + 1)) /\ n \in 0..((n + 1) - 1)
    BY <1>4
  <2>2. H(n + 1)[n + 1] = g[<<n, H(n + 1)[n]>>]
    BY <2>1
  <2> QED BY <1>5, <2>2
<1>8. Iterates(f, V, a, g)
  <2> HIDE DEF f
  <2> QED BY <1>6, <1>7 DEF Iterates
<1> QED BY <1>8

-----------------------------------------------------------------------------
(* Sums *)

Weights == [Edges -> Nat]

UpTo(weight, p) ==
    CHOOSE f : f = [n \in 0..Len(p) |-> IF n = 0 THEN 0 ELSE f[n - 1] + weight[p[n]]]

LEMMA SumUnfolds ==
    ASSUME NEW weight \in Weights, NEW p \in Seq(Edges)
    PROVE  /\ Sum(weight, p) = UpTo(weight, p)[Len(p)]
           /\ UpTo(weight, p) \in [0..Len(p) -> Nat] /\ UpTo(weight, p)[0] = 0
           /\ \A n \in 1..Len(p) : UpTo(weight, p)[n] = UpTo(weight, p)[n - 1] + weight[p[n]]
<1> DEFINE g == [x \in Nat \X Nat |->
                  IF x[1] + 1 \in 1..Len(p) THEN x[2] + weight[p[x[1] + 1]] ELSE x[2]]
<1>1. g \in [Nat \X Nat -> Nat]
  BY DEF Weights
<1>2. PICK f : Iterates(f, Nat, 0, g)
  <2> HIDE DEF g
  <2>1. 0 \in Nat
    OBVIOUS
  <2> QED BY <1>1, <2>1, Recursion
<1> DEFINE u == [n \in 0..Len(p) |-> f[n]]
<1>3. ASSUME NEW n \in 1..Len(p) PROVE f[n] = f[n - 1] + weight[p[n]]
  <2>1. n - 1 \in Nat /\ (n - 1) + 1 = n /\ f[n - 1] \in Nat
    BY <1>2 DEF Iterates
  <2>2. f[n] = g[<<n - 1, f[n - 1]>>]
    BY <1>2, <2>1 DEF Iterates
  <2> QED BY <2>1, <2>2
<1>4. u = [n \in 0..Len(p) |-> IF n = 0 THEN 0 ELSE u[n - 1] + weight[p[n]]]
  <2> SUFFICES ASSUME NEW n \in 0..Len(p)
               PROVE  f[n] = IF n = 0 THEN 0 ELSE u[n - 1] + weight[p[n]]
    OBVIOUS
  <2>1. n # 0 => n \in 1..Len(p) /\ n - 1 \in 0..Len(p)
    OBVIOUS
  <2> QED BY <1>2, <1>3, <2>1 DEF Iterates
<1>5. UpTo(weight, p) =
        [n \in 0..Len(p) |-> IF n = 0 THEN 0 ELSE UpTo(weight, p)[n - 1] + weight[p[n]]]
  <2> HIDE DEF u
  <2> QED BY <1>4 DEF UpTo
<1> DEFINE v == UpTo(weight, p)
<1>6. Sum(weight, p) = v[Len(p)]
  BY DEF Sum, UpTo
<1> HIDE DEF v
<1>7. DOMAIN v = 0..Len(p) /\ v[0] = 0 /\ \A n \in 1..Len(p) : v[n] = v[n - 1] + weight[p[n]]
  <2>1. v = [n \in 0..Len(p) |-> IF n = 0 THEN 0 ELSE v[n - 1] + weight[p[n]]]
    BY <1>5 DEF v
  <2>2. DOMAIN v = 0..Len(p)
    BY <2>1
  <2>3. 0 \in 0..Len(p) /\ \A n \in 1..Len(p) : n \in 0..Len(p) /\ n # 0
    OBVIOUS
  <2>4. \A n \in 0..Len(p) : v[n] = IF n = 0 THEN 0 ELSE v[n - 1] + weight[p[n]]
    BY <2>1, Zenon
  <2> QED BY <2>2, <2>3, <2>4
<1>8. \A n \in 0..Len(p) : v[n] \in Nat
  <2> DEFINE S == {n \in Nat : n \in 0..Len(p) => v[n] \in Nat}
  <2>1. 0 \in S
    BY <1>7
  <2>2. ASSUME NEW n \in Nat, n \in S PROVE n + 1 \in S
    <3> SUFFICES ASSUME n + 1 \in 0..Len(p) PROVE v[n + 1] \in Nat
      OBVIOUS
    <3>1. n + 1 \in 1..Len(p) /\ (n + 1) - 1 = n /\ v[n] \in Nat
      BY <2>2
    <3>3. weight[p[n + 1]] \in Nat
      <4>1. p[n + 1] \in Edges
        BY <3>1
      <4> QED BY <4>1 DEF Weights
    <3>2. v[n + 1] = v[n] + weight[p[n + 1]]
      <4>1. v[n + 1] = v[(n + 1) - 1] + weight[p[n + 1]]
        BY <1>7, <3>1
      <4> QED BY <3>1, <4>1
    <3> DEFINE x == v[n]
               y == weight[p[n + 1]]
    <3>4. x \in Nat /\ y \in Nat /\ v[n + 1] = x + y
      BY <3>1, <3>2, <3>3
    <3> HIDE DEF x, y
    <3> QED BY <3>4
  <2>3. Nat \subseteq S
    <3> HIDE DEF S
    <3> QED BY <2>1, <2>2, Induction
  <2> QED BY <2>3
<1>9. v \in [0..Len(p) -> Nat]
  <2>1. v = [n \in 0..Len(p) |-> v[n]]
    BY <1>5 DEF v
  <2> QED BY <2>1, <1>8
<1> QED BY <1>6, <1>7, <1>9 DEF v

LEMMA SumIsNat ==
    ASSUME NEW weight \in Weights, NEW p \in Seq(Edges)
    PROVE  Sum(weight, p) \in Nat
<1>1. Len(p) \in 0..Len(p)
  OBVIOUS
<1> QED BY <1>1, SumUnfolds

\* Edge by edge, one weight is at most k times the other.
LEMMA SumsCompared ==
    ASSUME NEW weight \in Weights, NEW other \in Weights, NEW p \in Seq(Edges), NEW k \in Nat,
           \A n \in 1..Len(p) : weight[p[n]] <= k * other[p[n]]
    PROVE  Sum(weight, p) <= k * Sum(other, p)
<1> DEFINE u == UpTo(weight, p)
           v == UpTo(other, p)
           S == {n \in Nat : n \in 0..Len(p) => u[n] <= k * v[n]}
<1>1. /\ u \in [0..Len(p) -> Nat] /\ u[0] = 0
      /\ \A n \in 1..Len(p) : u[n] = u[n - 1] + weight[p[n]]
      /\ v \in [0..Len(p) -> Nat] /\ v[0] = 0
      /\ \A n \in 1..Len(p) : v[n] = v[n - 1] + other[p[n]]
      /\ Sum(weight, p) = u[Len(p)] /\ Sum(other, p) = v[Len(p)]
  BY SumUnfolds
<1> HIDE DEF u, v
<1>2. 0 \in S
  BY <1>1
<1>3. ASSUME NEW n \in Nat, n \in S PROVE n + 1 \in S
  <2> SUFFICES ASSUME n + 1 \in 0..Len(p) PROVE u[n + 1] <= k * v[n + 1]
    OBVIOUS
  <2> DEFINE i == n + 1
  <2>1. i \in 1..Len(p) /\ i - 1 = n /\ n \in 0..Len(p)
    OBVIOUS
  <2>2. p[i] \in Edges
    BY <2>1
  <2>3. weight[p[i]] \in Nat /\ other[p[i]] \in Nat
    BY <2>2 DEF Weights
  <2>4. weight[p[i]] <= k * other[p[i]] /\ u[n] <= k * v[n]
    BY <1>3, <2>1
  <2>5. u[i] = u[n] + weight[p[i]] /\ v[i] = v[n] + other[p[i]] /\ u[n] \in Nat /\ v[n] \in Nat
    <3> HIDE DEF i
    <3> QED BY <1>1, <2>1
  <2> DEFINE a == u[n]
             b == v[n]
             x == weight[p[i]]
             y == other[p[i]]
  <2>6. a \in Nat /\ b \in Nat /\ x \in Nat /\ y \in Nat /\ a <= k * b /\ x <= k * y
    BY <2>3, <2>4, <2>5
  <2>7. u[i] = a + x /\ v[i] = b + y
    BY <2>5
  <2> HIDE DEF a, b, x, y, i
  <2>8. k * (b + y) = k * b + k * y
    BY <2>6
  <2> DEFINE kb == k * b
             ky == k * y
  <2>9. kb \in Nat /\ ky \in Nat /\ a <= kb /\ x <= ky /\ k * v[i] = kb + ky
    BY <2>6, <2>7, <2>8
  <2> HIDE DEF kb, ky
  <2>10. u[i] <= k * v[i]
    BY <2>6, <2>7, <2>9
  <2> QED BY <2>10 DEF i
<1>4. Nat \subseteq S
  <2> HIDE DEF S
  <2> QED BY <1>2, <1>3, Induction
<1>5. Len(p) \in Nat /\ Len(p) \in 0..Len(p)
  OBVIOUS
<1> QED BY <1>1, <1>4, <1>5

LEMMA SumsAgree ==
    ASSUME NEW weight \in Weights, NEW other \in Weights, NEW p \in Seq(Edges),
           \A n \in 1..Len(p) : weight[p[n]] = other[p[n]]
    PROVE  Sum(weight, p) = Sum(other, p)
<1>1. \A n \in 1..Len(p) : /\ p[n] \in Edges
                           /\ weight[p[n]] \in Nat /\ other[p[n]] \in Nat
  <2> TAKE n \in 1..Len(p)
  <2>1. p[n] \in Edges
    OBVIOUS
  <2> QED BY <2>1 DEF Weights
<1>2. \A n \in 1..Len(p) : weight[p[n]] <= 1 * other[p[n]] /\ other[p[n]] <= 1 * weight[p[n]]
  BY <1>1
<1>3. Sum(weight, p) <= 1 * Sum(other, p) /\ Sum(other, p) <= 1 * Sum(weight, p)
  <2>1. Sum(weight, p) <= 1 * Sum(other, p)
    BY <1>2, SumsCompared
  <2>2. Sum(other, p) <= 1 * Sum(weight, p)
    BY <1>2, SumsCompared
  <2> QED BY <2>1, <2>2
<1> QED BY <1>3, SumIsNat

LEMMA SumIsPositive ==
    ASSUME NEW weight \in Weights, NEW p \in Seq(Edges)
    PROVE  Sum(weight, p) > 0 <=> \E n \in 1..Len(p) : weight[p[n]] > 0
<1> DEFINE u == UpTo(weight, p)
           S == {n \in Nat : n \in 0..Len(p) =>
                               (u[n] > 0 <=> \E m \in 1..n : weight[p[m]] > 0)}
<1>1. /\ u \in [0..Len(p) -> Nat] /\ u[0] = 0 /\ Sum(weight, p) = u[Len(p)]
      /\ \A n \in 1..Len(p) : u[n] = u[n - 1] + weight[p[n]]
  BY SumUnfolds
<1> HIDE DEF u
<1>2. 0 \in S
  BY <1>1
<1>3. ASSUME NEW n \in Nat, n \in S PROVE n + 1 \in S
  <2> DEFINE i == n + 1
  <2> SUFFICES ASSUME i \in 0..Len(p)
               PROVE  u[i] > 0 <=> \E m \in 1..i : weight[p[m]] > 0
    OBVIOUS
  <2>1. i \in 1..Len(p) /\ i - 1 = n /\ n \in 0..Len(p)
    OBVIOUS
  <2>2. p[i] \in Edges
    BY <2>1
  <2>3. weight[p[i]] \in Nat
    BY <2>2 DEF Weights
  <2>4. u[n] > 0 <=> \E m \in 1..n : weight[p[m]] > 0
    BY <1>3, <2>1
  <2>5. u[i] = u[n] + weight[p[i]] /\ u[n] \in Nat
    <3> HIDE DEF i
    <3> QED BY <1>1, <2>1
  <2>6. u[i] > 0 <=> u[n] > 0 \/ weight[p[i]] > 0
    <3> DEFINE x == weight[p[i]]
               a == u[n]
    <3>1. x \in Nat /\ a \in Nat /\ u[i] = a + x
      BY <2>3, <2>5
    <3> HIDE DEF x, a, i
    <3>2. u[i] > 0 <=> a > 0 \/ x > 0
      BY <3>1
    <3> QED BY <3>2 DEF x, a
  <2>7. \A m : m \in 1..i <=> m \in 1..n \/ m = i
    OBVIOUS
  <2> HIDE DEF i
  <2> QED BY <2>4, <2>6, <2>7
<1>4. Nat \subseteq S
  <2> HIDE DEF S
  <2> QED BY <1>2, <1>3, Induction
<1>5. Len(p) \in Nat /\ Len(p) \in 0..Len(p)
  OBVIOUS
<1> QED BY <1>1, <1>4, <1>5

\* Of what is summed up each is at most the sum.
LEMMA SumIsNoLess ==
    ASSUME NEW weight \in Weights, NEW p \in Seq(Edges), NEW k \in 1..Len(p)
    PROVE  weight[p[k]] <= Sum(weight, p)
<1> DEFINE u == UpTo(weight, p)
           S == {n \in Nat : n \in k..Len(p) => weight[p[k]] <= u[n]}
<1>1. /\ u \in [0..Len(p) -> Nat] /\ Sum(weight, p) = u[Len(p)]
      /\ \A n \in 1..Len(p) : u[n] = u[n - 1] + weight[p[n]]
  BY SumUnfolds
<1>2. \A n \in 1..Len(p) : weight[p[n]] \in Nat
  <2> TAKE n \in 1..Len(p)
  <2>1. p[n] \in Edges
    OBVIOUS
  <2> QED BY <2>1 DEF Weights
<1> HIDE DEF u
<1>3. 0 \in S
  OBVIOUS
<1>4. ASSUME NEW n \in Nat, n \in S PROVE n + 1 \in S
  <2> DEFINE i == n + 1
  <2> SUFFICES ASSUME i \in k..Len(p) PROVE weight[p[k]] <= u[i]
    OBVIOUS
  <2>1. i \in 1..Len(p) /\ i - 1 = n /\ n \in 0..Len(p) /\ (i = k \/ n \in k..Len(p))
    OBVIOUS
  <2>2. n \in k..Len(p) => weight[p[k]] <= u[n]
    BY <1>4
  <2> HIDE DEF i
  <2>3. u[i] = u[n] + weight[p[i]] /\ u[n] \in Nat
    BY <1>1, <2>1
  <2> DEFINE a == u[n]
             x == weight[p[i]]
             y == weight[p[k]]
  <2>4. u[i] = a + x /\ a \in Nat /\ x \in Nat /\ y \in Nat /\ (x = y \/ y <= a)
    BY <1>2, <2>1, <2>2, <2>3
  <2> HIDE DEF a, x, y
  <2>5. y <= u[i]
    BY <2>4
  <2> QED BY <2>5 DEF y
<1>5. Nat \subseteq S
  <2> HIDE DEF S
  <2> QED BY <1>3, <1>4, Induction
<1>6. Len(p) \in Nat /\ Len(p) \in k..Len(p)
  OBVIOUS
<1> QED BY <1>1, <1>5, <1>6

-----------------------------------------------------------------------------
(* Walks *)

Walk == [from: Nodes, to: Nodes, passed: SUBSET Nodes, edges: Seq(Edges)]

\* The walks of n + 1 edges from the walks of n.
LEMMA WalksUnfold ==
    /\ Walks[0] = {[from |-> m, to |-> m, passed |-> {m}, edges |-> <<>>] : m \in Nodes}
    /\ \A n \in Nat : Walks[n + 1] = UNION {Extensions(w) : w \in Walks[n]}
<1> DEFINE Start == {[from |-> m, to |-> m, passed |-> {m}, edges |-> <<>>] : m \in Nodes}
           V == SUBSET Walk
           g == [x \in Nat \X V |-> UNION {Extensions(w) : w \in x[2]}]
<1>1. Start \in V
  <2> SUFFICES ASSUME NEW m \in Nodes
               PROVE  [from |-> m, to |-> m, passed |-> {m}, edges |-> <<>>] \in Walk
    OBVIOUS
  <2>1. <<>> \in Seq(Edges) /\ {m} \in SUBSET Nodes
    OBVIOUS
  <2> QED BY <2>1 DEF Walk
<1>2. ASSUME NEW w \in Walk PROVE Extensions(w) \subseteq Walk
  <2> SUFFICES ASSUME NEW hop \in Edges \X Nodes
               PROVE  [from |-> w.from, to |-> hop[2], passed |-> w.passed \cup {hop[2]},
                       edges |-> Append(w.edges, hop[1])] \in Walk
    BY DEF Extensions
  <2>1. Append(w.edges, hop[1]) \in Seq(Edges)
    BY DEF Walk
  <2> QED BY <2>1 DEF Walk
<1>3. g \in [Nat \X V -> V]
  <2> SUFFICES ASSUME NEW x \in Nat \X V PROVE UNION {Extensions(w) : w \in x[2]} \in V
    OBVIOUS
  <2> QED BY <1>2
<1>4. PICK f : Iterates(f, V, Start, g)
  <2> HIDE DEF V, g, Start
  <2> QED BY <1>1, <1>3, Recursion
<1>5. f = [n \in Nat |-> IF n = 0 THEN Start ELSE UNION {Extensions(w) : w \in f[n - 1]}]
  <2>0. DOMAIN f = Nat /\ f = [n \in Nat |-> f[n]]
    BY <1>4 DEF Iterates
  <2>1. ASSUME NEW n \in Nat
        PROVE  f[n] = IF n = 0 THEN Start ELSE UNION {Extensions(w) : w \in f[n - 1]}
    <3>1. CASE n = 0
      BY <1>4, <3>1 DEF Iterates
    <3>2. CASE n # 0
      <4>1. n - 1 \in Nat /\ (n - 1) + 1 = n
        BY <3>2
      <4>2. f[n - 1] \in V
        BY <1>4, <4>1 DEF Iterates
      <4>3. f[n] = g[<<n - 1, f[n - 1]>>]
        <5> HIDE DEF g, V
        <5> QED BY <1>4, <4>1 DEF Iterates
      <4>4. <<n - 1, f[n - 1]>> \in Nat \X V
        BY <4>1, <4>2
      <4> QED BY <3>2, <4>3, <4>4
    <3> QED BY <3>1, <3>2
  <2> HIDE DEF Start
  <2> QED BY <2>0, <2>1
<1>6. Walks = [n \in Nat |-> IF n = 0 THEN Start ELSE UNION {Extensions(w) : w \in Walks[n - 1]}]
  BY <1>5 DEF Walks
<1>7. Walks[0] = Start
  BY <1>6
<1>8. ASSUME NEW n \in Nat PROVE Walks[n + 1] = UNION {Extensions(w) : w \in Walks[n]}
  <2>1. n + 1 \in Nat /\ n + 1 # 0 /\ (n + 1) - 1 = n
    OBVIOUS
  <2> HIDE DEF Start
  <2>2. Walks[n + 1] = IF n + 1 = 0 THEN Start ELSE UNION {Extensions(w) : w \in Walks[(n + 1) - 1]}
    BY <1>6, <2>1
  <2> QED BY <2>1, <2>2
<1> QED BY <1>7, <1>8

\* A walk passes one node more than it has edges.
LEMMA WalksAreSimple ==
    ASSUME NEW n \in Nat, NEW w \in Walks[n]
    PROVE  /\ w \in Walk /\ Len(w.edges) = n
           /\ w.to \in w.passed /\ IsFiniteSet(w.passed) /\ Cardinality(w.passed) = n + 1
<1> DEFINE Ok(w_, n_) == /\ w_ \in Walk /\ Len(w_.edges) = n_
                         /\ w_.to \in w_.passed
                         /\ IsFiniteSet(w_.passed) /\ Cardinality(w_.passed) = n_ + 1
           S == {i \in Nat : \A x \in Walks[i] : Ok(x, i)}
<1>1. 0 \in S
  <2> SUFFICES ASSUME NEW m \in Nodes
               PROVE  Ok([from |-> m, to |-> m, passed |-> {m}, edges |-> <<>>], 0)
    BY WalksUnfold
  <2>1. IsFiniteSet({m}) /\ Cardinality({m}) = 1
    BY FS_Singleton
  <2>2. <<>> \in Seq(Edges) /\ Len(<<>>) = 0
    OBVIOUS
  <2> QED BY <2>1, <2>2 DEF Walk
<1>2. ASSUME NEW i \in Nat, i \in S PROVE i + 1 \in S
  <2> SUFFICES ASSUME NEW v \in Walks[i], NEW x \in Extensions(v) PROVE Ok(x, i + 1)
    BY WalksUnfold
  <2>1. Ok(v, i)
    BY <1>2
  <2>2. PICK hop \in Edges \X Nodes :
          /\ hop[2] \notin v.passed
          /\ x = [from |-> v.from, to |-> hop[2], passed |-> v.passed \cup {hop[2]},
                  edges |-> Append(v.edges, hop[1])]
    BY DEF Extensions
  <2>3. v.from \in Nodes /\ v.passed \in SUBSET Nodes /\ v.edges \in Seq(Edges)
    BY <2>1 DEF Walk
  <2>4. hop[1] \in Edges /\ hop[2] \in Nodes
    OBVIOUS
  <2>5. /\ Append(v.edges, hop[1]) \in Seq(Edges)
        /\ Len(Append(v.edges, hop[1])) = i + 1
    BY <2>1, <2>3, <2>4
  <2>6. /\ IsFiniteSet(v.passed \cup {hop[2]})
        /\ Cardinality(v.passed \cup {hop[2]}) = (i + 1) + 1
    <3> DEFINE T == v.passed
               h == hop[2]
    <3>1. IsFiniteSet(T) /\ Cardinality(T) = i + 1 /\ h \notin T
      BY <2>1, <2>2
    <3> HIDE DEF T, h
    <3>2. IsFiniteSet(T \cup {h}) /\ Cardinality(T \cup {h}) = Cardinality(T) + 1
      BY <3>1, FS_AddElement
    <3>3. IsFiniteSet(T \cup {h}) /\ Cardinality(T \cup {h}) = (i + 1) + 1
      BY <3>1, <3>2
    <3> QED BY <3>3 DEF T, h
  <2>7. /\ x.passed = v.passed \cup {hop[2]} /\ x.to = hop[2]
        /\ x.edges = Append(v.edges, hop[1])
    BY <2>2
  <2>8. x \in Walk
    BY <2>2, <2>3, <2>4, <2>5 DEF Walk
  <2> QED BY <2>5, <2>6, <2>7, <2>8
<1>3. Nat \subseteq S
  <2> HIDE DEF S
  <2> QED BY <1>1, <1>2, Induction
<1> QED BY <1>3

ImageOf(f, S) == {f[x] : x \in S}

LEMMA ImageIsFinite ==
    ASSUME NEW S, IsFiniteSet(S), NEW f
    PROVE  IsFiniteSet(ImageOf(f, S))
<1> DEFINE g == [x \in S |-> f[x]]
<1>1. g \in Surjection(S, ImageOf(f, S))
  BY DEF Surjection, ImageOf
<1> HIDE DEF g
<1> QED BY <1>1, FS_Surjection

LEMMA WalksAreFinite ==
    ASSUME NEW n \in Nat
    PROVE  IsFiniteSet(Walks[n])
<1> DEFINE S == {i \in Nat : IsFiniteSet(Walks[i])}
<1>1. 0 \in S
  <2> DEFINE f == [m \in Nodes |-> [from |-> m, to |-> m, passed |-> {m}, edges |-> <<>>]]
  <2>1. Walks[0] = ImageOf(f, Nodes)
    BY WalksUnfold DEF ImageOf
  <2> HIDE DEF f
  <2> QED BY <2>1, FiniteAssumption, ImageIsFinite
<1>2. ASSUME NEW i \in Nat, i \in S PROVE i + 1 \in S
  <2>1. ASSUME NEW w \in Walks[i] PROVE IsFiniteSet(Extensions(w))
    <3> DEFINE H == {hop \in Edges \X Nodes :
                       /\ hop[2] \notin w.passed
                       /\ Ends[hop[1]] = <<w.to, hop[2]>> \/ Ends[hop[1]] = <<hop[2], w.to>>}
               f == [hop \in H |->
                       [from |-> w.from, to |-> hop[2], passed |-> w.passed \cup {hop[2]},
                        edges |-> Append(w.edges, hop[1])]]
    <3>1. IsFiniteSet(H)
      <4>1. IsFiniteSet(Edges \X Nodes) /\ H \in SUBSET (Edges \X Nodes)
        BY FiniteAssumption, FS_Product
      <4> HIDE DEF H
      <4> QED BY <4>1, FS_Subset
    <3>2. Extensions(w) = ImageOf(f, H)
      BY DEF Extensions, ImageOf
    <3> HIDE DEF f, H
    <3> QED BY <3>1, <3>2, ImageIsFinite
  <2> DEFINE f == [w \in Walks[i] |-> Extensions(w)]
             E == ImageOf(f, Walks[i])
  <2>2. IsFiniteSet(E)
    <3> HIDE DEF f
    <3> QED BY <1>2, ImageIsFinite
  <2>3. \A x \in E : IsFiniteSet(x)
    BY <2>1 DEF ImageOf
  <2>4. UNION E = UNION {Extensions(w) : w \in Walks[i]}
    BY DEF ImageOf
  <2> HIDE DEF E
  <2>5. IsFiniteSet(UNION E)
    BY <2>2, <2>3, FS_UNION
  <2>6. IsFiniteSet(Walks[i + 1])
    BY <2>4, <2>5, WalksUnfold
  <2> QED BY <2>6
<1>3. Nat \subseteq S
  <2> HIDE DEF S
  <2> QED BY <1>1, <1>2, Induction
<1> QED BY <1>3

\* A walk of n edges, n at least 1, is among those that are considered.
LEMMA WalksAreConsidered ==
    ASSUME NEW n \in Nat \ {0}, NEW w \in Walks[n]
    PROVE  w \in SimplePaths
<1>1. w.passed \in SUBSET Nodes /\ Cardinality(w.passed) = n + 1
  BY WalksAreSimple DEF Walk
<1>2. Cardinality(w.passed) <= Cardinality(Nodes) /\ Cardinality(Nodes) \in Nat
  <2>1. Cardinality(Nodes) \in Nat
    BY FiniteAssumption, FS_CardinalityType
  <2> QED BY <1>1, <2>1, FiniteAssumption, FS_Subset
<1>3. n \in 1..Cardinality(Nodes)
  <2> DEFINE c == Cardinality(Nodes)
  <2>1. n + 1 <= c /\ c \in Nat
    BY <1>1, <1>2
  <2> HIDE DEF c
  <2>2. n \in 1..c
    BY <2>1
  <2> QED BY <2>2 DEF c
<1> QED BY <1>3 DEF SimplePaths

LEMMA SimplePathsAreWalks ==
    ASSUME NEW w \in SimplePaths
    PROVE  w \in Walk /\ Len(w.edges) > 0
<1>1. PICK n \in 1..Cardinality(Nodes) : w \in Walks[n]
  BY DEF SimplePaths
<1>2. Cardinality(Nodes) \in Nat
  BY FiniteAssumption, FS_CardinalityType
<1>3. n \in Nat /\ n > 0
  BY <1>2
<1> QED BY <1>1, <1>3, WalksAreSimple

LEMMA PathsAreSequences ==
    ASSUME NEW p \in AllPaths
    PROVE  p \in Seq(Edges) /\ Len(p) > 0
BY SimplePathsAreWalks DEF AllPaths, Walk

LEMMA PathsAreFinite == IsFiniteSet(AllPaths)
<1>1. Cardinality(Nodes) \in Nat
  BY FiniteAssumption, FS_CardinalityType
<1> DEFINE I == 1..Cardinality(Nodes)
           f == [n \in I |-> Walks[n]]
           W == ImageOf(f, I)
<1>2. IsFiniteSet(W)
  <2>1. IsFiniteSet(I)
    BY <1>1, FS_Interval
  <2> HIDE DEF I, f
  <2> QED BY <2>1, ImageIsFinite
<1>3. \A T \in W : IsFiniteSet(T)
  BY <1>1, WalksAreFinite DEF ImageOf
<1>4. SimplePaths = UNION W
  BY DEF SimplePaths, ImageOf
<1> HIDE DEF W
<1>5. IsFiniteSet(SimplePaths)
  BY <1>2, <1>3, <1>4, FS_UNION
<1> DEFINE g == [w \in SimplePaths |-> w.edges]
<1>6. AllPaths = ImageOf(g, SimplePaths)
  BY DEF AllPaths, ImageOf
<1> HIDE DEF g
<1> QED BY <1>5, <1>6, ImageIsFinite

-----------------------------------------------------------------------------
(* Ways through a graph *)

\* A walk over edges, from one node to another.
Way(edges, from, to, n, w) ==
    n \in Nat /\ w \in Walks[n] /\ w.from = from /\ w.to = to /\ ToSet(w.edges) \subseteq edges

Reached(edges, from) == {m \in Nodes : \E n, w : Way(edges, from, m, n, w)}

LEMMA AppendedSet ==
    ASSUME NEW s \in Seq(Edges), NEW e \in Edges
    PROVE  ToSet(Append(s, e)) = ToSet(s) \cup {e}
<1>1. /\ Len(Append(s, e)) = Len(s) + 1 /\ Append(s, e)[Len(s) + 1] = e
      /\ \A i \in 1..Len(s) : Append(s, e)[i] = s[i]
      /\ DOMAIN Append(s, e) = 1..(Len(s) + 1) /\ DOMAIN s = 1..Len(s)
  OBVIOUS
<1> DEFINE t == Append(s, e)
           l == Len(s)
<1>2. /\ \A i \in 1..l : i \in 1..(l + 1)
      /\ \A i \in 1..(l + 1) : i \in 1..l \/ i = l + 1
      /\ l + 1 \in 1..(l + 1)
  OBVIOUS
<1> HIDE DEF t, l
<1>3. /\ t[l + 1] = e /\ \A i \in 1..l : t[i] = s[i]
      /\ DOMAIN t = 1..(l + 1) /\ DOMAIN s = 1..l
  BY <1>1 DEF t, l
<1>4. ToSet(t) \subseteq ToSet(s) \cup {e}
  BY <1>2, <1>3 DEF ToSet
<1>5. ToSet(s) \subseteq ToSet(t) /\ e \in ToSet(t)
  BY <1>2, <1>3 DEF ToSet
<1> QED BY <1>4, <1>5 DEF t

\* Wherever a walk has been can be reached without the rest of it.
LEMMA PassedIsReached ==
    ASSUME NEW n \in Nat, NEW w \in Walks[n], NEW edges, ToSet(w.edges) \subseteq edges,
           NEW m \in w.passed
    PROVE  m \in Reached(edges, w.from)
<1> DEFINE Ok(x) == ToSet(x.edges) \subseteq edges =>
                      \A q \in x.passed : q \in Reached(edges, x.from)
           S == {i \in Nat : \A x \in Walks[i] : Ok(x)}
<1>1. 0 \in S
  <2> SUFFICES ASSUME NEW x \in Walks[0], ToSet(x.edges) \subseteq edges, NEW q \in x.passed
               PROVE  q \in Reached(edges, x.from)
    OBVIOUS
  <2>1. x.to = q /\ q \in Nodes
    BY WalksUnfold
  <2>2. Way(edges, x.from, q, 0, x)
    BY <2>1 DEF Way
  <2> QED BY <2>1, <2>2 DEF Reached
<1>2. ASSUME NEW i \in Nat, i \in S PROVE i + 1 \in S
  <2> SUFFICES ASSUME NEW v \in Walks[i], NEW x \in Extensions(v),
                      ToSet(x.edges) \subseteq edges, NEW q \in x.passed
               PROVE  q \in Reached(edges, x.from)
    BY WalksUnfold
  <2>1. PICK hop \in Edges \X Nodes :
          x = [from |-> v.from, to |-> hop[2], passed |-> v.passed \cup {hop[2]},
               edges |-> Append(v.edges, hop[1])]
    BY DEF Extensions
  <2>2. v.edges \in Seq(Edges) /\ hop[1] \in Edges /\ hop[2] \in Nodes
    BY WalksAreSimple DEF Walk
  <2>3. ToSet(x.edges) = ToSet(v.edges) \cup {hop[1]}
    BY <2>1, <2>2, AppendedSet
  <2>4. CASE q \in v.passed
    <3>1. Ok(v)
      BY <1>2
    <3> QED BY <2>1, <2>3, <2>4, <3>1
  <2>5. CASE q = hop[2]
    <3>1. x \in Walks[i + 1] /\ i + 1 \in Nat
      BY WalksUnfold
    <3>2. Way(edges, x.from, q, i + 1, x)
      BY <2>1, <2>5, <3>1 DEF Way
    <3> QED BY <2>2, <2>5, <3>2 DEF Reached
  <2> QED BY <2>1, <2>4, <2>5
<1>3. Nat \subseteq S
  <2> HIDE DEF S
  <2> QED BY <1>1, <1>2, Induction
<1> QED BY <1>3

\* From what is reached, the other end of an edge is reached too.
LEMMA ReachedAlong ==
    ASSUME NEW edges \in SUBSET Edges, NEW from, NEW m \in Reached(edges, from),
           NEW q \in Nodes, NEW e \in edges, Ends[e] = <<m, q>> \/ Ends[e] = <<q, m>>
    PROVE  q \in Reached(edges, from)
<1>1. PICK n, w : Way(edges, from, m, n, w)
  BY DEF Reached
<1>2. n \in Nat /\ w \in Walks[n] /\ w.from = from /\ w.to = m /\ ToSet(w.edges) \subseteq edges
  BY <1>1 DEF Way
<1>3. CASE q \in w.passed
  BY <1>2, <1>3, PassedIsReached
<1>4. CASE q \notin w.passed
  <2> DEFINE hop == <<e, q>>
             x == [from |-> w.from, to |-> hop[2], passed |-> w.passed \cup {hop[2]},
                   edges |-> Append(w.edges, hop[1])]
  <2>1. hop \in Edges \X Nodes /\ hop[1] = e /\ hop[2] = q
    OBVIOUS
  <2>2. x \in Extensions(w)
    BY <1>2, <1>4, <2>1 DEF Extensions
  <2>3. x \in Walks[n + 1] /\ n + 1 \in Nat
    BY <1>2, <2>2, WalksUnfold
  <2>4. w.edges \in Seq(Edges) /\ e \in Edges
    BY <1>2, WalksAreSimple DEF Walk
  <2>5. x.from = from /\ x.to = q /\ ToSet(x.edges) \subseteq edges
    BY <1>2, <2>4, AppendedSet
  <2> HIDE DEF x
  <2>6. Way(edges, from, q, n + 1, x)
    BY <2>3, <2>5 DEF Way
  <2> QED BY <2>6 DEF Reached
<1> QED BY <1>3, <1>4

\* What cannot be cut in two without an edge across has a way between any two nodes.
LEMMA HangsTogetherIsReached ==
    ASSUME NEW edges \in SUBSET Edges, HangsTogether(NodesOf(edges), edges),
           NEW from \in NodesOf(edges), NEW to \in NodesOf(edges)
    PROVE  to \in Reached(edges, from)
<1> DEFINE R == Reached(edges, from) \cap NodesOf(edges)
<1>1. from \in R
  <2> DEFINE w == [from |-> from, to |-> from, passed |-> {from}, edges |-> <<>>]
  <2>1. from \in Nodes
    BY DEF NodesOf
  <2>2. w \in Walks[0]
    BY <2>1, WalksUnfold
  <2>3. w.from = from /\ w.to = from /\ ToSet(w.edges) \subseteq edges
    BY DEF ToSet
  <2> HIDE DEF w
  <2>4. Way(edges, from, from, 0, w)
    BY <2>2, <2>3 DEF Way
  <2> QED BY <2>1, <2>4 DEF Reached
<1>2. SUFFICES ASSUME R # NodesOf(edges) PROVE FALSE
  OBVIOUS
<1>3. PICK e \in edges : Across(e, R)
  BY <1>1, <1>2 DEF HangsTogether
<1>4. PICK m \in Nodes, q \in Nodes :
        m \in R /\ q \notin R /\ (Ends[e] = <<m, q>> \/ Ends[e] = <<q, m>>)
  <2>1. Ends[e] \in Nodes \X Nodes
    BY EndsAssumption
  <2>2. Ends[e] = <<Ends[e][1], Ends[e][2]>> /\ Ends[e][1] \in Nodes /\ Ends[e][2] \in Nodes
    BY <2>1
  <2> HIDE DEF R
  <2>3. CASE Ends[e][1] \in R
    BY <1>3, <2>2, <2>3 DEF Across
  <2>4. CASE Ends[e][1] \notin R
    BY <1>3, <2>2, <2>4 DEF Across
  <2> QED BY <2>3, <2>4
<1>5. q \in NodesOf(edges)
  BY <1>4 DEF NodesOf
<1>6. q \in Reached(edges, from)
  BY <1>4, ReachedAlong
<1> QED BY <1>4, <1>5, <1>6

LEMMA PathExists ==
    ASSUME HangsTogether(NodesOf(Routable), Routable),
           NEW from \in NodesOf(Routable), NEW to \in NodesOf(Routable), from # to
    PROVE  Paths(from, to) # {}
<1>1. PICK n, w : Way(Routable, from, to, n, w)
  <2>1. to \in Reached(Routable, from)
    BY HangsTogetherIsReached DEF Routable
  <2> QED BY <2>1 DEF Reached
<1>2. n \in Nat /\ w \in Walks[n] /\ w.from = from /\ w.to = to /\ ToSet(w.edges) \subseteq Routable
  BY <1>1 DEF Way
<1>3. n # 0
  BY <1>2, WalksUnfold
<1>4. w \in SimplePaths
  BY <1>2, <1>3, WalksAreConsidered
<1>5. from \in Nodes /\ to \in Nodes
  BY DEF NodesOf
<1>6. w.edges \in PathsBetween[<<from, to>>]
  BY <1>2, <1>4, <1>5 DEF PathsBetween
<1> QED BY <1>2, <1>6 DEF Paths

-----------------------------------------------------------------------------
(* What a path weighs *)

LEMMA LengthIsNat == ASSUME NEW p \in AllPaths PROVE LengthOf[p] \in Nat
<1>1. Length \in Weights
  BY LengthAssumption DEF Weights
<1> QED BY <1>1, PathsAreSequences, SumIsNat DEF LengthOf

LEMMA ScoreIsBounded ==
    ASSUME NEW table \in Risks, NEW bucket \in Buckets, NEW e \in Edges
    PROVE  /\ ScoreIn(table[bucket], e) \in Nat /\ Unit * Grid \in Nat
           /\ ScoreIn(table[bucket], e) <= Unit * Grid
<1> DEFINE most == Unit * Grid
           score == table[bucket][e]
<1>1. most \in Nat
  BY UnitAssumption
<1>2. score \in (0..most) \cup {None}
  BY RiskAssumption
<1>3. ScoreIn(table[bucket], e) = IF score = None THEN 0 ELSE score
  BY DEF ScoreIn
<1> HIDE DEF most, score
<1>4. ScoreIn(table[bucket], e) \in Nat /\ ScoreIn(table[bucket], e) <= most
  BY <1>1, <1>2, <1>3
<1> QED BY <1>1, <1>4 DEF most

\* What each edge adds to the exposure.
Weighed(table, bucket) == [e \in Edges |-> Length[e] * ScoreIn(table[bucket], e)]

LEMMA WeighedIsWeights ==
    ASSUME NEW table \in Risks, NEW bucket \in Buckets
    PROVE  Weighed(table, bucket) \in Weights
<1> SUFFICES ASSUME NEW e \in Edges PROVE Length[e] * ScoreIn(table[bucket], e) \in Nat
  BY DEF Weighed, Weights
<1> DEFINE score == ScoreIn(table[bucket], e)
           length == Length[e]
<1>1. score \in Nat /\ length \in Nat
  BY ScoreIsBounded, LengthAssumption
<1> HIDE DEF score, length
<1>2. length * score \in Nat
  BY <1>1
<1> QED BY <1>2 DEF score, length

LEMMA ExposureIsSum ==
    ASSUME NEW table \in Risks, NEW bucket \in Buckets, NEW p \in AllPaths
    PROVE  /\ ExposureOf[table][bucket][p] = Sum(Weighed(table, bucket), p)
           /\ ExposureOf[table][bucket][p] \in Nat
<1>1. ExposureOf[table][bucket][p] = ExposureIn(table[bucket])[p]
  BY DEF ExposureOf
<1>2. ExposureIn(table[bucket])[p] = Sum(Weighed(table, bucket), p)
  BY DEF ExposureIn, Weighed
<1> QED BY <1>1, <1>2, WeighedIsWeights, PathsAreSequences, SumIsNat

-----------------------------------------------------------------------------
(* The request *)

LEMMA PathsAreOfTheGraph ==
    ASSUME NEW from \in Nodes, NEW to \in Nodes
    PROVE  Paths(from, to) \subseteq AllPaths
<1>1. PathsBetween[<<from, to>>] \subseteq AllPaths
  BY DEF PathsBetween, AllPaths
<1>2. QED BY <1>1 DEF Paths

\* Where the searches begin, and how many routes there are before each step.
RequestInv ==
    /\ req.at \in {"FindRoute", "FindCandidates"} => req.from \in Nodes /\ req.to \in Nodes
    /\ req.at \in {"idle", "SnapEndpoints"} => req.routes = <<>>
    /\ req.at = "FindRoute" => Len(req.routes) < 3

RequestTypes == req \in Request /\ Len(req.routes) <= 3 /\ RequestInv

LEMMA NoRequestTypes == NoRequest \in Request /\ NoRequest.routes = <<>>
BY DEF NoRequest, Request, Buckets

LEMMA ArriveTypes == RequestTypes /\ Arrive => RequestTypes'
<1> SUFFICES ASSUME RequestTypes, Arrive PROVE RequestTypes'
  OBVIOUS
<1>1. PICK bucket \in Times :
        req' = [NoRequest EXCEPT !.at = "SnapEndpoints", !.bucket = bucket]
  BY DEF Arrive
<1> DEFINE r == [NoRequest EXCEPT !.at = "SnapEndpoints"]
<1>2. req' = [r EXCEPT !.bucket = bucket]
  BY <1>1
<1>3. r \in Request /\ r.routes = <<>> /\ r.at = "SnapEndpoints"
  BY NoRequestTypes DEF Request
<1> HIDE DEF r
<1>4. req' \in Request /\ req'.routes = <<>> /\ req'.at = "SnapEndpoints"
  BY <1>2, <1>3, TimeAssumption DEF Request
<1>5. QED BY <1>4 DEF RequestTypes, RequestInv

LEMMA AnswerTypes ==
    ASSUME RequestTypes, NEW status \in {400, 404}, Answer(status)
    PROVE  RequestTypes'
<1> DEFINE r == [req EXCEPT !.at = "answer"]
<1>1. req' = [r EXCEPT !.status = status]
  BY DEF Answer
<1>2. r \in Request /\ r.routes = req.routes /\ r.at = "answer"
  BY DEF RequestTypes, Request
<1> HIDE DEF r
<1>3. req' \in Request /\ req'.routes = req.routes /\ req'.at = "answer"
  BY <1>1, <1>2 DEF Request
<1>4. QED BY <1>3 DEF RequestTypes, RequestInv

LEMMA SnapTypes == RequestTypes /\ SnapEndpoints => RequestTypes'
<1> SUFFICES ASSUME RequestTypes, SnapEndpoints PROVE RequestTypes'
  OBVIOUS
<1>1. CASE Answer(400)
  BY <1>1, AnswerTypes
<1>2. ASSUME NEW from \in NodesOf(Routable), NEW to \in NodesOf(Routable),
             req' = [req EXCEPT !.at = "FindRoute", !.from = from, !.to = to,
                                !.steady = TRUE, !.clean = Clean]
      PROVE  RequestTypes'
  <2>1. from \in Nodes /\ to \in Nodes /\ Clean \in BOOLEAN
    BY DEF NodesOf, Clean
  <2>2. req \in Request /\ req.routes = <<>>
    BY DEF RequestTypes, RequestInv, SnapEndpoints
  <2> DEFINE r == [req EXCEPT !.at = "FindRoute"]
             s == [r EXCEPT !.from = from]
             t == [s EXCEPT !.to = to]
             yes == TRUE
             u == [t EXCEPT !.steady = yes]
  <2>3. req' = [u EXCEPT !.clean = Clean]
    BY <1>2
  <2>4. r \in Request /\ r.at = "FindRoute" /\ r.routes = <<>>
    BY <2>2 DEF Request
  <2> HIDE DEF r
  <2>5. s \in Request /\ s.at = "FindRoute" /\ s.routes = <<>> /\ s.from = from
    BY <2>1, <2>4 DEF Request
  <2> HIDE DEF s
  <2>6. /\ t \in Request /\ t.at = "FindRoute" /\ t.routes = <<>> /\ t.from = from
        /\ t.to = to
    BY <2>1, <2>5 DEF Request
  <2>0. yes \in BOOLEAN
    OBVIOUS
  <2> HIDE DEF t, yes
  <2>7. /\ u \in Request /\ u.at = "FindRoute" /\ u.routes = <<>> /\ u.from = from
        /\ u.to = to
    <3>1. u \in Request
      BY <2>6, <2>0 DEF Request
    <3>2. u.at = t.at /\ u.routes = t.routes /\ u.from = t.from /\ u.to = t.to
      BY <2>6 DEF Request
    <3>3. QED BY <2>6, <3>1, <3>2
  <2> HIDE DEF u
  <2>8. /\ req' \in Request /\ req'.at = "FindRoute" /\ req'.routes = <<>>
        /\ req'.from = from /\ req'.to = to
    BY <2>1, <2>3, <2>7 DEF Request
  <2>9. QED BY <2>1, <2>8 DEF RequestTypes, RequestInv
<1>3. QED BY <1>1, <1>2 DEF SnapEndpoints

LEMMA FindRouteTypes == RequestTypes /\ FindRoute => RequestTypes'
<1> SUFFICES ASSUME RequestTypes, FindRoute PROVE RequestTypes'
  OBVIOUS
<1>1. req.at = "FindRoute" /\ req.from \in Nodes /\ req.to \in Nodes /\ Len(req.routes) < 3
  BY DEF FindRoute, RequestTypes, RequestInv
<1> DEFINE kind == Len(req.routes) + 1
<1>2. CASE Answer(404)
  BY <1>2, AnswerTypes
<1>3. ASSUME NEW p \in Cheapest(kind, Paths(req.from, req.to)),
             req' = [req EXCEPT !.routes = Append(@, p),
                                !.at = IF kind = 3 THEN "FindCandidates" ELSE "FindRoute"]
      PROVE  RequestTypes'
  <2>1. p \in AllPaths
    BY <1>1, PathsAreOfTheGraph DEF Cheapest
  <2>2. req.routes \in Seq(AllPaths) /\ req \in Request
    BY DEF RequestTypes, Request
  <2>3. /\ Append(req.routes, p) \in Seq(AllPaths)
        /\ Len(Append(req.routes, p)) = kind /\ kind \in 1..3
    BY <1>1, <2>1, <2>2
  <2> DEFINE at == IF kind = 3 THEN "FindCandidates" ELSE "FindRoute"
             r == [req EXCEPT !.routes = Append(@, p)]
  <2>4. req' = [r EXCEPT !.at = at] /\ at \in {"FindCandidates", "FindRoute"}
        /\ (at = "FindRoute" => kind < 3)
    BY <1>3, <2>3
  <2>5. /\ r \in Request /\ r.routes = Append(req.routes, p)
        /\ r.from = req.from /\ r.to = req.to
    BY <2>2, <2>3 DEF Request
  <2> HIDE DEF at, r
  <2>6. /\ req' \in Request /\ req'.routes = Append(req.routes, p)
        /\ req'.from = req.from /\ req'.to = req.to /\ req'.at = at
    BY <2>4, <2>5 DEF Request
  <2>7. QED BY <1>1, <2>3, <2>4, <2>6 DEF RequestTypes, RequestInv
<1>4. QED BY <1>2, <1>3 DEF FindRoute

LEMMA FindCandidatesTypes == RequestTypes /\ FindCandidates => RequestTypes'
<1> SUFFICES ASSUME RequestTypes, FindCandidates PROVE RequestTypes'
  OBVIOUS
<1>1. req.from \in Nodes /\ req.to \in Nodes
  BY DEF FindCandidates, RequestTypes, RequestInv
<1>2. PICK pool \in Shortest(Paths(req.from, req.to)) :
        \E c \in IF {p \in pool : WithinDetour(p)} = {} THEN {None}
                 ELSE Worst({p \in pool : WithinDetour(p)}) :
          req' = [req EXCEPT !.at = "answer", !.status = 200, !.candidate = c]
  BY DEF FindCandidates
<1>3. pool \subseteq AllPaths
  BY <1>1, PathsAreOfTheGraph DEF Shortest
<1>4. Worst({p \in pool : WithinDetour(p)}) \subseteq AllPaths
  BY <1>3 DEF Worst
<1>5. PICK c \in AllPaths \cup {None} :
        req' = [req EXCEPT !.at = "answer", !.status = 200, !.candidate = c]
  BY <1>2, <1>4
<1> DEFINE r == [req EXCEPT !.at = "answer"]
           s == [r EXCEPT !.status = 200]
<1>6. req' = [s EXCEPT !.candidate = c]
  BY <1>5
<1>7. r \in Request /\ r.routes = req.routes /\ r.at = "answer"
  BY DEF RequestTypes, Request
<1> HIDE DEF r
<1>8. s \in Request /\ s.routes = req.routes /\ s.at = "answer"
  BY <1>7 DEF Request
<1> HIDE DEF s
<1>9. req' \in Request /\ req'.routes = req.routes /\ req'.at = "answer"
  <2>1. req' \in Request
    BY <1>5, <1>6, <1>8 DEF Request
  <2>2. req'.routes = s.routes /\ req'.at = s.at
    BY <1>6, <1>8 DEF Request
  <2>3. QED BY <1>8, <2>1, <2>2
<1>10. QED BY <1>9 DEF RequestTypes, RequestInv

LEMMA GraphStepTypes == RequestTypes /\ GraphStep => RequestTypes'
<1> SUFFICES ASSUME RequestTypes, GraphStep PROVE RequestTypes'
  OBVIOUS
<1>1. req' = [req EXCEPT !.steady = req.steady /\ Routable' = Routable]
  BY DEF GraphStep
<1> DEFINE steady == req.steady /\ Routable' = Routable
<1>2. steady \in BOOLEAN
  BY DEF RequestTypes, Request
<1>3. req' = [req EXCEPT !.steady = steady]
  BY <1>1
<1> HIDE DEF steady
<1>4. /\ req' \in Request /\ req'.routes = req.routes /\ req'.at = req.at
      /\ req'.from = req.from /\ req'.to = req.to
  BY <1>2, <1>3 DEF RequestTypes, Request
<1>5. QED BY <1>4 DEF RequestTypes, RequestInv

LEMMA RequestTypesStep == RequestTypes /\ [Next]_vars => RequestTypes'
<1>1. RequestTypes /\ Respond => RequestTypes'
  BY NoRequestTypes DEF Respond, RequestTypes, RequestInv, NoRequest
<1>2. RequestTypes /\ UNCHANGED vars => RequestTypes'
  BY DEF vars, RequestTypes, RequestInv
<1>3. QED
  BY <1>1, <1>2, ArriveTypes, SnapTypes, FindRouteTypes, FindCandidatesTypes, GraphStepTypes
  DEF Next

Types == GraphTypeOK /\ risk \in Risks /\ RequestTypes

LEMMA TypesStep == Types /\ [Next]_vars => Types'
<1> SUFFICES ASSUME Types, [Next]_vars PROVE Types'
  OBVIOUS
<1>1. risk' = risk
  BY DEF Next, vars, Arrive, SnapEndpoints, FindRoute, FindCandidates, Respond, GraphStep
<1>2. GraphTypeOK'
  <2>1. CASE GraphNext
    BY <2>1, GraphTypesStep DEF Types
  <2>2. CASE UNCHANGED graph
    BY <2>2 DEF Types, graph, GraphTypeOK
  <2>3. QED BY <2>1, <2>2, StepsOfTheGraph
<1>3. QED BY <1>1, <1>2, RequestTypesStep DEF Types

LEMMA TypesInit == Init => Types
BY GraphTypesInit, NoRequestTypes DEF Init, Types, RequestTypes, RequestInv, NoRequest

\* RouteChoice.TypeOK: a search never starts from or ends at what is not a node, and no
\* request has more than the three routes of SafeRoutes and a candidate.
THEOREM TypeCorrect == Spec => []TypeOK
<1>1. Types => TypeOK
  BY DEF Types, TypeOK, RequestTypes
<1>2. QED BY <1>1, TypesInit, TypesStep, PTL DEF Spec

-----------------------------------------------------------------------------
(* The trade-off *)

\* Two routes, each the cheaper one by its own weight of risk.
LEMMA TwoCheapest ==
    ASSUME NEW Lp \in Nat, NEW Lq \in Nat, NEW Ep \in Nat, NEW Eq \in Nat,
           NEW m \in Nat, NEW n \in Nat, m < n, NEW scale \in Nat \ {0},
           scale * Lp + m * Ep <= scale * Lq + m * Eq,
           scale * Lq + n * Eq <= scale * Lp + n * Ep
    PROVE  Lp <= Lq /\ Eq <= Ep /\ scale * (Lq - Lp) <= n * (Ep - Eq)
<1>1. /\ scale * (Lq - Lp) = scale * Lq - scale * Lp
      /\ m * (Ep - Eq) = m * Ep - m * Eq
      /\ n * (Ep - Eq) = n * Ep - n * Eq
      /\ (n - m) * (Ep - Eq) = n * (Ep - Eq) - m * (Ep - Eq)
  OBVIOUS
<1>2. /\ scale * Lq \in Int /\ scale * Lp \in Int /\ m * Ep \in Int /\ m * Eq \in Int
      /\ n * Ep \in Int /\ n * Eq \in Int
  OBVIOUS
<1>3. m * (Ep - Eq) <= scale * (Lq - Lp) /\ scale * (Lq - Lp) <= n * (Ep - Eq)
  BY <1>1, <1>2
<1>4. Eq <= Ep
  <2>1. (n - m) * (Ep - Eq) >= 0
    BY <1>1, <1>3
  <2>2. ASSUME NEW d \in Nat \ {0}, NEW x \in Int, d * x >= 0 PROVE x >= 0
    BY <2>2
  <2>3. n - m \in Nat \ {0} /\ Ep - Eq \in Int
    OBVIOUS
  <2>4. QED BY <2>1, <2>2, <2>3
<1>5. Lp <= Lq
  <2>1. Ep - Eq \in Nat /\ m * (Ep - Eq) >= 0
    BY <1>4
  <2>2. scale * (Lq - Lp) >= 0
    BY <1>3, <2>1
  <2>3. ASSUME NEW d \in Nat \ {0}, NEW x \in Int, d * x >= 0 PROVE x >= 0
    BY <2>3
  <2>4. Lq - Lp \in Int
    OBVIOUS
  <2>5. QED BY <2>2, <2>3, <2>4
<1>6. QED BY <1>3, <1>4, <1>5

\* While the graph stays as it was, each route is a cheapest of its profile, among the
\* same paths.
CheapestKept ==
    req.steady =>
      \A k \in DOMAIN req.routes : req.routes[k] \in Cheapest(k, Paths(req.from, req.to))

SameSearch(r, s) ==
    /\ r.routes = s.routes /\ r.from = s.from /\ r.to = s.to /\ r.bucket = s.bucket
    /\ r.steady = s.steady

LEMMA SamePaths ==
    ASSUME CheapestKept, risk' = risk, req'.routes = req.routes, req'.from = req.from,
           req'.to = req.to, req'.bucket = req.bucket,
           req'.steady => req.steady /\ Routable' = Routable
    PROVE  CheapestKept'
<1> SUFFICES ASSUME req'.steady, NEW k \in DOMAIN req.routes
             PROVE  req.routes[k] \in Cheapest(k, Paths(req.from, req.to))'
  BY DEF CheapestKept
<1>1. Paths(req.from, req.to)' = Paths(req.from, req.to)
  BY DEF Paths
<1>2. \A p : Cost(k, p)' = Cost(k, p)
  BY DEF Cost, Exposure
<1>3. req.routes[k] \in Cheapest(k, Paths(req.from, req.to))
  BY DEF CheapestKept
<1>4. QED BY <1>1, <1>2, <1>3 DEF Cheapest

LEMMA NoRoutes == req'.routes = <<>> => CheapestKept'
BY DEF CheapestKept

LEMMA CheapestStep ==
    ASSUME GraphTypeOK, risk \in Risks, RequestTypes, CheapestKept, [Next]_vars
    PROVE  CheapestKept'
<1>1. CASE GraphStep
  <2> DEFINE steady == req.steady /\ Routable' = Routable
  <2>1. req' = [req EXCEPT !.steady = steady] /\ risk' = risk
    BY <1>1 DEF GraphStep
  <2>2. /\ req'.routes = req.routes /\ req'.from = req.from /\ req'.to = req.to
        /\ req'.bucket = req.bucket
    BY <2>1 DEF RequestTypes, Request
  <2>3. req'.steady = steady
    BY <2>1 DEF RequestTypes, Request
  <2>4. QED BY <2>1, <2>2, <2>3, SamePaths
<1>2. CASE UNCHANGED graph /\ risk' = risk /\ SameSearch(req', req)
  BY <1>2, SamePaths DEF graph, SameSearch, Routable
<1>3. CASE Arrive \/ Respond
  <2>1. CASE Respond
    BY <2>1, NoRequestTypes, NoRoutes DEF Respond
  <2>2. ASSUME NEW bucket,
               req' = [NoRequest EXCEPT !.at = "SnapEndpoints", !.bucket = bucket]
        PROVE  CheapestKept'
    <3> DEFINE r == [NoRequest EXCEPT !.at = "SnapEndpoints"]
    <3>1. req' = [r EXCEPT !.bucket = bucket]
      BY <2>2
    <3>2. r \in Request /\ r.routes = <<>>
      BY NoRequestTypes DEF Request
    <3> HIDE DEF r
    <3>3. req'.routes = <<>>
      BY <3>1, <3>2 DEF Request
    <3>4. QED BY <3>3, NoRoutes
  <2>3. QED BY <1>3, <2>1, <2>2 DEF Arrive
<1>4. ASSUME NEW status, Answer(status) PROVE SameSearch(req', req)
  BY <1>4 DEF Answer, SameSearch, RequestTypes, Request
<1>5. CASE SnapEndpoints
  <2>1. req \in Request /\ req.routes = <<>>
    BY <1>5 DEF RequestTypes, RequestInv, SnapEndpoints
  <2>2. ASSUME Answer(400) PROVE CheapestKept'
    BY <1>4, <2>1, <2>2, NoRoutes DEF SameSearch
  <2>3. ASSUME NEW from, NEW to,
               req' = [req EXCEPT !.at = "FindRoute", !.from = from, !.to = to,
                                  !.steady = TRUE, !.clean = Clean]
        PROVE  req'.routes = <<>>
    BY <2>1, <2>3 DEF Request
  <2>4. QED BY <1>5, <2>2, <2>3, NoRoutes DEF SnapEndpoints
<1>6. CASE FindCandidates
  <2>1. \E c : req' = [req EXCEPT !.at = "answer", !.status = 200, !.candidate = c]
    BY <1>6 DEF FindCandidates
  <2>2. SameSearch(req', req)
    BY <2>1 DEF SameSearch, RequestTypes, Request
  <2>3. QED BY <1>2, <1>6, <2>2 DEF FindCandidates
<1>7. CASE FindRoute
  <2> DEFINE kind == Len(req.routes) + 1
  <2>1. CASE Answer(404)
    BY <1>2, <1>4, <1>7, <2>1 DEF FindRoute
  <2>2. ASSUME NEW p \in Cheapest(kind, Paths(req.from, req.to)),
               req' = [req EXCEPT !.routes = Append(@, p),
                                  !.at = IF kind = 3 THEN "FindCandidates" ELSE "FindRoute"]
        PROVE  CheapestKept'
    <3> DEFINE r == [req EXCEPT !.routes = Append(@, p)]
    <3>1. req' = [r EXCEPT !.at = IF kind = 3 THEN "FindCandidates" ELSE "FindRoute"]
      BY <2>2
    <3>2. req.routes \in Seq(AllPaths) /\ req \in Request
      BY DEF RequestTypes, Request
    <3>3. /\ r.routes = Append(req.routes, p) /\ r.from = req.from /\ r.to = req.to
          /\ r.bucket = req.bucket /\ r.steady = req.steady
      BY <3>2 DEF Request
    <3>4. /\ req'.routes = Append(req.routes, p) /\ req'.from = req.from /\ req'.to = req.to
          /\ req'.bucket = req.bucket /\ req'.steady = req.steady
      BY <3>1, <3>2, <3>3 DEF Request
    <3> HIDE DEF r
    <3> SUFFICES ASSUME req'.steady, NEW k \in DOMAIN req'.routes
                 PROVE  req'.routes[k] \in Cheapest(k, Paths(req.from, req.to))'
      BY DEF CheapestKept
    <3>5. Routable' = Routable /\ risk' = risk
      BY <1>7 DEF FindRoute, graph, Routable
    <3>6. Paths(req.from, req.to)' = Paths(req.from, req.to)
      BY <3>4, <3>5 DEF Paths
    <3>7. \A w : Cost(k, w)' = Cost(k, w)
      BY <3>4, <3>5 DEF Cost, Exposure
    <3>8. CASE k = kind
      BY <3>2, <3>4, <3>6, <3>7, <3>8, <2>2 DEF Cheapest
    <3>9. CASE k \in DOMAIN req.routes
      <4>1. req.routes[k] \in Cheapest(k, Paths(req.from, req.to))
        BY <3>4, <3>9 DEF CheapestKept
      <4>2. req'.routes[k] = req.routes[k]
        BY <3>2, <3>4, <3>9
      <4>3. QED BY <3>6, <3>7, <4>1, <4>2 DEF Cheapest
    <3>10. k = kind \/ k \in DOMAIN req.routes
      BY <3>2, <3>4
    <3>11. QED BY <3>8, <3>9, <3>10
  <2>3. QED BY <1>7, <2>1, <2>2 DEF FindRoute
<1>8. CASE UNCHANGED vars
  BY <1>2, <1>8 DEF vars, graph, SameSearch
<1>9. QED BY <1>1, <1>3, <1>5, <1>6, <1>7, <1>8 DEF Next

LEMMA TradeOffFromCheapest ==
    ASSUME risk \in Risks, RequestTypes, CheapestKept
    PROVE  TradeOff
<1> SUFFICES ASSUME req.steady, NEW i \in DOMAIN req.routes, NEW j \in DOMAIN req.routes,
                    i < j, NEW p, NEW q, p = req.routes[i], q = req.routes[j]
             PROVE  /\ LengthOf[p] <= LengthOf[q] /\ Exposure(q) <= Exposure(p)
                    /\ Scale * (LengthOf[q] - LengthOf[p])
                         <= Multiplier[j] * (Exposure(p) - Exposure(q))
  BY DEF TradeOff
<1>1. req.routes \in Seq(AllPaths) /\ req.bucket \in Buckets /\ Len(req.routes) <= 3
  BY DEF RequestTypes, Request
<1>2. p \in AllPaths /\ q \in AllPaths /\ i \in Kinds /\ j \in Kinds
  BY <1>1 DEF Kinds
<1>3. /\ LengthOf[p] \in Nat /\ LengthOf[q] \in Nat
      /\ Exposure(p) \in Nat /\ Exposure(q) \in Nat
  BY <1>1, <1>2, LengthIsNat, ExposureIsSum DEF Exposure
<1>4. Multiplier[i] \in Nat /\ Multiplier[j] \in Nat /\ Multiplier[i] < Multiplier[j]
      /\ Scale \in Nat \ {0}
  BY <1>2, ProfileAssumption
<1>5. p \in Cheapest(i, Paths(req.from, req.to)) /\ q \in Cheapest(j, Paths(req.from, req.to))
  BY DEF CheapestKept
<1>6. Cost(i, p) <= Cost(i, q) /\ Cost(j, q) <= Cost(j, p)
  BY <1>5 DEF Cheapest
<1>7. QED BY <1>3, <1>4, <1>6, TwoCheapest DEF Cost

\* RouteChoice.TradeOff, for every graph, every table of risks and all increasing
\* multipliers: of the routes one request is shown, a profile with more weight on risk
\* has the longer and less exposed one, and no metre of it is wasted.
THEOREM TradeOffHolds == Spec => []TradeOff
<1> DEFINE Inv == Types /\ CheapestKept
<1>1. Init => Inv
  BY TypesInit DEF Init, NoRequest, CheapestKept
<1>2. Inv /\ [Next]_vars => Inv'
  BY CheapestStep, TypesStep DEF Types
<1>3. Inv => TradeOff
  BY TradeOffFromCheapest DEF Types
<1>4. QED BY <1>1, <1>2, <1>3, PTL DEF Spec

-----------------------------------------------------------------------------
(* What the steps change of a request *)

SameEndpoints == req'.from = req.from /\ req'.to = req.to /\ req'.clean = req.clean

SameQuestion == SameEndpoints /\ req'.bucket = req.bucket

LEMMA ArriveFields ==
    ASSUME Arrive
    PROVE  /\ req'.at = "SnapEndpoints" /\ req'.status = 0 /\ req'.clean = FALSE
           /\ req'.routes = <<>> /\ req'.candidate = None
           /\ UNCHANGED <<graph, risk>>
<1>1. PICK bucket \in Times :
        req' = [NoRequest EXCEPT !.at = "SnapEndpoints", !.bucket = bucket]
  BY DEF Arrive
<1> QED BY <1>1 DEF NoRequest, Arrive

LEMMA AnswerFields ==
    ASSUME RequestTypes, NEW status, Answer(status)
    PROVE  /\ req'.at = "answer" /\ req'.status = status /\ SameQuestion
           /\ req'.routes = req.routes /\ req'.candidate = req.candidate
           /\ req'.steady = req.steady
BY DEF Answer, SameQuestion, SameEndpoints, RequestTypes, Request

LEMMA SnapFields ==
    ASSUME RequestTypes, SnapEndpoints
    PROVE  /\ UNCHANGED <<graph, risk>>
           /\ \/ Answer(400)
              \/ /\ req'.at = "FindRoute" /\ req'.status = req.status
                 /\ req'.from \in NodesOf(Routable) /\ req'.to \in NodesOf(Routable)
                 /\ req'.steady = TRUE /\ req'.clean = Clean
                 /\ req'.routes = req.routes /\ req'.candidate = req.candidate
<1>1. ASSUME NEW from \in NodesOf(Routable), NEW to \in NodesOf(Routable),
             req' = [req EXCEPT !.at = "FindRoute", !.from = from, !.to = to,
                                !.steady = TRUE, !.clean = Clean]
      PROVE  /\ req'.at = "FindRoute" /\ req'.status = req.status
             /\ req'.from = from /\ req'.to = to
             /\ req'.steady = TRUE /\ req'.clean = Clean
             /\ req'.routes = req.routes /\ req'.candidate = req.candidate
  <2> DEFINE clean == Clean
  <2>1. req' = [req EXCEPT !.at = "FindRoute", !.from = from, !.to = to,
                           !.steady = TRUE, !.clean = clean]
    BY <1>1
  <2> HIDE DEF clean
  <2>2. req'.at = "FindRoute" /\ req'.status = req.status /\ req'.from = from /\ req'.to = to
    BY <2>1 DEF RequestTypes, Request
  <2>3. req'.steady = TRUE /\ req'.clean = clean /\ req'.routes = req.routes
    BY <2>1 DEF RequestTypes, Request
  <2>4. req'.candidate = req.candidate
    BY <2>1 DEF RequestTypes, Request
  <2> QED BY <2>2, <2>3, <2>4 DEF clean
<1>2. UNCHANGED <<graph, risk>>
  BY DEF SnapEndpoints
<1>3. CASE Answer(400)
  BY <1>2, <1>3
<1>4. CASE \E from, to \in NodesOf(Routable) :
             req' = [req EXCEPT !.at = "FindRoute", !.from = from, !.to = to,
                                !.steady = TRUE, !.clean = Clean]
  BY <1>1, <1>2, <1>4
<1> QED BY <1>3, <1>4 DEF SnapEndpoints

LEMMA FindRouteFields ==
    ASSUME RequestTypes, FindRoute
    PROVE  /\ UNCHANGED <<graph, risk>> /\ SameQuestion /\ req'.steady = req.steady
           /\ req'.candidate = req.candidate
           /\ \/ Answer(404) /\ Paths(req.from, req.to) = {} /\ req'.routes = req.routes
              \/ /\ req'.at \in {"FindRoute", "FindCandidates"} /\ req'.status = req.status
                 /\ req'.at = "FindCandidates" => Len(req'.routes) = 3
<1> DEFINE kind == Len(req.routes) + 1
<1>1. CASE Answer(404) /\ Paths(req.from, req.to) = {}
  BY <1>1, AnswerFields DEF FindRoute
<1>2. ASSUME NEW p \in Cheapest(kind, Paths(req.from, req.to)),
             req' = [req EXCEPT !.routes = Append(@, p),
                                !.at = IF kind = 3 THEN "FindCandidates" ELSE "FindRoute"]
      PROVE  /\ SameQuestion /\ req'.steady = req.steady
             /\ req'.candidate = req.candidate
             /\ req'.at \in {"FindRoute", "FindCandidates"} /\ req'.status = req.status
             /\ req'.at = "FindCandidates" => Len(req'.routes) = 3
  <2> DEFINE at == IF kind = 3 THEN "FindCandidates" ELSE "FindRoute"
             routes == Append(req.routes, p)
  <2>1. req' = [req EXCEPT !.routes = routes, !.at = at]
    BY <1>2
  <2>2. p \in AllPaths /\ req.routes \in Seq(AllPaths)
    <3>1. req.from \in Nodes /\ req.to \in Nodes
      BY DEF FindRoute, RequestTypes, RequestInv
    <3> QED BY <3>1, PathsAreOfTheGraph DEF Cheapest, RequestTypes, Request
  <2>3. /\ at \in {"FindRoute", "FindCandidates"}
        /\ at = "FindCandidates" => Len(routes) = 3
    BY <2>2
  <2> HIDE DEF at, routes
  <2>4. req'.at = at /\ req'.routes = routes /\ req'.status = req.status
    BY <2>1 DEF RequestTypes, Request
  <2>5. SameQuestion /\ req'.steady = req.steady /\ req'.candidate = req.candidate
    BY <2>1 DEF SameQuestion, SameEndpoints, RequestTypes, Request
  <2> QED BY <2>3, <2>4, <2>5
<1>3. UNCHANGED <<graph, risk>>
  BY DEF FindRoute
<1>4. CASE \E p \in Cheapest(kind, Paths(req.from, req.to)) :
             req' = [req EXCEPT !.routes = Append(@, p),
                                !.at = IF kind = 3 THEN "FindCandidates" ELSE "FindRoute"]
  BY <1>2, <1>3, <1>4
<1> QED BY <1>1, <1>4 DEF FindRoute

\* Whom FindCandidates chooses from.
Usable(pool) == {p \in pool : WithinDetour(p)}

LEMMA FindCandidatesFields ==
    ASSUME RequestTypes, FindCandidates
    PROVE  /\ UNCHANGED <<graph, risk>> /\ SameQuestion /\ req'.steady = req.steady
           /\ req'.routes = req.routes /\ req'.at = "answer" /\ req'.status = 200
           /\ \E pool \in Shortest(Paths(req.from, req.to)) :
                req'.candidate \in IF Usable(pool) = {} THEN {None} ELSE Worst(Usable(pool))
<1>1. PICK pool \in Shortest(Paths(req.from, req.to)) :
        \E c \in IF Usable(pool) = {} THEN {None} ELSE Worst(Usable(pool)) :
          req' = [req EXCEPT !.at = "answer", !.status = 200, !.candidate = c]
  BY DEF FindCandidates, Usable
<1>2. PICK c \in IF Usable(pool) = {} THEN {None} ELSE Worst(Usable(pool)) :
          req' = [req EXCEPT !.at = "answer", !.status = 200, !.candidate = c]
  BY <1>1
<1>3. SameQuestion /\ req'.steady = req.steady /\ req'.routes = req.routes
  BY <1>2 DEF SameQuestion, SameEndpoints, RequestTypes, Request
<1>4. req'.at = "answer" /\ req'.status = 200 /\ req'.candidate = c
  BY <1>2 DEF RequestTypes, Request
<1>5. UNCHANGED <<graph, risk>>
  BY DEF FindCandidates
<1> QED BY <1>2, <1>3, <1>4, <1>5

LEMMA GraphStepFields ==
    ASSUME RequestTypes, GraphStep
    PROVE  /\ SameQuestion /\ req'.routes = req.routes /\ req'.candidate = req.candidate
           /\ req'.at = req.at /\ req'.status = req.status /\ risk' = risk
           /\ req'.steady => req.steady /\ Routable' = Routable
<1> DEFINE steady == req.steady /\ Routable' = Routable
<1>1. req' = [req EXCEPT !.steady = steady] /\ risk' = risk
  BY DEF GraphStep
<1>2. req'.steady = steady
  BY <1>1 DEF RequestTypes, Request
<1> HIDE DEF steady
<1>3. SameQuestion /\ req'.routes = req.routes /\ req'.candidate = req.candidate
  BY <1>1 DEF SameQuestion, SameEndpoints, RequestTypes, Request
<1>4. req'.at = req.at /\ req'.status = req.status
  BY <1>1 DEF RequestTypes, Request
<1> QED BY <1>1, <1>2, <1>3, <1>4 DEF steady

-----------------------------------------------------------------------------
(* No request is stranded *)

\* The graph as the endpoints saw it.
Placed ==
    req.clean /\ req.steady =>
      /\ req.from \in NodesOf(Routable) /\ req.to \in NodesOf(Routable)
      /\ HangsTogether(NodesOf(Routable), Routable)

StatusInv ==
    /\ req.at # "answer" => req.status = 0
    /\ req.at \in {"idle", "SnapEndpoints"} => req.candidate = None /\ ~req.clean
    /\ req.status = 404 /\ req.clean /\ req.steady => req.from = req.to
    /\ req.at = "FindCandidates" \/ Answered => Len(req.routes) = 3

PlaceInv == GraphInv /\ Types /\ Placed /\ StatusInv

LEMMA CleanHangsTogether ==
    ASSUME OneComponent, Clean
    PROVE  HangsTogether(NodesOf(Routable), Routable)
BY DEF OneComponent

LEMMA SamePlace ==
    ASSUME Placed, SameEndpoints, req'.steady => req.steady /\ Routable' = Routable
    PROVE  Placed'
BY SMTT(20) DEF Placed, SameEndpoints, NodesOf, HangsTogether, Across

LEMMA PlacedStep == PlaceInv /\ [Next]_vars => Placed'
<1> SUFFICES ASSUME PlaceInv, [Next]_vars PROVE Placed'
  OBVIOUS
<1>0. RequestTypes /\ Placed /\ StatusInv /\ GraphInv
  BY DEF PlaceInv, Types
<1>1. CASE Arrive
  BY <1>1, ArriveFields DEF Placed
<1>2. CASE SnapEndpoints
  <2>1. CASE Answer(400)
    <3>1. Routable' = Routable
      BY <1>0, <1>2, SnapFields DEF graph, Routable
    <3> QED BY <1>0, <2>1, <3>1, AnswerFields, SamePlace DEF SameQuestion
  <2>2. CASE ~Answer(400)
    <3>1. /\ req'.from \in NodesOf(Routable) /\ req'.to \in NodesOf(Routable)
          /\ req'.clean = Clean /\ UNCHANGED <<graph, risk>>
      BY <1>0, <1>2, <2>2, SnapFields
    <3>2. Routable' = Routable
      BY <3>1 DEF graph, Routable
    <3>3. OneComponent
      BY <1>0 DEF GraphInv
    <3>4. Clean => HangsTogether(NodesOf(Routable), Routable)
      BY <3>3, CleanHangsTogether
    <3> QED BY <3>1, <3>2, <3>4 DEF Placed, NodesOf, HangsTogether, Across
  <2> QED BY <2>1, <2>2
<1>3. CASE FindRoute
  <2>1. Routable' = Routable
    BY <1>0, <1>3, FindRouteFields DEF graph, Routable
  <2> QED BY <1>0, <1>3, <2>1, FindRouteFields, SamePlace DEF SameQuestion
<1>4. CASE FindCandidates
  <2>1. Routable' = Routable
    BY <1>0, <1>4, FindCandidatesFields DEF graph, Routable
  <2> QED BY <1>0, <1>4, <2>1, FindCandidatesFields, SamePlace DEF SameQuestion
<1>5. CASE Respond
  BY <1>5 DEF Respond, NoRequest, Placed
<1>6. CASE GraphStep
  BY <1>0, <1>6, GraphStepFields, SamePlace DEF SameQuestion
<1>7. CASE UNCHANGED vars
  <2>1. req' = req /\ Routable' = Routable
    BY <1>7 DEF vars, Routable
  <2> QED BY <1>0, <2>1, SamePlace DEF SameEndpoints
<1> QED BY <1>1, <1>2, <1>3, <1>4, <1>5, <1>6, <1>7 DEF Next

LEMMA StatusStep == PlaceInv /\ [Next]_vars => StatusInv'
<1> SUFFICES ASSUME PlaceInv, [Next]_vars PROVE StatusInv'
  OBVIOUS
<1>0. RequestTypes /\ Placed /\ StatusInv
  BY DEF PlaceInv, Types
<1>1. CASE Arrive
  BY <1>1, ArriveFields DEF StatusInv, Answered
<1>2. CASE SnapEndpoints
  <2>1. CASE Answer(400)
    BY <1>0, <2>1, AnswerFields DEF StatusInv, Answered
  <2>2. CASE ~Answer(400)
    <3>1. req'.at = "FindRoute" /\ req'.status = req.status
      BY <1>0, <1>2, <2>2, SnapFields
    <3>2. req.status = 0
      BY <1>0, <1>2 DEF StatusInv, SnapEndpoints
    <3> QED BY <3>1, <3>2 DEF StatusInv, Answered
  <2> QED BY <2>1, <2>2
<1>3. CASE FindRoute
  <2>1. CASE Answer(404) /\ Paths(req.from, req.to) = {}
    <3>1. req'.status = 404 /\ req'.at = "answer" /\ SameQuestion /\ req'.steady = req.steady
      BY <1>0, <2>1, AnswerFields
    <3>2. req.clean /\ req.steady => req.from = req.to
      BY <1>0, <2>1, PathExists DEF Placed
    <3> QED BY <3>1, <3>2 DEF StatusInv, Answered, SameQuestion, SameEndpoints
  <2>2. CASE ~(Answer(404) /\ Paths(req.from, req.to) = {})
    <3>1. /\ req'.at \in {"FindRoute", "FindCandidates"} /\ req'.status = req.status
          /\ req'.at = "FindCandidates" => Len(req'.routes) = 3
      BY <1>0, <1>3, <2>2, FindRouteFields
    <3>2. req.status = 0
      BY <1>0, <1>3 DEF StatusInv, FindRoute
    <3> QED BY <3>1, <3>2 DEF StatusInv, Answered
  <2> QED BY <2>1, <2>2
<1>4. CASE FindCandidates
  <2>1. req'.routes = req.routes /\ req'.at = "answer" /\ req'.status = 200
    BY <1>0, <1>4, FindCandidatesFields
  <2>2. Len(req.routes) = 3
    BY <1>0, <1>4 DEF StatusInv, FindCandidates
  <2> QED BY <2>1, <2>2 DEF StatusInv, Answered
<1>5. CASE Respond
  BY <1>5 DEF Respond, NoRequest, StatusInv, Answered
<1>6. CASE GraphStep
  BY <1>0, <1>6, GraphStepFields DEF StatusInv, Answered, SameQuestion, SameEndpoints
<1>7. CASE UNCHANGED vars
  BY <1>0, <1>7 DEF vars, StatusInv, Answered
<1> QED BY <1>1, <1>2, <1>3, <1>4, <1>5, <1>6, <1>7 DEF Next

LEMMA PlaceInit == Init => PlaceInv
<1> SUFFICES ASSUME Init PROVE PlaceInv
  OBVIOUS
<1>1. GraphInv /\ Types
  BY GraphInvInit, TypesInit DEF Init
<1>2. Placed /\ StatusInv
  BY DEF Init, NoRequest, Placed, StatusInv, Answered
<1> QED BY <1>1, <1>2 DEF PlaceInv

LEMMA PlaceStep == PlaceInv /\ [Next]_vars => PlaceInv'
<1> SUFFICES ASSUME PlaceInv, [Next]_vars PROVE PlaceInv'
  OBVIOUS
<1>1. GraphInv'
  BY GraphInvStep, StepsOfTheGraph DEF PlaceInv
<1>2. Types'
  BY TypesStep DEF PlaceInv
<1> QED BY <1>1, <1>2, PlacedStep, StatusStep DEF PlaceInv

\* Of some paths one is shortest.
LEMMA ShortestExists ==
    ASSUME NEW paths \in SUBSET AllPaths, paths # {}
    PROVE  \E p \in paths : \A q \in paths : LengthOf[p] <= LengthOf[q]
<1> DEFINE T == {LengthOf[p] : p \in paths}
<1>1. T \in SUBSET Nat /\ T # {}
  BY LengthIsNat
<1>2. PICK n \in T : \A m \in T : n <= m
  <2> HIDE DEF T
  <2> QED BY <1>1, LeastNat
<1>3. PICK p \in paths : LengthOf[p] = n
  OBVIOUS
<1> QED BY <1>2, <1>3

LEMMA NobodyStranded == PlaceInv => NeverStranded
<1> SUFFICES ASSUME PlaceInv PROVE NeverStranded
  OBVIOUS
<1>1. req.status = 404 /\ req.clean /\ req.steady => req.from = req.to
  BY DEF PlaceInv, StatusInv
<1>2. ASSUME Clean, NEW from \in NodesOf(Routable), NEW to \in NodesOf(Routable), from # to
      PROVE  FindWalkRoute(from, to) # {}
  <2>1. HangsTogether(NodesOf(Routable), Routable)
    BY <1>2, CleanHangsTogether DEF PlaceInv, GraphInv
  <2>2. Paths(from, to) # {}
    BY <1>2, <2>1, PathExists
  <2>3. Paths(from, to) \subseteq AllPaths
    BY PathsAreOfTheGraph DEF NodesOf
  <2> QED BY <2>2, <2>3, ShortestExists DEF FindWalkRoute
<1> QED BY <1>1, <1>2 DEF NeverStranded

\* RouteChoice.NeverStranded, for every graph: whatever the cleanup excludes, a request
\* snapped to a clean graph that stays as it is finds a way between two different nodes.
THEOREM NobodyIsStranded == Spec => []NeverStranded
BY PlaceInit, PlaceStep, NobodyStranded, PTL DEF Spec

-----------------------------------------------------------------------------
(* Fractions, rounded and put into levels *)

LEMMA DivFacts ==
    ASSUME NEW n \in Nat, NEW d \in Nat \ {0}
    PROVE  n \div d \in Nat /\ d * (n \div d) <= n /\ n < d * (n \div d) + d
OBVIOUS

LEMMA RoundFacts ==
    ASSUME NEW n \in Nat, NEW d \in Nat \ {0}
    PROVE  /\ Round(n, d) \in Nat
           /\ 2 * (d * Round(n, d)) <= 2 * n + d /\ 2 * n < 2 * (d * Round(n, d)) + d
<1> DEFINE a == 2 * n + d
           b == 2 * d
           q == a \div b
<1>1. a \in Nat /\ b \in Nat \ {0}
  OBVIOUS
<1>2. q \in Nat /\ b * q <= a /\ a < b * q + b
  <2> HIDE DEF a, b
  <2> QED BY <1>1, DivFacts
<1>3. Round(n, d) = q
  BY DEF Round
<1> HIDE DEF q
<1>4. b * q = 2 * (d * q)
  BY <1>2
<1> DEFINE dq == d * q
<1>5. dq \in Nat
  BY <1>2
<1> HIDE DEF dq
<1>6. 2 * dq <= 2 * n + d /\ 2 * n + d < 2 * dq + 2 * d
  BY <1>2, <1>4, <1>5 DEF dq
<1>7. 2 * dq <= 2 * n + d /\ 2 * n < 2 * dq + d
  BY <1>5, <1>6
<1> QED BY <1>2, <1>3, <1>7 DEF dq

LEMMA Scaled ==
    ASSUME NEW a \in Int, NEW b \in Int, NEW k \in Nat \ {0}
    PROVE  /\ a <= b <=> k * a <= k * b
           /\ a < b <=> k * a < k * b
<1>1. a <= b => k * a <= k * b
  OBVIOUS
<1>2. a < b => k * a < k * b
  OBVIOUS
<1>3. k * a \in Int /\ k * b \in Int
  OBVIOUS
<1>4. ~(a <= b) => ~(k * a <= k * b)
  <2> SUFFICES ASSUME b < a PROVE k * b < k * a
    BY <1>3
  <2> QED OBVIOUS
<1>5. ~(a < b) => ~(k * a < k * b)
  <2> SUFFICES ASSUME b <= a PROVE k * b <= k * a
    BY <1>3
  <2> QED OBVIOUS
<1> QED BY <1>1, <1>2, <1>4, <1>5

\* m / c is at most n / d.
AtMost(m, c, n, d) == m * d <= n * c

LEMMA RoundIsMonotone ==
    ASSUME NEW m \in Nat, NEW c \in Nat \ {0}, NEW n \in Nat, NEW d \in Nat \ {0},
           AtMost(m, c, n, d)
    PROVE  Round(m, c) <= Round(n, d)
<1> DEFINE q == Round(m, c)
           r == Round(n, d)
<1>1. /\ q \in Nat /\ 2 * (c * q) <= 2 * m + c
      /\ r \in Nat /\ 2 * n < 2 * (d * r) + d
  BY RoundFacts
<1> HIDE DEF q, r
<1> SUFFICES ASSUME r + 1 <= q PROVE FALSE
  BY <1>1 DEF q, r
<1> DEFINE cd == c * d
           x == cd * q
           y == cd * r
           md == m * d
           nc == n * c
<1>2. cd \in Nat \ {0} /\ x \in Nat /\ y \in Nat /\ md \in Nat /\ nc \in Nat
  BY <1>1
<1>3. 2 * x <= 2 * md + cd
  <2>1. d * (2 * (c * q)) <= d * (2 * m + c)
    BY <1>1, Scaled
  <2>2. d * (2 * (c * q)) = 2 * x
    BY <1>1
  <2>3. d * (2 * m + c) = 2 * md + cd
    OBVIOUS
  <2> QED BY <2>1, <2>2, <2>3
<1>4. 2 * nc < 2 * y + cd
  <2>1. c * (2 * n) < c * (2 * (d * r) + d)
    BY <1>1, Scaled
  <2>2. c * (2 * n) = 2 * nc
    OBVIOUS
  <2>3. c * (2 * (d * r) + d) = 2 * y + cd
    BY <1>1
  <2> QED BY <2>1, <2>2, <2>3
<1>5. y + cd <= x
  <2>1. cd * (r + 1) <= cd * q
    <3> HIDE DEF cd
    <3> QED BY <1>1, <1>2
  <2>2. cd * (r + 1) = y + cd
    BY <1>1
  <2> QED BY <2>1, <2>2
<1>6. md <= nc
  BY DEF AtMost
<1> HIDE DEF cd, x, y, md, nc
<1> QED BY <1>2, <1>3, <1>4, <1>5, <1>6

LEMMA LevelIsMonotone ==
    ASSUME NEW m \in Nat, NEW c \in Nat \ {0}, NEW n \in Nat, NEW d \in Nat \ {0},
           AtMost(m, c, n, d)
    PROVE  riskLevel(m, c) <= riskLevel(n, d)
<1>1. ASSUME NEW max \in Nat, n <= max * d PROVE m <= max * c
  <2> DEFINE md == m * d
             nc == n * c
  <2>1. md <= nc
    BY DEF AtMost
  <2>2. c * n <= c * (max * d)
    <3> DEFINE x == max * d
    <3>1. x \in Nat /\ n <= x
      BY <1>1
    <3> HIDE DEF x
    <3>2. c * n <= c * x
      BY <3>1, Scaled
    <3> QED BY <3>2 DEF x
  <2>3. c * (max * d) = d * (max * c) /\ c * n = nc /\ d * m = md
    OBVIOUS
  <2>4. d * m <= d * (max * c)
    <3> DEFINE x == d * (max * c)
    <3>1. md \in Nat /\ nc \in Nat /\ x \in Nat /\ nc <= x
      BY <2>2, <2>3
    <3> HIDE DEF md, nc, x
    <3>2. md <= x
      BY <2>1, <3>1
    <3> QED BY <2>3, <3>2 DEF x
  <2> DEFINE y == max * c
  <2>5. y \in Nat /\ d * m <= d * y
    BY <2>4
  <2> HIDE DEF y
  <2>6. m <= y
    BY <2>5, Scaled
  <2> QED BY <2>6 DEF y
<1>2. n <= LowMax * d => m <= LowMax * c
  BY <1>1, UnitAssumption
<1>3. n <= ModerateMax * d => m <= ModerateMax * c
  BY <1>1, UnitAssumption
<1> QED BY <1>2, <1>3 DEF riskLevel

\* The fraction with the higher level is not rounded to less.
LEMMA LevelsFollowRounds ==
    ASSUME NEW m \in Nat, NEW c \in Nat \ {0}, NEW n \in Nat, NEW d \in Nat \ {0},
           Round(m, c * Unit) < Round(n, d * Unit)
    PROVE  riskLevel(m, c) <= riskLevel(n, d)
<1>1. CASE AtMost(m, c, n, d)
  BY <1>1, LevelIsMonotone
<1>2. CASE ~AtMost(m, c, n, d)
  <2> DEFINE cu == c * Unit
             du == d * Unit
  <2>1. cu \in Nat \ {0} /\ du \in Nat \ {0}
    BY UnitAssumption
  <2>2. n * c <= m * d
    BY <1>2 DEF AtMost
  <2>3. AtMost(n, du, m, cu)
    <3> DEFINE nc == n * c
               md == m * d
    <3>1. nc \in Nat /\ md \in Nat /\ nc <= md /\ Unit \in Nat \ {0}
      BY <2>2, UnitAssumption
    <3>2. n * cu = Unit * nc /\ m * du = Unit * md
      BY <3>1
    <3> HIDE DEF nc, md, cu, du
    <3>3. Unit * nc <= Unit * md
      BY <3>1, Scaled
    <3> QED BY <3>2, <3>3 DEF AtMost
  <2> HIDE DEF cu, du
  <2>4. Round(n, du) <= Round(m, cu)
    BY <2>1, <2>3, RoundIsMonotone
  <2>5. Round(n, du) \in Nat /\ Round(m, cu) \in Nat /\ Round(m, cu) < Round(n, du)
    BY <2>1, RoundFacts DEF cu, du
  <2> QED BY <2>4, <2>5
<1> QED BY <1>1, <1>2

\* A score lies between what it is the average of and the largest of it.
LEMMA BlendFacts ==
    ASSUME NEW weighted \in Nat, NEW length \in Nat, NEW largest \in Nat,
           weighted <= length * largest,
           NEW score, score = Blend(weighted, length, largest)
    PROVE  /\ score[1] \in Nat /\ score[2] \in Nat \ {0}
           /\ AtMost(score[1], score[2], largest, 1)
           /\ length > 0 => AtMost(weighted, length, score[1], score[2])
<1> DEFINE all == length * largest
<1>1. all \in Nat
  OBVIOUS
<1>2. CASE length > 0
  <2> DEFINE n == 3 * weighted + all
             d == 4 * length
  <2>1. score[1] = n /\ score[2] = d
    BY <1>2 DEF Blend
  <2>2. n \in Nat /\ d \in Nat \ {0}
    BY <1>1, <1>2
  <2>3. n <= 4 * all
    <3> HIDE DEF all
    <3> QED BY <1>1 DEF all
  <2>4. largest * d = 4 * all
    OBVIOUS
  <2>5. n * 1 <= largest * d
    BY <2>2, <2>3, <2>4
  <2>6. weighted * d <= n * length
    <3>1. length * (4 * weighted) <= length * n
      <4>1. 4 * weighted <= n
        <5> HIDE DEF all
        <5> QED BY <1>1 DEF all
      <4>2. 4 * weighted \in Nat
        OBVIOUS
      <4> HIDE DEF n
      <4> QED BY <1>2, <2>2, <4>1, <4>2, Scaled
    <3>2. length * (4 * weighted) = weighted * d
      OBVIOUS
    <3>3. length * n = n * length
      <4> HIDE DEF n
      <4> QED BY <2>2
    <3> QED BY <3>1, <3>2, <3>3
  <2> HIDE DEF n, d
  <2> QED BY <2>1, <2>2, <2>5, <2>6 DEF AtMost
<1>3. CASE length = 0
  BY <1>3 DEF Blend, AtMost
<1> QED BY <1>2, <1>3

-----------------------------------------------------------------------------
(* The numbers of a route *)

LEMMA LargestFacts ==
    ASSUME NEW scores \in SUBSET Nat, scores # {}, NEW most \in Nat, \A s \in scores : s <= most
    PROVE  Largest(scores) \in scores /\ \A s \in scores : s <= Largest(scores)
<1>1. \E n \in scores : \A s \in scores : s <= n
  BY LargestNat
<1> QED BY <1>1 DEF Largest

\* The risks of the edges of a path, at a time.
RisksAt(bucket, p) == {ScoreIn(risk[bucket], e) : e \in ToSet(p)}

LargestAt(bucket, p) == Largest(RisksAt(bucket, p))

ScoreAt(bucket, p) ==
    Blend(ExposureOf[risk][bucket][p], LengthOf[p], LargestAt(bucket, p))

LEMMA EdgesOfPath ==
    ASSUME NEW p \in AllPaths
    PROVE  /\ ToSet(p) \subseteq Edges /\ ToSet(p) # {}
           /\ \A n \in 1..Len(p) : p[n] \in ToSet(p)
           /\ \A e \in ToSet(p) : \E n \in 1..Len(p) : p[n] = e
<1>1. p \in Seq(Edges) /\ Len(p) > 0
  BY PathsAreSequences
<1>2. DOMAIN p = 1..Len(p) /\ 1 \in 1..Len(p) /\ \A n \in 1..Len(p) : p[n] \in Edges
  BY <1>1
<1> QED BY <1>2 DEF ToSet

LEMMA LargestAtFacts ==
    ASSUME risk \in Risks, NEW bucket \in Buckets, NEW p \in AllPaths
    PROVE  /\ LargestAt(bucket, p) \in Nat /\ Unit * Grid \in Nat
           /\ LargestAt(bucket, p) <= Unit * Grid
           /\ \A e \in ToSet(p) : ScoreIn(risk[bucket], e) <= LargestAt(bucket, p)
           /\ \E e \in ToSet(p) : ScoreIn(risk[bucket], e) = LargestAt(bucket, p)
<1> DEFINE most == Unit * Grid
           S == RisksAt(bucket, p)
<1>1. most \in Nat
  BY UnitAssumption
<1>2. \A e \in ToSet(p) : ScoreIn(risk[bucket], e) \in Nat /\ ScoreIn(risk[bucket], e) <= most
  BY EdgesOfPath, ScoreIsBounded
<1>3. S \in SUBSET Nat /\ S # {} /\ \A s \in S : s <= most
  BY <1>2, EdgesOfPath DEF RisksAt
<1> HIDE DEF most
<1>4. LargestAt(bucket, p) \in S /\ \A s \in S : s <= LargestAt(bucket, p)
  <2> HIDE DEF S
  <2> QED BY <1>1, <1>3, LargestFacts DEF LargestAt, S
<1>5. \A e \in ToSet(p) : ScoreIn(risk[bucket], e) \in S
  BY DEF RisksAt
<1>6. \E e \in ToSet(p) : ScoreIn(risk[bucket], e) = LargestAt(bucket, p)
  BY <1>4 DEF RisksAt
<1> HIDE DEF S
<1>7. LargestAt(bucket, p) \in Nat /\ LargestAt(bucket, p) <= most
  BY <1>3, <1>4
<1> QED BY <1>1, <1>4, <1>5, <1>6, <1>7 DEF most

LEMMA ScoreAtFacts ==
    ASSUME risk \in Risks, NEW bucket \in Buckets, NEW p \in AllPaths,
           NEW score, score = ScoreAt(bucket, p)
    PROVE  /\ score[1] \in Nat /\ score[2] \in Nat \ {0}
           /\ AtMost(score[1], score[2], LargestAt(bucket, p), 1)
           /\ LengthOf[p] > 0 =>
                AtMost(ExposureOf[risk][bucket][p], LengthOf[p], score[1], score[2])
<1> DEFINE W == ExposureOf[risk][bucket][p]
           L == LengthOf[p]
           M == LargestAt(bucket, p)
<1>1. W \in Nat /\ L \in Nat /\ M \in Nat
  BY ExposureIsSum, LengthIsNat, LargestAtFacts
<1>2. W <= M * L
  <2>1. p \in Seq(Edges)
    BY PathsAreSequences
  <2>2. \A n \in 1..Len(p) : Weighed(risk, bucket)[p[n]] <= M * Length[p[n]]
    <3> TAKE n \in 1..Len(p)
    <3> DEFINE e == p[n]
               s == ScoreIn(risk[bucket], e)
               l == Length[e]
    <3>1. e \in ToSet(p) /\ e \in Edges
      BY EdgesOfPath
    <3> HIDE DEF e
    <3>2. s \in Nat /\ l \in Nat /\ s <= M
      BY <3>1, ScoreIsBounded, LengthAssumption, LargestAtFacts
    <3>3. Weighed(risk, bucket)[e] = l * s
      BY <3>1 DEF Weighed
    <3> HIDE DEF s, l, M
    <3>4. l * s <= M * l
      <4>1. l * s <= l * M
        BY <1>1, <3>2
      <4>2. l * M = M * l
        BY <1>1, <3>2
      <4> QED BY <4>1, <4>2
    <3> QED BY <3>3, <3>4 DEF e, l
  <2>3. Length \in Weights /\ Weighed(risk, bucket) \in Weights
    BY LengthAssumption, WeighedIsWeights DEF Weights
  <2> HIDE DEF M
  <2>4. Sum(Weighed(risk, bucket), p) <= M * Sum(Length, p)
    BY <1>1, <2>1, <2>2, <2>3, SumsCompared
  <2> QED BY <2>4, ExposureIsSum DEF LengthOf
<1>3. score = Blend(W, L, M)
  BY DEF ScoreAt
<1> HIDE DEF W, L, M
<1>4. W <= L * M
  <2>1. L * M = M * L
    BY <1>1
  <2> QED BY <1>2, <2>1
<1>5. /\ score[1] \in Nat /\ score[2] \in Nat \ {0}
      /\ AtMost(score[1], score[2], M, 1)
      /\ L > 0 => AtMost(W, L, score[1], score[2])
  BY <1>1, <1>3, <1>4, BlendFacts
<1> QED BY <1>5 DEF W, L, M

LEMMA RouteScoreIsScoreAt ==
    ASSUME NEW p
    PROVE  /\ RouteScore(p) = ScoreAt(req.bucket, p)
           /\ Largest({EdgeRisk(e) : e \in ToSet(p)}) = LargestAt(req.bucket, p)
BY DEF RouteScore, ScoreAt, Exposure, LargestAt, RisksAt, EdgeRisk

\* The time-of-day risk counts edges without a row as zero, as the score does.
LEMMA BucketRiskIsScoreAt ==
    ASSUME risk \in Risks, NEW bucket \in Buckets, NEW p \in AllPaths,
           NEW score, score = ScoreAt(bucket, p)
    PROVE  BucketRisk(bucket, p) = [score |-> Round(score[1], score[2] * Unit),
                                    level |-> riskLevel(score[1], score[2])]
<1> DEFINE found(e) == IF <<bucket, e>> \in RouteRiskByBucket(p) THEN risk[bucket][e] ELSE 0
           weight == [e \in Edges |-> Length[e] * found(e)]
<1>1. ASSUME NEW e \in ToSet(p) PROVE found(e) = ScoreIn(risk[bucket], e)
  <2>1. <<bucket, e>> \in RouteRiskByBucket(p) <=> risk[bucket][e] # None
    BY <1>1 DEF RouteRiskByBucket
  <2> QED BY <2>1 DEF ScoreIn
<1>2. {found(e) : e \in ToSet(p)} = RisksAt(bucket, p)
  BY <1>1 DEF RisksAt
<1>3. Sum(weight, p) = ExposureOf[risk][bucket][p]
  <2>1. weight \in Weights
    <3> SUFFICES ASSUME NEW e \in Edges PROVE Length[e] * found(e) \in Nat
      BY DEF Weights
    <3> DEFINE l == Length[e]
               s == ScoreIn(risk[bucket], e)
               f == found(e)
    <3>1. l \in Nat /\ s \in Nat
      BY LengthAssumption, ScoreIsBounded
    <3>2. f = s \/ f = 0
      BY DEF ScoreIn, RouteRiskByBucket
    <3> HIDE DEF l, s, f
    <3>3. l * f \in Nat
      BY <3>1, <3>2
    <3> QED BY <3>3 DEF l, f
  <2>2. \A n \in 1..Len(p) : weight[p[n]] = Weighed(risk, bucket)[p[n]]
    <3> TAKE n \in 1..Len(p)
    <3>1. p[n] \in ToSet(p) /\ p[n] \in Edges
      BY EdgesOfPath
    <3>2. found(p[n]) = ScoreIn(risk[bucket], p[n])
      BY <1>1, <3>1
    <3> HIDE DEF found
    <3> QED BY <3>1, <3>2 DEF Weighed
  <2> HIDE DEF weight
  <2> QED BY <2>1, <2>2, WeighedIsWeights, PathsAreSequences, SumsAgree, ExposureIsSum
<1>4. Blend(Sum(weight, p), LengthOf[p], Largest({found(e) : e \in ToSet(p)})) = score
  BY <1>2, <1>3, Zenon DEF ScoreAt, LargestAt
<1>5. BucketRisk(bucket, p) =
        LET s == Blend(Sum(weight, p), LengthOf[p], Largest({found(e) : e \in ToSet(p)}))
        IN [score |-> Round(s[1], s[2] * Unit), level |-> riskLevel(s[1], s[2])]
  BY Zenon DEF BucketRisk
<1> HIDE DEF weight, found
<1> QED BY <1>4, <1>5, Zenon

Displayed(score) == Round(score[1], score[2] * Unit)

LevelOf(score) == riskLevel(score[1], score[2])

LEMMA DisplayedIsNat ==
    ASSUME NEW n \in Nat, NEW d \in Nat \ {0}
    PROVE  Round(n, d * Unit) \in Nat /\ d * Unit \in Nat \ {0}
<1> DEFINE du == d * Unit
<1>1. du \in Nat \ {0}
  BY UnitAssumption
<1> HIDE DEF du
<1>2. Round(n, du) \in Nat
  BY <1>1, RoundFacts
<1> QED BY <1>1, <1>2 DEF du

\* What makes one fraction at most another does so in displayed units.
LEMMA AtMostDisplayed ==
    ASSUME NEW m \in Nat, NEW c \in Nat \ {0}, NEW n \in Nat, NEW d \in Nat \ {0},
           AtMost(m, c, n, d)
    PROVE  Round(m, c * Unit) <= Round(n, d * Unit)
<1> DEFINE cu == c * Unit
           du == d * Unit
           md == m * d
           nc == n * c
<1>1. cu \in Nat \ {0} /\ du \in Nat \ {0}
  BY UnitAssumption
<1>2. md \in Nat /\ nc \in Nat /\ md <= nc /\ Unit \in Nat \ {0}
  BY UnitAssumption DEF AtMost
<1>3. m * du = Unit * md /\ n * cu = Unit * nc
  BY <1>2
<1> HIDE DEF md, nc, cu, du
<1>4. Unit * md <= Unit * nc
  BY <1>2, Scaled
<1>5. AtMost(m, cu, n, du)
  BY <1>3, <1>4 DEF AtMost
<1>6. Round(m, cu) <= Round(n, du)
  BY <1>1, <1>5, RoundIsMonotone
<1> QED BY <1>6 DEF cu, du

\* What is shown of a route, from its score.
LEMMA ShownFields ==
    ASSUME risk \in Risks, NEW p \in AllPaths, NEW r, r = aggregateRoute(p),
           NEW score, score = ScoreAt(req.bucket, p),
           NEW largest, largest = LargestAt(req.bucket, p)
    PROVE  /\ r.score = Displayed(score) /\ r.level = LevelOf(score)
           /\ r.largest = Round(largest, Unit) /\ r.riskiest = riskLevel(largest, 1)
           /\ r.average = IF LengthOf[p] > 0 THEN Round(Exposure(p), LengthOf[p] * Unit) ELSE 0
           /\ r.highRisk = Round(HighRiskMeters(p), LengthUnit) /\ r.peak = Peak(p)
           /\ r.distance = Round(LengthOf[p], LengthUnit)
           /\ \A b \in Buckets : r.buckets[b] = BucketRisk(b, p)
BY RouteScoreIsScoreAt DEF aggregateRoute, Displayed, LevelOf

\* A score lies between the average and the largest risk, and its level is no higher.
LEMMA ScoreIsBetween ==
    ASSUME risk \in Risks, req.bucket \in Buckets, NEW p \in AllPaths,
           NEW r, r = aggregateRoute(p)
    PROVE  /\ r.score \in Nat /\ r.score <= Grid
           /\ r.average <= r.score /\ r.score <= r.largest /\ r.level <= r.riskiest
<1> DEFINE score == ScoreAt(req.bucket, p)
           M == LargestAt(req.bucket, p)
           L == LengthOf[p]
           W == Exposure(p)
           n == score[1]
           d == score[2]
<1>1. /\ n \in Nat /\ d \in Nat \ {0} /\ AtMost(n, d, M, 1)
      /\ L > 0 => AtMost(W, L, n, d)
  BY ScoreAtFacts DEF Exposure
<1>2. W \in Nat /\ L \in Nat /\ M \in Nat /\ M <= Unit * Grid
  BY ExposureIsSum, LengthIsNat, LargestAtFacts DEF Exposure
<1>3. /\ r.score = Round(n, d * Unit) /\ r.level = riskLevel(n, d)
      /\ r.largest = Round(M, Unit) /\ r.riskiest = riskLevel(M, 1)
      /\ r.average = IF L > 0 THEN Round(W, L * Unit) ELSE 0
  BY ShownFields DEF Displayed, LevelOf
<1> HIDE DEF score, M, L, W, n, d
<1>4. r.score \in Nat
  BY <1>1, <1>3, DisplayedIsNat
<1>5. 1 * Unit = Unit /\ Unit \in Nat \ {0} /\ Grid \in Nat /\ 1 \in Nat \ {0}
  BY UnitAssumption
<1>6. r.score <= r.largest
  <2>1. Round(n, d * Unit) <= Round(M, 1 * Unit)
    BY <1>1, <1>2, AtMostDisplayed
  <2> QED BY <1>3, <1>5, <2>1
<1>7. r.level <= r.riskiest
  BY <1>1, <1>2, <1>3, LevelIsMonotone
<1>8. r.average <= r.score
  <2>1. CASE L > 0
    <3>1. Round(W, L * Unit) <= Round(n, d * Unit)
      BY <1>1, <1>2, <2>1, AtMostDisplayed
    <3> QED BY <1>3, <2>1, <3>1
  <2>2. CASE ~(L > 0)
    BY <1>3, <1>4, <2>2
  <2> QED BY <2>1, <2>2
<1>9. Round(M, Unit) <= Grid
  <2> DEFINE q == Round(M, Unit)
  <2>1. q \in Nat /\ 2 * (Unit * q) <= 2 * M + Unit
    BY <1>2, <1>5, RoundFacts
  <2> HIDE DEF q
  <2> SUFFICES ASSUME Grid + 1 <= q PROVE FALSE
    BY <1>5, <2>1 DEF q
  <2> DEFINE uq == Unit * q
             ug == Unit * Grid
  <2>2. uq \in Nat /\ ug \in Nat /\ M <= ug /\ 2 * uq <= 2 * M + Unit
    BY <1>2, <1>5, <2>1
  <2>3. ug + Unit <= uq
    <3>1. Unit * (Grid + 1) <= Unit * q
      <4>1. Grid + 1 \in Int
        BY <1>5
      <4> QED BY <1>5, <2>1, <4>1, Scaled
    <3>2. Unit * (Grid + 1) = ug + Unit
      BY <1>5
    <3> QED BY <3>1, <3>2
  <2> HIDE DEF uq, ug
  <2> QED BY <1>2, <1>5, <2>2, <2>3
<1>10. r.largest \in Nat
  BY <1>2, <1>3, <1>5, RoundFacts
<1>11. r.score <= Grid
  BY <1>3, <1>4, <1>5, <1>6, <1>9, <1>10
<1> QED BY <1>4, <1>6, <1>7, <1>8, <1>11

\* More is not rounded to less, in one unit.
LEMMA RoundInUnit ==
    ASSUME NEW m \in Nat, NEW n \in Nat, NEW d \in Nat \ {0}, m <= n
    PROVE  Round(m, d) \in Nat /\ Round(n, d) \in Nat /\ Round(m, d) <= Round(n, d)
<1>1. d * m <= d * n
  BY Scaled
<1>2. m * d = d * m /\ n * d = d * n
  OBVIOUS
<1>3. AtMost(m, d, n, d)
  BY <1>1, <1>2 DEF AtMost
<1> QED BY <1>3, RoundIsMonotone, RoundFacts

\* High-risk metres are shown only if the riskiest segment is high, at least as many as of
\* each segment that is, and no more than the distance.
LEMMA HighRiskAgrees ==
    ASSUME risk \in Risks, req.bucket \in Buckets, NEW p \in AllPaths,
           NEW r, r = aggregateRoute(p)
    PROVE  /\ r.highRisk > 0 => r.riskiest = 2
           /\ \A e \in ToSet(p) :
                EdgeRisk(e) > ModerateMax => Round(Length[e], LengthUnit) <= r.highRisk
           /\ r.highRisk <= r.distance
<1> DEFINE weight == [e \in Edges |-> IF EdgeRisk(e) > ModerateMax THEN Length[e] ELSE 0]
           M == LargestAt(req.bucket, p)
           H == Sum(weight, p)
<1>1. weight \in Weights /\ Length \in Weights /\ p \in Seq(Edges)
  BY LengthAssumption, PathsAreSequences DEF Weights
<1>2. /\ r.highRisk = Round(H, LengthUnit) /\ r.riskiest = riskLevel(M, 1)
      /\ r.distance = Round(LengthOf[p], LengthUnit)
  BY ShownFields DEF HighRiskMeters
<1>3. \A e \in Edges : weight[e] = IF EdgeRisk(e) > ModerateMax THEN Length[e] ELSE 0
  OBVIOUS
<1> HIDE DEF weight, M, H
<1>4. H \in Nat /\ LengthUnit \in Nat \ {0} /\ LengthOf[p] \in Nat
  BY <1>1, SumIsNat, LengthIsNat, UnitAssumption DEF H
<1>5. H > 0 => riskLevel(M, 1) = 2
  <2> SUFFICES ASSUME H > 0 PROVE riskLevel(M, 1) = 2
    OBVIOUS
  <2>1. PICK n \in 1..Len(p) : weight[p[n]] > 0
    BY <1>1, SumIsPositive DEF H
  <2>2. p[n] \in ToSet(p) /\ p[n] \in Edges
    BY EdgesOfPath
  <2>3. EdgeRisk(p[n]) > ModerateMax
    BY <1>3, <2>1, <2>2
  <2>4. EdgeRisk(p[n]) <= M /\ EdgeRisk(p[n]) \in Nat /\ M \in Nat
    BY <2>2, LargestAtFacts, ScoreIsBounded DEF EdgeRisk, M
  <2>5. M > ModerateMax /\ M > LowMax
    BY <2>3, <2>4, UnitAssumption
  <2> QED BY <2>4, <2>5, UnitAssumption DEF riskLevel
<1>6. r.highRisk > 0 => r.riskiest = 2
  <2>1. H = 0 => Round(H, LengthUnit) = 0
    <3>1. Round(0, LengthUnit) \in Nat /\ 2 * (LengthUnit * Round(0, LengthUnit)) <= LengthUnit
      BY <1>4, RoundFacts
    <3> DEFINE q == Round(0, LengthUnit)
    <3> HIDE DEF q
    <3>2. SUFFICES ASSUME q >= 1, H = 0 PROVE FALSE
      BY <3>1 DEF q
    <3>3. LengthUnit * 1 <= LengthUnit * q
      BY <1>4, <3>1, <3>2, Scaled DEF q
    <3>4. LengthUnit * q \in Nat
      BY <1>4, <3>1 DEF q
    <3> QED BY <1>4, <3>1, <3>3, <3>4 DEF q
  <2> QED BY <1>2, <1>4, <1>5, <2>1
<1>7. ASSUME NEW e \in ToSet(p), EdgeRisk(e) > ModerateMax
      PROVE  Round(Length[e], LengthUnit) <= r.highRisk
  <2>1. PICK n \in 1..Len(p) : p[n] = e
    BY EdgesOfPath
  <2>2. weight[e] = Length[e] /\ Length[e] \in Nat
    BY <1>3, <1>7, EdgesOfPath, LengthAssumption
  <2>3. Length[e] <= H
    BY <1>1, <2>1, <2>2, SumIsNoLess DEF H
  <2> QED BY <1>2, <1>4, <2>2, <2>3, RoundInUnit
<1>8. r.highRisk <= r.distance
  <2>1. \A n \in 1..Len(p) : weight[p[n]] <= 1 * Length[p[n]]
    <3> TAKE n \in 1..Len(p)
    <3>1. p[n] \in Edges
      BY EdgesOfPath
    <3>2. Length[p[n]] \in Nat
      BY <3>1, LengthAssumption
    <3> QED BY <1>3, <3>1, <3>2
  <2>2. H <= 1 * Sum(Length, p)
    BY <1>1, <2>1, SumsCompared DEF H
  <2>3. H <= LengthOf[p]
    BY <1>1, <1>4, <2>2, SumIsNat DEF LengthOf
  <2> QED BY <1>2, <1>4, <2>3, RoundInUnit
<1> QED BY <1>6, <1>7, <1>8

\* Of two routes and times, the one shown with the higher score has no lower level.
LEMMA BucketsAgree ==
    ASSUME risk \in Risks, NEW p \in AllPaths, NEW q \in AllPaths,
           NEW b \in Buckets, NEW c \in Buckets,
           BucketRisk(b, p).score < BucketRisk(c, q).score
    PROVE  BucketRisk(b, p).level <= BucketRisk(c, q).level
<1> DEFINE s == ScoreAt(b, p)
           t == ScoreAt(c, q)
<1>1. /\ s[1] \in Nat /\ s[2] \in Nat \ {0}
      /\ t[1] \in Nat /\ t[2] \in Nat \ {0}
  BY ScoreAtFacts
<1>2. /\ BucketRisk(b, p) = [score |-> Round(s[1], s[2] * Unit), level |-> riskLevel(s[1], s[2])]
      /\ BucketRisk(c, q) = [score |-> Round(t[1], t[2] * Unit), level |-> riskLevel(t[1], t[2])]
  BY BucketRiskIsScoreAt
<1> HIDE DEF s, t
<1>3. /\ BucketRisk(b, p).score = Round(s[1], s[2] * Unit)
      /\ BucketRisk(b, p).level = riskLevel(s[1], s[2])
      /\ BucketRisk(c, q).score = Round(t[1], t[2] * Unit)
      /\ BucketRisk(c, q).level = riskLevel(t[1], t[2])
  BY <1>2
<1> QED BY <1>1, <1>3, LevelsFollowRounds

LEMMA BucketScoreIsNat ==
    ASSUME risk \in Risks, NEW p \in AllPaths, NEW b \in Buckets
    PROVE  BucketRisk(b, p).score \in Nat
<1> DEFINE s == ScoreAt(b, p)
<1>1. s[1] \in Nat /\ s[2] \in Nat \ {0}
  BY ScoreAtFacts
<1>2. BucketRisk(b, p) = [score |-> Round(s[1], s[2] * Unit), level |-> riskLevel(s[1], s[2])]
  BY BucketRiskIsScoreAt
<1> HIDE DEF s
<1> QED BY <1>1, <1>2, DisplayedIsNat

\* The first of the worst times exists.
LEMMA PeakIsWorst ==
    ASSUME risk \in Risks, NEW p \in AllPaths
    PROVE  /\ Peak(p) \in Buckets
           /\ \A c \in Buckets : BucketRisk(c, p).score <= BucketRisk(Peak(p), p).score
<1> DEFINE f == [b \in Buckets |-> BucketRisk(b, p).score]
<1>1. f \in [Buckets -> Nat] /\ \A b \in Buckets : f[b] = BucketRisk(b, p).score
  BY BucketScoreIsNat
<1> HIDE DEF f
<1>2. \E b \in Buckets : \A c \in Buckets : f[c] <= f[b]
  <2>1. \A i, j \in Nat : i <= j \/ j <= i
    OBVIOUS
  <2>2. f[1] \in Nat /\ f[2] \in Nat /\ f[3] \in Nat /\ f[4] \in Nat
    BY <1>1 DEF Buckets
  <2>3. \A c : c \in Buckets <=> c \in {1, 2, 3, 4}
    BY DEF Buckets
  <2>4. \/ \A c \in {1, 2, 3, 4} : f[c] <= f[1]
        \/ \A c \in {1, 2, 3, 4} : f[c] <= f[2]
        \/ \A c \in {1, 2, 3, 4} : f[c] <= f[3]
        \/ \A c \in {1, 2, 3, 4} : f[c] <= f[4]
    BY <2>2
  <2> QED BY <2>3, <2>4
<1> DEFINE T == {b \in Buckets : \A c \in Buckets : f[c] <= f[b]}
<1>3. PICK b \in T : \A c \in T : b <= c
  <2>1. T \in SUBSET Nat /\ T # {}
    BY <1>2 DEF Buckets
  <2> HIDE DEF T
  <2> QED BY <2>1, LeastNat
<1>4. \A c \in Buckets : f[c] = f[b] => b <= c
  <2> SUFFICES ASSUME NEW c \in Buckets, f[c] = f[b] PROVE c \in T
    BY <1>3
  <2> QED BY <1>3
<1>5. b \in Buckets /\ \A c \in Buckets : f[c] <= f[b]
  BY <1>3
<1> HIDE DEF T
<1>6. Peak(p) = CHOOSE x \in Buckets : /\ \A c \in Buckets : f[c] <= f[x]
                                       /\ \A c \in Buckets : f[c] = f[x] => x <= c
  BY <1>1 DEF Peak
<1>7. Peak(p) \in Buckets /\ \A c \in Buckets : f[c] <= f[Peak(p)]
  BY <1>4, <1>5, <1>6
<1> QED BY <1>1, <1>7

\* However coarse the percents, a difference is never rounded away.
LEMMA ReductionShows ==
    ASSUME NEW score \in Nat, NEW fastest \in Nat \ {0}, fastest <= Grid
    PROVE  (Reduction(score, fastest) > 0) <=> (score < fastest)
<1>1. Grid \in Nat \ {0}
  BY UnitAssumption
<1>2. CASE score < fastest
  <2> DEFINE less == fastest - score
             n == Grid * less
             q == Round(n, fastest)
  <2>1. less \in Nat /\ less >= 1
    BY <1>2
  <2>2. n \in Nat /\ fastest <= n
    <3> HIDE DEF less
    <3>1. Grid * 1 <= Grid * less
      BY <1>1, <2>1, Scaled
    <3>2. n \in Nat /\ Grid * 1 = Grid
      BY <1>1, <2>1
    <3> HIDE DEF n
    <3> QED BY <1>1, <3>1, <3>2 DEF n
  <2>3. Reduction(score, fastest) = q
    BY <1>2 DEF Reduction
  <2> HIDE DEF n
  <2>4. q \in Nat /\ 2 * n < 2 * (fastest * q) + fastest
    BY <2>2, RoundFacts
  <2>5. q # 0
    BY <2>2, <2>4
  <2> HIDE DEF q
  <2> QED BY <1>2, <2>3, <2>4, <2>5
<1>3. CASE score = fastest
  <2>1. Reduction(score, fastest) = Round(Grid * (fastest - score), fastest)
    BY <1>3 DEF Reduction
  <2>2. Grid * (fastest - score) = 0
    BY <1>1, <1>3
  <2> DEFINE q == Round(0, fastest)
  <2>3. q \in Nat /\ 2 * (fastest * q) <= 2 * 0 + fastest
    BY RoundFacts
  <2> HIDE DEF q
  <2>4. q = 0
    <3> SUFFICES ASSUME 1 <= q PROVE FALSE
      BY <2>3
    <3>1. fastest * 1 <= fastest * q
      BY <2>3, Scaled
    <3> DEFINE x == fastest * q
    <3>2. x \in Nat /\ fastest <= x /\ 2 * x <= fastest
      BY <2>3, <3>1
    <3> HIDE DEF x
    <3> QED BY <3>2
  <2> QED BY <1>3, <2>1, <2>2, <2>4 DEF q
<1>4. CASE fastest < score
  <2> DEFINE n == Grid * (score - fastest)
  <2>1. n \in Nat
    BY <1>1, <1>4
  <2>2. Reduction(score, fastest) = -Round(n, fastest)
    BY <1>4 DEF Reduction
  <2> HIDE DEF n
  <2>3. Round(n, fastest) \in Nat
    BY <2>1, RoundFacts
  <2> QED BY <1>4, <2>2, <2>3
<1> QED BY <1>2, <1>3, <1>4

-----------------------------------------------------------------------------
(* The candidate *)

\* What is shown as the score of a path.
ShownScore(p) == Round(RouteScore(p)[1], RouteScore(p)[2] * Unit)

Ties(p, paths) == {q \in paths : LengthOf[q] = LengthOf[p]}

\* Among the K shortest is one as short as the shortest, and all of them if they are no
\* more than K.
LEMMA PoolHasShortest ==
    ASSUME NEW paths \in SUBSET AllPaths, NEW pool \in Shortest(paths),
           NEW p \in paths, \A q \in paths : LengthOf[p] <= LengthOf[q]
    PROVE  /\ pool \subseteq paths
           /\ \E q \in pool : LengthOf[q] = LengthOf[p]
           /\ Cardinality(Ties(p, paths)) <= K => p \in pool
<1>1. /\ pool \subseteq paths
      /\ Cardinality(pool) = IF Cardinality(paths) < K THEN Cardinality(paths) ELSE K
      /\ \A x \in pool, q \in paths \ pool : LengthOf[x] <= LengthOf[q]
  BY DEF Shortest
<1>2. /\ IsFiniteSet(paths) /\ IsFiniteSet(pool) /\ IsFiniteSet(Ties(p, paths))
      /\ Cardinality(paths) \in Nat /\ Cardinality(pool) \in Nat
      /\ Cardinality(Ties(p, paths)) \in Nat
  <2>1. IsFiniteSet(paths)
    BY PathsAreFinite, FS_Subset
  <2>2. IsFiniteSet(pool)
    BY <1>1, <2>1, FS_Subset
  <2>3. Ties(p, paths) \in SUBSET paths
    BY DEF Ties
  <2>4. IsFiniteSet(Ties(p, paths))
    BY <2>1, <2>3, FS_Subset
  <2> QED BY <2>1, <2>2, <2>4, FS_CardinalityType
<1>3. K \in Nat \ {0}
  BY CandidateAssumption
<1>4. pool # {}
  <2>1. Cardinality(paths) # 0
    BY <1>2, FS_EmptySet
  <2>2. Cardinality(pool) # 0
    BY <1>1, <1>3, <2>1
  <2> QED BY <2>2, FS_EmptySet
<1>5. ASSUME p \notin pool PROVE pool \subseteq Ties(p, paths)
  <2> SUFFICES ASSUME NEW x \in pool PROVE LengthOf[x] = LengthOf[p]
    BY <1>1 DEF Ties
  <2>1. LengthOf[x] <= LengthOf[p] /\ LengthOf[p] <= LengthOf[x]
    BY <1>1, <1>5
  <2>2. LengthOf[x] \in Nat /\ LengthOf[p] \in Nat
    BY <1>1, LengthIsNat
  <2> QED BY <2>1, <2>2
<1>6. \E q \in pool : LengthOf[q] = LengthOf[p]
  BY <1>4, <1>5 DEF Ties
<1>7. ASSUME p \notin pool, Cardinality(Ties(p, paths)) <= K PROVE FALSE
  <2>1. p \in Ties(p, paths) /\ pool \subseteq Ties(p, paths)
    BY <1>5, <1>7 DEF Ties
  <2>2. /\ IsFiniteSet(pool \cup {p})
        /\ Cardinality(pool \cup {p}) = Cardinality(pool) + 1
    BY <1>2, <1>7, FS_AddElement
  <2>3. Cardinality(pool \cup {p}) <= Cardinality(Ties(p, paths))
    BY <1>2, <2>1, FS_Subset
  <2>4. Cardinality(pool \cup {p}) <= Cardinality(paths)
    BY <1>1, <1>2, FS_Subset
  <2> QED BY <1>1, <1>2, <1>3, <1>7, <2>2, <2>3, <2>4
<1> QED BY <1>1, <1>6, <1>7

\* What is as short as the fastest is not too long.
LEMMA TieWithinDetour ==
    ASSUME NEW p \in AllPaths, req.routes[1] \in AllPaths,
           LengthOf[p] = LengthOf[req.routes[1]]
    PROVE  WithinDetour(p)
<1> DEFINE x == Round(LengthOf[p], LengthUnit)
<1>1. x \in Nat
  BY LengthIsNat, UnitAssumption, RoundFacts
<1>2. Detour[1] \in Nat /\ Detour[2] \in Nat /\ Detour[2] <= Detour[1]
  BY CandidateAssumption
<1>3. WithinDetour(p) <=> (x > 0 => Detour[2] * x <= Detour[1] * x)
  BY DEF WithinDetour
<1> HIDE DEF x
<1>4. Detour[2] * x <= Detour[1] * x
  <2> DEFINE a == Detour[1]
             b == Detour[2]
  <2>1. a \in Nat /\ b \in Nat /\ b <= a
    BY <1>2
  <2> HIDE DEF a, b
  <2>2. b * x <= a * x
    BY <1>1, <2>1
  <2> QED BY <2>2 DEF a, b
<1> QED BY <1>3, <1>4

\* The profile without weight on risk is the shortest.
LEMMA FastestIsShortest ==
    ASSUME risk \in Risks, req.bucket \in Buckets, NEW paths \in SUBSET AllPaths,
           NEW p \in Cheapest(1, paths)
    PROVE  p \in paths /\ \A q \in paths : LengthOf[p] <= LengthOf[q]
<1> SUFFICES ASSUME NEW q \in paths PROVE LengthOf[p] <= LengthOf[q]
  BY DEF Cheapest
<1>1. Cost(1, p) <= Cost(1, q) /\ p \in paths
  BY DEF Cheapest
<1> DEFINE a == LengthOf[p]
           b == LengthOf[q]
           x == Exposure(p)
           y == Exposure(q)
<1>2. a \in Nat /\ b \in Nat /\ x \in Nat /\ y \in Nat
  BY <1>1, LengthIsNat, ExposureIsSum DEF Exposure
<1>3. Scale * a + 0 * x <= Scale * b + 0 * y /\ Scale \in Nat \ {0}
  BY <1>1, ProfileAssumption DEF Cost
<1> HIDE DEF a, b, x, y
<1>4. Scale * a <= Scale * b
  <2>1. 0 * x = 0 /\ 0 * y = 0 /\ Scale * a \in Nat /\ Scale * b \in Nat
    BY <1>2, <1>3
  <2> QED BY <1>3, <2>1
<1>5. a <= b
  BY <1>2, <1>3, <1>4, Scaled
<1> QED BY <1>5 DEF a, b

\* What the answer shows, while the graph is as it was: a candidate among the paths, no
\* safer than the fastest unless ties crowd it out.
CandidateKept ==
    Answered /\ req.steady =>
      /\ req.candidate \in AllPaths \cap Paths(req.from, req.to)
      /\ Cardinality(Ties(req.routes[1], Paths(req.from, req.to))) <= K =>
           ShownScore(req.routes[1]) <= ShownScore(req.candidate)

ChoiceInv == PlaceInv /\ CheapestKept /\ CandidateKept

LEMMA ShownScoreIsNat ==
    ASSUME risk \in Risks, req.bucket \in Buckets, NEW p \in AllPaths
    PROVE  ShownScore(p) \in Nat
<1> DEFINE s == RouteScore(p)
<1>1. s[1] \in Nat /\ s[2] \in Nat \ {0}
  BY RouteScoreIsScoreAt, ScoreAtFacts
<1> HIDE DEF s
<1>2. Round(s[1], s[2] * Unit) \in Nat
  BY <1>1, DisplayedIsNat
<1> QED BY <1>2 DEF ShownScore, s

LEMMA ChosenContrasts ==
    ASSUME ChoiceInv, FindCandidates, req.steady
    PROVE  /\ req'.candidate \in AllPaths \cap Paths(req.from, req.to)
           /\ Cardinality(Ties(req.routes[1], Paths(req.from, req.to))) <= K =>
                ShownScore(req.routes[1]) <= ShownScore(req'.candidate)
<1> DEFINE paths == Paths(req.from, req.to)
           fastest == req.routes[1]
<1>1. RequestTypes /\ risk \in Risks /\ StatusInv /\ CheapestKept
  BY DEF ChoiceInv, PlaceInv, Types
<1>2. PICK pool \in Shortest(paths) :
        req'.candidate \in IF Usable(pool) = {} THEN {None} ELSE Worst(Usable(pool))
  BY <1>1, FindCandidatesFields
<1>3. Len(req.routes) = 3 /\ req.routes \in Seq(AllPaths) /\ req.bucket \in Buckets
  BY <1>1 DEF StatusInv, FindCandidates, RequestTypes, Request
<1>4. fastest \in AllPaths /\ 1 \in DOMAIN req.routes
  <2> DEFINE routes == req.routes
  <2>1. Len(routes) = 3 /\ routes \in Seq(AllPaths)
    BY <1>3
  <2> HIDE DEF routes
  <2>2. routes[1] \in AllPaths /\ 1 \in DOMAIN routes
    BY SMTT(20), <2>1
  <2> QED BY <2>2 DEF routes
<1>5. paths \in SUBSET AllPaths
  <2>1. req.from \in Nodes /\ req.to \in Nodes
    BY <1>1 DEF FindCandidates, RequestTypes, RequestInv
  <2> QED BY <2>1, PathsAreOfTheGraph
<1>6. fastest \in Cheapest(1, paths)
  BY <1>1, <1>4 DEF CheapestKept
<1> HIDE DEF paths
<1>7. fastest \in paths /\ \A q \in paths : LengthOf[fastest] <= LengthOf[q]
  <2> HIDE DEF fastest
  <2> QED BY <1>1, <1>3, <1>5, <1>6, FastestIsShortest
<1>8. /\ pool \subseteq paths
      /\ \E q \in pool : LengthOf[q] = LengthOf[fastest]
      /\ Cardinality(Ties(fastest, paths)) <= K => fastest \in pool
  <2> HIDE DEF fastest
  <2> QED BY <1>2, <1>5, <1>7, PoolHasShortest
<1>9. \A q \in pool : LengthOf[q] = LengthOf[fastest] => q \in Usable(pool)
  BY <1>4, <1>5, <1>8, TieWithinDetour DEF Usable
<1>10. req'.candidate \in Worst(Usable(pool))
  BY <1>2, <1>8, <1>9
<1>11. req'.candidate \in paths /\ req'.candidate \in AllPaths
  BY <1>5, <1>8, <1>10 DEF Worst, Usable
<1>12. ASSUME Cardinality(Ties(fastest, paths)) <= K
       PROVE  ShownScore(fastest) <= ShownScore(req'.candidate)
  <2> DEFINE c == req'.candidate
  <2>1. fastest \in Usable(pool)
    BY <1>8, <1>9, <1>12
  <2>2. ShownScore(fastest) < ShownScore(c) \/ ShownScore(fastest) = ShownScore(c)
    BY <1>10, <2>1 DEF Worst, ShownScore
  <2>3. ShownScore(fastest) \in Nat /\ ShownScore(c) \in Nat
    BY <1>1, <1>3, <1>4, <1>5, <1>11, ShownScoreIsNat
  <2> HIDE DEF c, fastest
  <2>4. ShownScore(fastest) <= ShownScore(c)
    BY <2>2, <2>3
  <2> QED BY <2>4 DEF c, fastest
<1> QED BY <1>11, <1>12 DEF paths

\* Steps that leave what is compared as it was.
LEMMA SameContrast ==
    ASSUME CandidateKept, SameQuestion, req'.routes = req.routes,
           req'.candidate = req.candidate, Answered' => Answered, risk' = risk,
           req'.steady => req.steady /\ Routable' = Routable
    PROVE  CandidateKept'
<1> SUFFICES ASSUME Answered', req'.steady
             PROVE  /\ req.candidate \in AllPaths \cap Paths(req.from, req.to)'
                    /\ Cardinality(Ties(req.routes[1], Paths(req.from, req.to)))' <= K =>
                         ShownScore(req.routes[1])' <= ShownScore(req.candidate)'
  BY DEF CandidateKept
<1>1. Paths(req.from, req.to)' = Paths(req.from, req.to)
  BY DEF Paths, SameQuestion, SameEndpoints
<1>2. \A p : RouteScore(p)' = RouteScore(p)
  BY DEF RouteScore, Exposure, EdgeRisk, SameQuestion
<1>3. \A p : ShownScore(p)' = ShownScore(p)
  BY <1>2 DEF ShownScore
<1>4. ShownScore(req.routes[1])' = ShownScore(req.routes[1])
      /\ ShownScore(req.candidate)' = ShownScore(req.candidate)
  BY <1>2 DEF ShownScore
<1>5. Ties(req.routes[1], Paths(req.from, req.to))' = Ties(req.routes[1], Paths(req.from, req.to))
  BY <1>1 DEF Ties
<1> QED BY <1>1, <1>4, <1>5 DEF CandidateKept

LEMMA CandidateStep == ChoiceInv /\ [Next]_vars => CandidateKept'
<1> SUFFICES ASSUME ChoiceInv, [Next]_vars PROVE CandidateKept'
  OBVIOUS
<1>0. RequestTypes /\ CandidateKept
  BY DEF ChoiceInv, PlaceInv, Types
<1>1. CASE FindCandidates
  <2> SUFFICES ASSUME req'.steady
               PROVE  /\ req'.candidate \in AllPaths \cap Paths(req.from, req.to)'
                      /\ Cardinality(Ties(req'.routes[1], Paths(req.from, req.to)'))  <= K =>
                           ShownScore(req.routes[1])' <= ShownScore(req.candidate)'
    BY DEF CandidateKept, Ties
  <2>1. /\ SameQuestion /\ req'.routes = req.routes /\ req.steady
        /\ Routable' = Routable /\ risk' = risk
    BY <1>0, <1>1, FindCandidatesFields DEF graph, Routable
  <2>2. /\ req'.candidate \in AllPaths \cap Paths(req.from, req.to)
        /\ Cardinality(Ties(req.routes[1], Paths(req.from, req.to))) <= K =>
             ShownScore(req.routes[1]) <= ShownScore(req'.candidate)
    BY <1>1, <2>1, ChosenContrasts
  <2>3. Paths(req.from, req.to)' = Paths(req.from, req.to)
    BY <2>1 DEF Paths, SameQuestion, SameEndpoints
  <2>4. /\ ShownScore(req.routes[1])' = ShownScore(req.routes[1])
        /\ ShownScore(req.candidate)' = ShownScore(req'.candidate)
    BY <2>1 DEF ShownScore, RouteScore, Exposure, EdgeRisk, SameQuestion
  <2> QED BY <2>1, <2>2, <2>3, <2>4
<1>2. CASE GraphStep
  BY <1>0, <1>2, GraphStepFields, SameContrast DEF Answered
<1>3. CASE Arrive
  BY <1>3, ArriveFields DEF CandidateKept, Answered
<1>4. CASE Respond
  BY <1>4 DEF Respond, NoRequest, CandidateKept, Answered
<1>5. CASE SnapEndpoints
  <2>1. CASE Answer(400)
    <3>1. req'.status = 400
      BY <1>0, <2>1, AnswerFields
    <3> QED BY <3>1 DEF CandidateKept, Answered
  <2>2. CASE ~Answer(400)
    <3>1. req'.at = "FindRoute"
      BY <1>0, <1>5, <2>2, SnapFields
    <3> QED BY <3>1 DEF CandidateKept, Answered
  <2> QED BY <2>1, <2>2
<1>6. CASE FindRoute
  <2>1. CASE Answer(404) /\ Paths(req.from, req.to) = {}
    <3>1. req'.status = 404
      BY <1>0, <2>1, AnswerFields
    <3> QED BY <3>1 DEF CandidateKept, Answered
  <2>2. CASE ~(Answer(404) /\ Paths(req.from, req.to) = {})
    <3>1. req'.at \in {"FindRoute", "FindCandidates"}
      BY <1>0, <1>6, <2>2, FindRouteFields
    <3> QED BY <3>1 DEF CandidateKept, Answered
  <2> QED BY <2>1, <2>2
<1>7. CASE UNCHANGED vars
  <2>1. req' = req /\ risk' = risk /\ Routable' = Routable
    BY <1>7 DEF vars, Routable
  <2> QED BY <1>0, <2>1, SameContrast DEF SameQuestion, SameEndpoints, Answered
<1> QED BY <1>1, <1>2, <1>3, <1>4, <1>5, <1>6, <1>7 DEF Next

LEMMA ChoiceInit == Init => ChoiceInv
<1>1. Init => CheapestKept /\ CandidateKept
  BY DEF Init, NoRequest, CheapestKept, CandidateKept, Answered
<1> QED BY <1>1, PlaceInit DEF ChoiceInv

LEMMA ChoiceStep == ChoiceInv /\ [Next]_vars => ChoiceInv'
<1> SUFFICES ASSUME ChoiceInv, [Next]_vars PROVE ChoiceInv'
  OBVIOUS
<1>1. CheapestKept'
  BY CheapestStep DEF ChoiceInv, PlaceInv, Types
<1> QED BY <1>1, PlaceStep, CandidateStep DEF ChoiceInv

LEMMA ContrastFromChoice == ChoiceInv => CandidateContrasts
<1> SUFFICES ASSUME ChoiceInv, Answered, req.steady
             PROVE  /\ req.candidate # None
                    /\ Cardinality({p \in Paths(req.from, req.to) :
                                      LengthOf[p] = LengthOf[req.routes[1]]}) <= K =>
                         aggregateRoute(req.routes[1]).score
                           <= aggregateRoute(req.candidate).score
  BY DEF CandidateContrasts
<1>1. /\ req.candidate \in AllPaths \cap Paths(req.from, req.to)
      /\ Cardinality(Ties(req.routes[1], Paths(req.from, req.to))) <= K =>
           ShownScore(req.routes[1]) <= ShownScore(req.candidate)
  BY DEF ChoiceInv, CandidateKept
<1>2. \A p : aggregateRoute(p).score = ShownScore(p)
  BY DEF aggregateRoute, ShownScore
<1>3. req.candidate # None
  <2>1. req.candidate \in AllPaths
    BY <1>1
  <2> QED BY <2>1, NoneAssumption
<1> QED BY <1>1, <1>2, <1>3 DEF Ties

\* RouteChoice.CandidateContrasts, for every graph, every table of risks and every K: the
\* paths pgr_ksp is asked for include one as short as the fastest, so there is always a
\* candidate, and it is shown as no safer unless ties crowd the fastest out of the K.
THEOREM CandidateIsNoSafer == Spec => []CandidateContrasts
BY ChoiceInit, ChoiceStep, ContrastFromChoice, PTL DEF Spec

-----------------------------------------------------------------------------
(* The numbers of an answer *)

LEMMA ShownArePaths ==
    ASSUME ChoiceInv
    PROVE  /\ Displays \subseteq AllPaths /\ req.bucket \in Buckets /\ risk \in Risks
           /\ req.routes \in Seq(AllPaths)
<1>1. req \in Request /\ risk \in Risks
  BY DEF ChoiceInv, PlaceInv, Types, RequestTypes
<1>2. /\ req.routes \in Seq(AllPaths) /\ req.candidate \in AllPaths \cup {None}
      /\ req.bucket \in Buckets
  BY <1>1 DEF Request
<1>3. ToSet(req.routes) \subseteq AllPaths
  <2> DEFINE routes == req.routes
  <2>1. routes \in Seq(AllPaths)
    BY <1>2
  <2> HIDE DEF routes
  <2>2. \A i \in DOMAIN routes : routes[i] \in AllPaths
    BY <2>1
  <2> QED BY <2>2 DEF ToSet, routes
<1> QED BY <1>1, <1>2, <1>3 DEF Displays

LEMMA NumbersAgree == ChoiceInv => ScoresAgree
<1> SUFFICES ASSUME ChoiceInv, Answered PROVE ScoresAgree
  BY DEF ScoresAgree
<1>1. /\ Displays \subseteq AllPaths /\ req.bucket \in Buckets /\ risk \in Risks
      /\ req.routes \in Seq(AllPaths)
  BY ShownArePaths
<1>2. Shown = {aggregateRoute(p) : p \in Displays}
  BY DEF Shown
<1>3. ASSUME NEW r \in Shown
      PROVE  /\ r.average <= r.score /\ r.score <= r.largest
             /\ r.level <= r.riskiest
             /\ r.highRisk > 0 => r.riskiest = 2
  <2>1. PICK p \in Displays : r = aggregateRoute(p)
    BY <1>2
  <2>2. p \in AllPaths
    BY <1>1
  <2>3. r.average <= r.score /\ r.score <= r.largest /\ r.level <= r.riskiest
    BY <1>1, <2>1, <2>2, ScoreIsBetween
  <2>4. r.highRisk > 0 => r.riskiest = 2
    BY <1>1, <2>1, <2>2, HighRiskAgrees
  <2> QED BY <2>3, <2>4
<1>4. ASSUME NEW r \in Shown, NEW s \in Shown, NEW b \in Buckets, NEW c \in Buckets,
             r.buckets[b].score < s.buckets[c].score
      PROVE  r.buckets[b].level <= s.buckets[c].level
  <2>1. PICK p \in Displays : r = aggregateRoute(p)
    BY <1>2
  <2>2. PICK q \in Displays : s = aggregateRoute(q)
    BY <1>2
  <2>3. r.buckets[b] = BucketRisk(b, p) /\ s.buckets[c] = BucketRisk(c, q)
    BY <1>1, <2>1, <2>2, ShownFields
  <2>4. p \in AllPaths /\ q \in AllPaths
    BY <1>1
  <2> QED BY <1>1, <1>4, <2>3, <2>4, BucketsAgree
<1>5. ASSUME NEW r \in Shown
      PROVE  /\ r.buckets[req.bucket] = [score |-> r.score, level |-> r.level]
             /\ \A b \in Buckets : r.buckets[b].score <= r.buckets[r.peak].score
  <2>1. PICK p \in Displays : r = aggregateRoute(p)
    BY <1>2
  <2>2. p \in AllPaths
    BY <1>1
  <2>3. /\ \A b \in Buckets : r.buckets[b] = BucketRisk(b, p)
        /\ r.peak = Peak(p)
    BY <1>1, <2>1, <2>2, ShownFields
  <2>4. /\ Peak(p) \in Buckets
        /\ \A c \in Buckets : BucketRisk(c, p).score <= BucketRisk(Peak(p), p).score
    BY <1>1, <2>2, PeakIsWorst
  <2>5. BucketRisk(req.bucket, p) = [score |-> r.score, level |-> r.level]
    <3> DEFINE score == ScoreAt(req.bucket, p)
    <3>1. BucketRisk(req.bucket, p) = [score |-> Round(score[1], score[2] * Unit),
                                       level |-> riskLevel(score[1], score[2])]
      BY <1>1, <2>2, BucketRiskIsScoreAt
    <3>2. r.score = Displayed(score) /\ r.level = LevelOf(score)
      BY <1>1, <2>1, <2>2, ShownFields
    <3> HIDE DEF score
    <3> QED BY <3>1, <3>2 DEF Displayed, LevelOf
  <2> QED BY <1>1, <2>3, <2>4, <2>5
<1>6. ASSUME NEW fastest, fastest = aggregateRoute(req.routes[1]), NEW r \in Shown
      PROVE  IF fastest.score = 0 THEN Reduction(r.score, 0) = 0
             ELSE (Reduction(r.score, fastest.score) > 0) <=> (r.score < fastest.score)
  <2>1. req.routes[1] \in AllPaths
    <3> DEFINE routes == req.routes
    <3>1. Len(routes) = 3 /\ routes \in Seq(AllPaths)
      BY <1>1 DEF ChoiceInv, PlaceInv, StatusInv
    <3> HIDE DEF routes
    <3>2. routes[1] \in AllPaths
      BY <3>1
    <3> QED BY <3>2 DEF routes
  <2>2. fastest.score \in Nat /\ fastest.score <= Grid
    BY <1>1, <1>6, <2>1, ScoreIsBetween
  <2>3. PICK p \in Displays : r = aggregateRoute(p)
    BY <1>2
  <2>4. r.score \in Nat
    BY <1>1, <2>3, ScoreIsBetween
  <2>5. CASE fastest.score = 0
    BY <2>5 DEF Reduction
  <2>6. CASE fastest.score # 0
    BY <2>2, <2>4, <2>6, ReductionShows
  <2> QED BY <2>5, <2>6
<1>7. ASSUME NEW p \in Displays, NEW e \in ToSet(p), NEW r, r = aggregateRoute(p)
      PROVE  /\ EdgeRisk(e) > ModerateMax => Round(Length[e], LengthUnit) <= r.highRisk
             /\ r.highRisk <= r.distance
  BY <1>1, <1>7, HighRiskAgrees
<1> QED BY <1>3, <1>4, <1>5, <1>6, <1>7 DEF ScoresAgree

\* RouteChoice.ScoresAgree, for every graph, every table of risks, all thresholds and
\* units: the score, average, largest risk, level, high-risk metres, times of day and
\* percents of one answer do not contradict each other.
THEOREM NumbersOfAnAnswerAgree == Spec => []ScoresAgree
BY ChoiceInit, ChoiceStep, NumbersAgree, PTL DEF Spec

=============================================================================
