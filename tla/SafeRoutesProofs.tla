-------------------------- MODULE SafeRoutesProofs --------------------------
(***************************************************************************)
(* What every answer of SafeRoutes satisfies, for any number of requests,  *)
(* models, profiles and queries, whichever of Events happen.               *)
(*                                                                         *)
(* IInv follows a request from statement to statement: what it carries at  *)
(* a label (RequestOK) is what the next statement needs, and a cache entry *)
(* is sound for the key it is under (EntryOK).                             *)
(***************************************************************************)
EXTENDS SafeRoutes, TLAPS

\* An answer made from scores, for something that can be routed.
Sound(a) == a.reads # {} /\ None \notin a.reads /\ Outcome[a.query] = "routed"

WithModel == {"CacheGet", "SnapEndpoints", "FindRoute", "TimeOfDayRisk",
              "FindCandidates", "CandidateRisk", "CacheSet"}
WithRoute == {"TimeOfDayRisk", "FindCandidates", "CandidateRisk", "CacheSet"}

RequestOK(label, c) ==
    /\ c \in Request
    /\ label # "idle" => c.query \in Queries
    /\ label \in WithModel => c.model \in Models \cap c.seen
    /\ c.model # None => scores[c.model] # None
    /\ label = "ActiveModel" => c.model = None
    /\ None \notin c.reads
    /\ label \in WithModel \cup {"ActiveModel"} => Outcome[c.query] # "invalid"
    /\ label = "FindRoute" => Outcome[c.query] # "outside"
    /\ label \in WithRoute => c.reads # {} /\ Outcome[c.query] = "routed"
    /\ label \in {"FindRoute", "TimeOfDayRisk"} => c.left # 0
    /\ label \in WithModel \cup {"ActiveModel"} /\ active # None => active \in c.seen
    /\ label # "answer" => c.answer = None
    /\ c.answer # None => /\ Sound(c.answer)
                          /\ c.answer.model \in c.seen
                          /\ Resolved[c.answer.query] = Resolved[c.query]

EntryOK(k, e) ==
    /\ e \in Response \cup {None}
    /\ e # None => Sound(e) /\ Resolved[e.query] = k[1] /\ e.model = k[2]

RegistryOK ==
    /\ parameters \in [Models -> Params \cup {None}]
    /\ scores \in [Models -> Batches \cup {None}]
    /\ active \in Models \cup {None}
    /\ active # None => scores[active] # None
    /\ changes \in 0..MaxChanges
    /\ served \subseteq Models /\ rewritten \subseteq Models

RequestsOK ==
    /\ pc \in [Requests -> Labels]
    /\ req \in [Requests -> Request]
    /\ \A r \in Requests : RequestOK(pc[r], req[r])

CacheOK ==
    /\ cache \in [Slots -> Response \cup {None}]
    /\ \A k \in Slots : EntryOK(k, cache[k])

IInv == RegistryOK /\ RequestsOK /\ CacheOK

-----------------------------------------------------------------------------
(* Lemmas *)

\* None is not one of the values it stands beside, and not a response.
LEMMA NoneApart ==
    None \notin Models /\ None \notin Queries /\ None \notin Batches /\ None \notin Params
BY NoneAssumption

\* What a request carries when it arrives and when it is answered.
LEMMA BareOK ==
    ASSUME NEW q \in Queries \cup {None}, NEW seen \in SUBSET Models,
           NEW status \in Statuses, NEW a \in Response \cup {None}
    PROVE  Bare(q, seen, status, a) \in Request
<1>1. 0 \in 0..Profiles BY ProfileAssumption
<1> QED BY <1>1 DEF Bare, Request, Statuses

\* The request of a free slot.
LEMMA BlankOK == RequestOK("idle", NoRequest)
<1>1. NoRequest \in Request
  <2>1. /\ None \in Queries \cup {None} /\ None \in Response \cup {None}
        /\ {} \in SUBSET Models /\ 0 \in Statuses
    BY DEF Statuses
  <2> QED
    BY <2>1, BareOK DEF NoRequest
<1>2. NoRequest.model = None /\ NoRequest.reads = {} /\ NoRequest.answer = None
  BY DEF NoRequest, Bare
<1> QED
  BY <1>1, <1>2 DEF RequestOK, WithModel, WithRoute

\* A request without an answer may be finished at any time.
LEMMA DoneOK ==
    ASSUME NEW c, NEW label \in Labels \ {"idle", "answer"}, RequestOK(label, c),
           NEW status \in {400, 404, 500, 503}
    PROVE  RequestOK("answer", Done(c, status, None))
<1> DEFINE d == Done(c, status, None)
<1>1. /\ c.query \in Queries /\ c.query \in Queries \cup {None}
      /\ c.seen \in SUBSET Models /\ None \in Response \cup {None}
      /\ status \in Statuses
  BY DEF RequestOK, Request, Statuses
<1>2. d \in Request
  BY <1>1, BareOK DEF Done
<1>3. /\ d = Done(c, status, None)
      /\ d.query = c.query /\ d.model = None /\ d.reads = {} /\ d.answer = None
  BY DEF Done, Bare
<1> HIDE DEF d
<1> QED
  BY <1>1, <1>2, <1>3 DEF RequestOK, WithModel, WithRoute

\* A step of one request leaves the others as they were.
LEMMA GotoKeeps ==
    ASSUME RequestsOK, NEW r \in Requests, NEW label \in Labels, NEW c,
           RequestOK(label, c), Goto(r, label, c), UNCHANGED <<scores, active>>
    PROVE  RequestsOK'
<1>1. pc' \in [Requests -> Labels] /\ req' \in [Requests -> Request]
  BY DEF RequestsOK, RequestOK, Goto
<1>2. \A x \in Requests : RequestOK(pc[x], req[x])'
  <2> SUFFICES ASSUME NEW x \in Requests PROVE RequestOK(pc[x], req[x])'
    OBVIOUS
  <2>1. CASE x = r
    <3>1. pc'[x] = label /\ req'[x] = c
      BY <2>1 DEF Goto, RequestsOK
    <3> QED
      BY <3>1 DEF RequestOK
  <2>2. CASE x # r
    <3>1. pc'[x] = pc[x] /\ req'[x] = req[x]
      BY <2>2 DEF Goto, RequestsOK
    <3>2. RequestOK(pc[x], req[x])
      BY DEF RequestsOK
    <3> QED
      BY <3>1, <3>2 DEF RequestOK
  <2> QED
    BY <2>1, <2>2
<1> QED
  BY <1>1, <1>2 DEF RequestsOK

\* What At leaves alone.
LEMMA AtKeeps ==
    ASSUME IInv, NEW r \in Requests, NEW label, At(r, label)
    PROVE  /\ RegistryOK' /\ pc[r] = label /\ RequestOK(label, req[r])
           /\ UNCHANGED <<scores, active>>
BY DEF IInv, RegistryOK, RequestsOK, At, registry, history

-----------------------------------------------------------------------------
(* Every step keeps the invariant *)

LEMMA InitOK == Init => IInv
<1> SUFFICES ASSUME Init PROVE IInv
  OBVIOUS
<1>1. RegistryOK
  BY BoundAssumption DEF Init, Registry!Init, RegistryOK
<1>2. RequestOK("idle", NoRequest)
  BY BlankOK
<1>3. NoRequest \in Request
  BY <1>2 DEF RequestOK
<1>4. RequestsOK
  BY <1>2, <1>3 DEF Init, RequestsOK, Labels
<1>5. CacheOK
  BY DEF Init, CacheOK, EntryOK
<1> QED
  BY <1>1, <1>4, <1>5 DEF IInv

\* A request that goes on leaves the cache alone, but for the last command.
LEMMA StepOK ==
    ASSUME IInv, NEW r \in Requests, NEW from, At(r, from), NEW label \in Labels, NEW c,
           RequestOK(label, c), Goto(r, label, c), CacheOK'
    PROVE  IInv'
BY AtKeeps, GotoKeeps DEF IInv

LEMMA CacheKept == ASSUME CacheOK, UNCHANGED cache PROVE CacheOK'
BY DEF CacheOK, EntryOK

LEMMA ArriveOK == ASSUME IInv, NEW r \in Requests, Arrive(r) PROVE IInv'
<1>1. CacheOK'
  BY CacheKept DEF IInv, Arrive
<1>2. At(r, "idle")
  BY DEF Arrive
<1>3. PICK q \in Queries :
        LET seen == {active} \ {None}
        IN IF Outcome[q] = "invalid" THEN Goto(r, "answer", Bare(q, seen, 400, None))
                                     ELSE Goto(r, "ActiveModel", Bare(q, seen, 0, None))
  BY DEF Arrive
<1> DEFINE d(status) == Bare(q, {active} \ {None}, status, None)
<1>4. {active} \ {None} \in SUBSET Models
  BY DEF IInv, RegistryOK
<1>5. d(400) \in Request /\ d(0) \in Request
  <2>1. /\ q \in Queries \cup {None} /\ None \in Response \cup {None}
        /\ {0, 400} \subseteq Statuses
    BY DEF Statuses
  <2> QED
    BY <1>4, <2>1, BareOK
<1>8. \A status : /\ d(status).query = q /\ d(status).seen = {active} \ {None}
                  /\ d(status).model = None /\ d(status).answer = None
                  /\ d(status).reads = {}
  BY DEF Bare
<1> HIDE DEF d
<1>6. CASE Outcome[q] = "invalid"
  <2>1. Goto(r, "answer", d(400))
    BY <1>3, <1>6 DEF d
  <2>2. RequestOK("answer", d(400))
    BY <1>5, <1>8 DEF RequestOK, WithModel, WithRoute
  <2> QED
    BY <1>1, <1>2, <2>1, <2>2, StepOK DEF Labels
<1>7. CASE Outcome[q] # "invalid"
  <2>1. Goto(r, "ActiveModel", d(0))
    BY <1>3, <1>7 DEF d
  <2>2. RequestOK("ActiveModel", d(0))
    BY <1>5, <1>7, <1>8 DEF RequestOK, WithModel, WithRoute
  <2> QED
    BY <1>1, <1>2, <2>1, <2>2, StepOK DEF Labels
<1> QED
  BY <1>6, <1>7

\* A request that fails, or finds nothing, is answered.
LEMMA FinishOK ==
    ASSUME IInv, NEW r \in Requests, NEW from \in Labels \ {"idle", "answer"},
           At(r, from), NEW status \in {400, 404, 500, 503}, Finish(r, status),
           UNCHANGED cache
    PROVE  IInv'
<1>1. RequestOK("answer", Done(req[r], status, None))
  BY AtKeeps, DoneOK
<1> QED
  BY <1>1, CacheKept, StepOK DEF IInv, Finish, Labels

LEMMA ActiveModelOK == ASSUME IInv, NEW r \in Requests, ActiveModel(r) PROVE IInv'
<1>1. At(r, "ActiveModel") /\ UNCHANGED cache
  BY DEF ActiveModel
<1>2. CASE active = None
  BY <1>1, <1>2, FinishOK DEF ActiveModel, Labels
<1>3. CASE active # None
  <2> DEFINE c == [req[r] EXCEPT !.model = active, !.bounds = parameters[active]]
  <2>1. Goto(r, "CacheGet", c)
    BY <1>3 DEF ActiveModel
  <2>2. RequestOK("ActiveModel", req[r])
    BY <1>1, AtKeeps
  <2>3. active \in Models /\ parameters[active] \in Params \cup {None}
        /\ scores[active] # None
    BY <1>3 DEF IInv, RegistryOK
  <2>4. c \in Request
    <3> DEFINE d == [req[r] EXCEPT !.model = active]
    <3>1. d \in Request
      BY <2>2, <2>3 DEF RequestOK, Request
    <3>2. c = [d EXCEPT !.bounds = parameters[active]]
      OBVIOUS
    <3> HIDE DEF d, c
    <3> QED
      BY <2>3, <3>1, <3>2 DEF Request
  <2>5. /\ c.query = req[r].query /\ c.model = active /\ c.reads = req[r].reads
        /\ c.seen = req[r].seen /\ c.answer = req[r].answer
    BY <2>2 DEF RequestOK, Request
  <2> HIDE DEF c
  <2>6. RequestOK("CacheGet", c)
    BY <1>3, <2>2, <2>3, <2>4, <2>5 DEF RequestOK, WithModel, WithRoute
  <2> QED
    BY <1>1, <2>1, <2>6, CacheKept, StepOK DEF IInv, Labels
<1> QED
  BY <1>2, <1>3

\* An answer for the request: for its model, and for what its query resolves to.
LEMMA DeliverOK ==
    ASSUME IInv, NEW r \in Requests, NEW from \in WithModel, At(r, from),
           NEW a \in Response, Sound(a), a.model = req[r].model,
           Resolved[a.query] = Resolved[req[r].query], Deliver(r, a), CacheOK'
    PROVE  IInv'
<1> DEFINE c == req[r]
           d == Done(c, 200, a)
<1>1. RequestOK(from, c)
  BY AtKeeps
<1>2. /\ c.query \in Queries \cup {None} /\ c.seen \in SUBSET Models
      /\ a \in Response \cup {None} /\ 200 \in Statuses
  BY <1>1 DEF RequestOK, Request, Statuses
<1>3. d \in Request
  BY <1>2, BareOK DEF Done
<1>4. /\ d.query = c.query /\ d.model = None /\ d.reads = {} /\ d.answer = a
      /\ d.seen = c.seen
  BY DEF Done, Bare
<1>5. Goto(r, "answer", d)
  BY DEF Deliver
<1>6. c.query \in Queries /\ a.model \in c.seen
  BY <1>1 DEF RequestOK, WithModel
<1>7. Resolved[a.query] = Resolved[c.query]
  OBVIOUS
<1> HIDE DEF c, d
<1>8. RequestOK("answer", d)
  BY <1>3, <1>4, <1>6, <1>7 DEF RequestOK, WithModel, WithRoute
<1> QED
  BY <1>5, <1>8, StepOK DEF Labels

LEMMA CacheGetOK == ASSUME IInv, NEW r \in Requests, CacheGet(r) PROVE IInv'
<1> DEFINE k == routeCacheKey(req[r].query, req[r].model)
           entry == cache[k]
<1>1. At(r, "CacheGet") /\ UNCHANGED cache
  BY DEF CacheGet
<1>2. RequestOK("CacheGet", req[r])
  BY <1>1, AtKeeps
<1>3. CacheOK'
  BY <1>1, CacheKept DEF IInv
<1>4. req[r].query \in Queries /\ req[r].model \in Models
  BY <1>2 DEF RequestOK, WithModel
<1>5. /\ k \in Slots /\ k[1] = Resolved[req[r].query] /\ k[2] = req[r].model
  BY <1>4, QueryAssumption DEF routeCacheKey, Slots
<1>6. EntryOK(k, entry)
  BY <1>5 DEF IInv, CacheOK
<1>7. CASE entry # None /\ Deliver(r, entry)
  <2>1. entry \in Response /\ Sound(entry) /\ Resolved[entry.query] = k[1]
        /\ entry.model = k[2]
    BY <1>6, <1>7 DEF EntryOK
  <2> HIDE DEF k, entry
  <2> QED
    BY <1>1, <1>3, <1>5, <1>7, <2>1, DeliverOK DEF WithModel
<1>8. CASE Goto(r, "SnapEndpoints", req[r])
  <2>1. RequestOK("SnapEndpoints", req[r])
    BY <1>2 DEF RequestOK, WithModel, WithRoute
  <2> QED
    BY <1>1, <1>3, <1>8, <2>1, StepOK DEF Labels
<1> QED
  BY <1>7, <1>8 DEF CacheGet

LEMMA SnapEndpointsOK == ASSUME IInv, NEW r \in Requests, SnapEndpoints(r) PROVE IInv'
<1>1. At(r, "SnapEndpoints") /\ UNCHANGED cache
  BY DEF SnapEndpoints
<1>2. CASE Outcome[req[r].query] = "outside"
  BY <1>1, <1>2, FinishOK DEF SnapEndpoints, Labels
<1>3. CASE Outcome[req[r].query] # "outside"
  <2> DEFINE c == [req[r] EXCEPT !.left = Profiles]
  <2>1. Goto(r, "FindRoute", c)
    BY <1>3 DEF SnapEndpoints
  <2>2. RequestOK("SnapEndpoints", req[r])
    BY <1>1, AtKeeps
  <2>3. c \in Request /\ c.left # 0
    BY <2>2, ProfileAssumption DEF RequestOK, Request
  <2>4. /\ c.query = req[r].query /\ c.model = req[r].model /\ c.reads = req[r].reads
        /\ c.seen = req[r].seen /\ c.answer = req[r].answer
    BY <2>2 DEF RequestOK, Request
  <2> HIDE DEF c
  <2>5. RequestOK("FindRoute", c)
    BY <1>3, <2>2, <2>3, <2>4 DEF RequestOK, WithModel, WithRoute
  <2> QED
    BY <1>1, <2>1, <2>5, CacheKept, StepOK DEF IInv, Labels
<1> QED
  BY <1>2, <1>3

\* The scores of the model a request works with are there whenever it reads them.
LEMMA ReadOK ==
    ASSUME IInv, NEW from \in WithModel, NEW c, RequestOK(from, c),
           Outcome[c.query] = "routed",
           NEW label \in WithRoute, label = "TimeOfDayRisk" => c.left # 0
    PROVE  RequestOK(label, ReadScores(c)) /\ ReadScores(c).left = c.left
<1> DEFINE d == ReadScores(c)
<1>1. c \in Request /\ c.model \in Models
  BY DEF RequestOK
<1>2. scores[c.model] \in Batches \cup {None} /\ scores[c.model] # None
  BY <1>1, NoneApart DEF IInv, RegistryOK, RequestOK
<1>3. d \in Request
  BY <1>1, <1>2 DEF ReadScores, Request
<1>4. /\ d.query = c.query /\ d.model = c.model /\ d.seen = c.seen /\ d.answer = c.answer
      /\ d.left = c.left /\ d.reads = c.reads \cup {scores[c.model]}
  BY <1>1 DEF ReadScores, Request
<1> HIDE DEF d
<1>5. RequestOK(label, d)
  BY <1>1, <1>2, <1>3, <1>4 DEF RequestOK, WithModel, WithRoute
<1> QED
  BY <1>4, <1>5 DEF d

LEMMA FindRouteOK == ASSUME IInv, NEW r \in Requests, FindRoute(r) PROVE IInv'
<1>1. At(r, "FindRoute") /\ UNCHANGED cache
  BY DEF FindRoute
<1>2. RequestOK("FindRoute", req[r])
  BY <1>1, AtKeeps
<1>3. CASE Outcome[req[r].query] = "unreachable"
  BY <1>1, <1>3, FinishOK DEF FindRoute, Labels
<1>4. CASE Outcome[req[r].query] # "unreachable"
  <2>1. Goto(r, "TimeOfDayRisk", ReadScores(req[r]))
    BY <1>4 DEF FindRoute
  <2>2. Outcome[req[r].query] = "routed" /\ req[r].left # 0
    BY <1>2, <1>4, QueryAssumption DEF RequestOK, WithModel, Outcomes
  <2>3. RequestOK("TimeOfDayRisk", ReadScores(req[r]))
    BY <1>2, <2>2, ReadOK DEF WithModel, WithRoute
  <2> QED
    BY <1>1, <2>1, <2>3, CacheKept, StepOK DEF IInv, Labels
<1> QED
  BY <1>3, <1>4

LEMMA TimeOfDayRiskOK == ASSUME IInv, NEW r \in Requests, TimeOfDayRisk(r) PROVE IInv'
<1> DEFINE d == ReadScores(req[r])
           c == [d EXCEPT !.left = @ - 1]
           next == IF c.left = 0 THEN "FindCandidates" ELSE "FindRoute"
<1>1. At(r, "TimeOfDayRisk") /\ UNCHANGED cache /\ Goto(r, next, c)
  BY DEF TimeOfDayRisk
<1>2. RequestOK("TimeOfDayRisk", req[r])
  BY <1>1, AtKeeps
<1>3. Outcome[req[r].query] = "routed" /\ req[r].left # 0
  BY <1>2 DEF RequestOK, WithRoute
<1>4. RequestOK("TimeOfDayRisk", d) /\ d.left # 0
  BY <1>2, <1>3, ReadOK DEF WithModel, WithRoute
<1> HIDE DEF d
<1>5. /\ c.query = d.query /\ c.model = d.model /\ c.reads = d.reads /\ c.seen = d.seen
      /\ c.answer = d.answer /\ c \in Request
  BY <1>4, ProfileAssumption DEF RequestOK, Request
<1>6. next = "FindRoute" => c.left # 0
  OBVIOUS
<1>7. next \in {"FindRoute", "FindCandidates"}
  OBVIOUS
<1> HIDE DEF c, next
<1>8. RequestOK(next, c)
  BY <1>4, <1>5, <1>6, <1>7 DEF RequestOK, WithModel, WithRoute
<1> QED
  BY <1>1, <1>7, <1>8, CacheKept, StepOK DEF IInv, Labels

LEMMA FindCandidatesOK == ASSUME IInv, NEW r \in Requests, FindCandidates(r) PROVE IInv'
<1>1. PICK next \in {"CandidateRisk", "CacheSet"} : Goto(r, next, ReadScores(req[r]))
  BY DEF FindCandidates
<1>2. At(r, "FindCandidates") /\ UNCHANGED cache
  BY DEF FindCandidates
<1>3. RequestOK("FindCandidates", req[r])
  BY <1>2, AtKeeps
<1>4. Outcome[req[r].query] = "routed"
  BY <1>3 DEF RequestOK, WithRoute
<1>5. RequestOK(next, ReadScores(req[r]))
  BY <1>3, <1>4, ReadOK DEF WithModel, WithRoute
<1> QED
  BY <1>1, <1>2, <1>5, CacheKept, StepOK DEF IInv, Labels

LEMMA CandidateRiskOK == ASSUME IInv, NEW r \in Requests, CandidateRisk(r) PROVE IInv'
<1>1. At(r, "CandidateRisk") /\ UNCHANGED cache /\ Goto(r, "CacheSet", ReadScores(req[r]))
  BY DEF CandidateRisk
<1>2. RequestOK("CandidateRisk", req[r])
  BY <1>1, AtKeeps
<1>3. Outcome[req[r].query] = "routed"
  BY <1>2 DEF RequestOK, WithRoute
<1>4. RequestOK("CacheSet", ReadScores(req[r]))
  BY <1>2, <1>3, ReadOK DEF WithModel, WithRoute
<1> QED
  BY <1>1, <1>4, CacheKept, StepOK DEF IInv, Labels

LEMMA CacheSetOK == ASSUME IInv, NEW r \in Requests, CacheSet(r) PROVE IInv'
<1> DEFINE c == req[r]
           k == routeCacheKey(c.query, c.model)
           a == Computed(c)
<1>1. At(r, "CacheSet") /\ Deliver(r, a)
  BY DEF CacheSet
<1>2. RequestOK("CacheSet", c)
  BY <1>1, AtKeeps
<1>3. c.query \in Queries /\ c.model \in Models /\ c \in Request
  BY <1>2 DEF RequestOK, WithModel
<1>4. a \in Response
  BY <1>3 DEF Computed, Response, Request
<1>5. a.query = c.query /\ a.model = c.model /\ a.reads = c.reads
  BY DEF Computed
<1>6. Sound(a)
  BY <1>2, <1>5 DEF Sound, RequestOK, WithRoute
<1>7. k \in Slots /\ k[1] = Resolved[c.query] /\ k[2] = c.model
  BY <1>3, QueryAssumption DEF routeCacheKey, Slots
<1>8. EntryOK(k, a)
  BY <1>4, <1>5, <1>6, <1>7 DEF EntryOK
<1>9. cache' = [cache EXCEPT ![k] = a] \/ cache' = cache
  BY DEF CacheSet
<1> HIDE DEF c, k, a
<1>10. CacheOK'
  BY <1>4, <1>7, <1>8, <1>9 DEF IInv, CacheOK, EntryOK
<1> QED
  BY <1>1, <1>4, <1>5, <1>6, <1>10, DeliverOK DEF c, WithModel

LEMMA RespondOK == ASSUME IInv, NEW r \in Requests, Respond(r) PROVE IInv'
<1>1. At(r, "answer") /\ UNCHANGED cache /\ Goto(r, "idle", NoRequest)
  BY DEF Respond
<1> QED
  BY <1>1, BlankOK, CacheKept, StepOK DEF IInv, Labels

LEMMA FailOK == ASSUME IInv, NEW r \in Requests, Fail(r) PROVE IInv'
<1> DEFINE d == Done(req[r], 500, None)
           c == [d EXCEPT !.failed = TRUE]
<1>1. At(r, pc[r]) /\ UNCHANGED cache /\ Goto(r, "answer", c)
  BY DEF Fail, At
<1>2. pc[r] \in Labels \ {"idle", "answer"}
  BY DEF Fail, Statements, Labels
<1>3. RequestOK("answer", d)
  <2>1. RequestOK(pc[r], req[r])
    BY <1>1, AtKeeps
  <2> QED
    BY <1>2, <2>1, DoneOK
<1> HIDE DEF d
<1>4. /\ c.query = d.query /\ c.model = d.model /\ c.reads = d.reads /\ c.seen = d.seen
      /\ c.answer = d.answer /\ c.left = d.left
  BY <1>3 DEF RequestOK, Request
<1>5. c \in Request
  BY <1>3 DEF RequestOK, Request
<1> HIDE DEF c
<1>6. RequestOK("answer", c)
  BY <1>3, <1>4, <1>5 DEF RequestOK, WithModel, WithRoute
<1> QED
  BY <1>1, <1>6, CacheKept, StepOK DEF IInv, Labels

LEMMA ExpireOK == ASSUME IInv, NEW k \in Slots, Expire(k) PROVE IInv'
<1>1. CacheOK'
  BY DEF Expire, IInv, CacheOK, EntryOK
<1>2. UNCHANGED <<registry, history, pc, req>>
  BY DEF Expire
<1>3. RegistryOK'
  BY <1>2 DEF IInv, RegistryOK, registry, history
<1>4. RequestsOK'
  BY <1>2 DEF IInv, RequestsOK, RequestOK, registry
<1> QED
  BY <1>1, <1>3, <1>4 DEF IInv

LEMMA CrashOK == ASSUME IInv, Crash PROVE IInv'
<1>1. UNCHANGED <<registry, history, cache>>
  BY DEF Crash
<1>2. RegistryOK' /\ CacheOK'
  BY <1>1, CacheKept DEF IInv, RegistryOK, registry, history
<1>3. /\ pc' = [r \in Requests |-> "idle"] /\ req' = [r \in Requests |-> NoRequest]
      /\ UNCHANGED <<scores, active>>
  BY <1>1 DEF Crash, registry
<1>4. RequestOK("idle", NoRequest) /\ NoRequest \in Request
  BY BlankOK DEF RequestOK
<1>5. RequestsOK'
  BY <1>3, <1>4 DEF RequestsOK, RequestOK, Labels
<1> QED
  BY <1>2, <1>5 DEF IInv

\* The pipeline takes no scores away, and activates only what has them.
LEMMA RegistryKept ==
    ASSUME IInv, PipelineStep
    PROVE  RegistryOK' /\ \A m \in Models : scores[m] # None => scores'[m] # None
<1>1. /\ changes' \in 0..MaxChanges
      /\ served' \subseteq Models \cup ({active'} \ {None})
      /\ rewritten' \subseteq Models
  BY BoundAssumption DEF PipelineStep, IInv, RegistryOK
<1>2. PICK m \in Models : \/ \E p \in Params : Registry!Define(m, p)
                          \/ \E b \in Batches : Registry!Rescore(m, b)
                          \/ Registry!Activate(m)
  BY DEF PipelineStep, Registry!Next
<1>3. CASE \E p \in Params : Registry!Define(m, p)
  BY <1>1, <1>3 DEF Registry!Define, IInv, RegistryOK
<1>4. CASE \E b \in Batches : Registry!Rescore(m, b)
  BY <1>1, <1>4, NoneApart DEF Registry!Rescore, IInv, RegistryOK
<1>5. CASE Registry!Activate(m)
  BY <1>1, <1>5 DEF Registry!Activate, IInv, RegistryOK
<1> QED
  BY <1>2, <1>3, <1>4, <1>5

\* What a request carries stays sound while models come and go, because it takes
\* down what is activated while it is under way.
LEMMA PipelineStepOK == ASSUME IInv, PipelineStep PROVE IInv'
<1>1. /\ pc' = pc /\ cache' = cache
      /\ req' = [r \in Requests |->
                   IF UnderWay(r) THEN [req[r] EXCEPT !.seen = @ \cup ({active'} \ {None})]
                                  ELSE req[r]]
  BY DEF PipelineStep
<1>2. {active'} \ {None} \in SUBSET Models
  BY RegistryKept DEF RegistryOK
<1>3. \A r \in Requests : RequestOK(pc[r], req[r])'
  <2> SUFFICES ASSUME NEW r \in Requests PROVE RequestOK(pc[r], req[r])'
    OBVIOUS
  <2> DEFINE c == req[r]
             seen == c.seen \cup ({active'} \ {None})
             d == [c EXCEPT !.seen = seen]
             label == pc[r]
  <2>1. RequestOK(label, c) /\ label \in Labels
    BY DEF IInv, RequestsOK
  <2>2. c \in Request /\ c.seen \in SUBSET Models
    BY <2>1 DEF RequestOK, Request
  <2>3. /\ d.query = c.query /\ d.model = c.model /\ d.reads = c.reads /\ d.seen = seen
        /\ d.left = c.left /\ d.answer = c.answer
    BY <2>2 DEF Request
  <2>4. d \in Request
    BY <1>2, <2>2 DEF Request
  <2>5. c.model # None => scores'[c.model] # None
    BY <2>1, <2>2, RegistryKept DEF RequestOK, Request
  <2>6. pc'[r] = label
    BY <1>1
  <2>7. \/ label \in {"idle", "answer"} /\ req'[r] = c
        \/ label \notin {"idle", "answer"} /\ req'[r] = d
    <3>1. req'[r] = IF UnderWay(r) THEN d ELSE c
      BY <1>1
    <3> QED
      BY <3>1 DEF UnderWay
  <2>8. c.seen \subseteq seen /\ (active' # None => active' \in seen)
    OBVIOUS
  <2> HIDE DEF c, d, label, seen
  <2>9. CASE label \in {"idle", "answer"} /\ req'[r] = c
    BY <2>1, <2>5, <2>6, <2>9 DEF RequestOK, WithModel
  <2>10. CASE label \notin {"idle", "answer"} /\ req'[r] = d
    BY <2>1, <2>3, <2>4, <2>5, <2>6, <2>8, <2>10 DEF RequestOK, WithModel, WithRoute
  <2> QED
    BY <2>7, <2>9, <2>10
<1>4. req' \in [Requests -> Request]
  BY <1>1, <1>3 DEF RequestOK
<1>5. RequestsOK'
  BY <1>1, <1>3, <1>4 DEF IInv, RequestsOK
<1>6. CacheOK'
  BY <1>1, CacheKept DEF IInv
<1> QED
  BY <1>5, <1>6, RegistryKept DEF IInv

LEMMA NextOK == IInv /\ [Next]_vars => IInv'
<1> SUFFICES ASSUME IInv, [Next]_vars PROVE IInv'
  OBVIOUS
<1>1. CASE UNCHANGED vars
  BY <1>1 DEF vars, IInv, RegistryOK, RequestsOK, RequestOK, CacheOK, EntryOK
<1>2. CASE \E r \in Requests : Arrive(r) \/ Step(r) \/ Fail(r)
  BY <1>2, ArriveOK, ActiveModelOK, CacheGetOK, SnapEndpointsOK, FindRouteOK,
     TimeOfDayRiskOK, FindCandidatesOK, CandidateRiskOK, CacheSetOK, RespondOK, FailOK
     DEF Step
<1>3. CASE \E k \in Slots : Expire(k)
  BY <1>3, ExpireOK
<1>4. CASE Crash
  BY <1>4, CrashOK
<1>5. CASE PipelineStep
  BY <1>5, PipelineStepOK
<1> QED
  BY <1>1, <1>2, <1>3, <1>4, <1>5 DEF Next

-----------------------------------------------------------------------------
(* Theorems *)

THEOREM Invariance == Spec => []IInv
BY InitOK, NextOK, PTL DEF Spec

\* Every variable has its type: a request is at a statement of SafeRoutes and
\* routes at most the profiles there are.
THEOREM TypeCorrect == Spec => []TypeOK
<1>1. IInv => TypeOK
  BY DEF IInv, RegistryOK, RequestsOK, CacheOK, TypeOK
<1> QED
  BY <1>1, Invariance, PTL

\* No answer of SafeRoutes and no cache entry was computed from missing scores.
THEOREM RoutesAreNeverBlind == Spec => []NoBlindRoutes
<1>1. IInv => NoBlindRoutes
  <2> SUFFICES ASSUME IInv, NEW a \in Answers \cup Entries
               PROVE  a.reads # {} /\ None \notin a.reads
    BY DEF NoBlindRoutes
  <2>1. CASE a \in Answers
    BY <2>1 DEF Answers, IInv, RequestsOK, RequestOK, Sound
  <2>2. CASE a \in Entries
    BY <2>2 DEF Entries, IInv, CacheOK, EntryOK, Sound
  <2> QED
    BY <2>1, <2>2
<1> QED
  BY <1>1, Invariance, PTL

\* The model of an answer, from the cache or not, was active while its request
\* was served: the key holds the id of the model that ActiveModel found.
THEOREM AnswersAreOfServedModels == Spec => []ServedModelWasActive
<1>1. IInv => ServedModelWasActive
  BY DEF IInv, RequestsOK, RequestOK, ServedModelWasActive
<1> QED
  BY <1>1, Invariance, PTL

\* A cached answer is one to the same question: routeCacheKey tells apart all
\* that does not resolve to the same.
THEOREM HitsAnswerTheQuestion == Spec => []ServesTheQuestion
<1>1. IInv => ServesTheQuestion
  BY DEF IInv, RequestsOK, RequestOK, ServesTheQuestion, Sound
<1> QED
  BY <1>1, Invariance, PTL

-----------------------------------------------------------------------------
(* Freshness *)

\* Of a model nobody has rewritten since it was first activated, a request has
\* read what the tables hold, and so has an answer.
FreshRequest(c) ==
    IF c.model = None
    THEN c.reads = {}
    ELSE /\ c.model \in served
         /\ c.model \notin rewritten => /\ c.reads \subseteq {scores[c.model]}
                                       /\ c.bounds = parameters[c.model]

FreshAnswer(a) ==
    a # None => /\ a.model \in served
                /\ a.model \notin rewritten => /\ a.reads = {scores[a.model]}
                                              /\ a.bounds = parameters[a.model]

FreshInv ==
    /\ active # None => active \in served
    /\ \A r \in Requests : FreshRequest(req[r]) /\ FreshAnswer(req[r].answer)
    /\ \A k \in Slots : FreshAnswer(cache[k])

LEMMA FreshInit == Init => FreshInv
BY DEF Init, Registry!Init, FreshInv, FreshRequest, FreshAnswer, NoRequest, Bare

\* A step of a request changes neither the tables nor their history.
LEMMA FreshStep ==
    ASSUME IInv, FreshInv, NEW r \in Requests, NEW from, At(r, from), NEW label, NEW c,
           Goto(r, label, c), FreshRequest(c), FreshAnswer(c.answer),
           \A k \in Slots : FreshAnswer(cache'[k])
    PROVE  FreshInv'
<1>1. UNCHANGED <<parameters, scores, active, served, rewritten>>
  BY DEF At, registry, history
<1>2. \A x \in Requests : req'[x] = IF x = r THEN c ELSE req[x]
  BY DEF Goto, IInv, RequestsOK
<1>3. \A x \in Requests : FreshRequest(req'[x]) /\ FreshAnswer(req'[x].answer)
  BY <1>2 DEF FreshInv
<1> QED
  BY <1>1, <1>3 DEF FreshInv, FreshRequest, FreshAnswer

\* What a request carries when it is answered and when it arrives.
LEMMA FreshDone ==
    ASSUME NEW c, NEW status
    PROVE  FreshRequest(Done(c, status, None)) /\ FreshAnswer(Done(c, status, None).answer)
BY DEF FreshRequest, FreshAnswer, Done, Bare

LEMMA FreshDelivered ==
    ASSUME NEW c, NEW a, FreshAnswer(a)
    PROVE  FreshRequest(Done(c, 200, a)) /\ FreshAnswer(Done(c, 200, a).answer)
BY DEF FreshRequest, FreshAnswer, Done, Bare

LEMMA FreshBare ==
    ASSUME NEW q, NEW seen, NEW status
    PROVE  /\ FreshRequest(Bare(q, seen, status, None))
           /\ FreshAnswer(Bare(q, seen, status, None).answer)
BY DEF FreshRequest, FreshAnswer, Bare

\* Another read of the same model.
LEMMA FreshRead ==
    ASSUME NEW c \in Request, c.model # None, FreshRequest(c), FreshAnswer(c.answer)
    PROVE  FreshRequest(ReadScores(c)) /\ FreshAnswer(ReadScores(c).answer)
<1> DEFINE d == ReadScores(c)
<1>1. /\ d.model = c.model /\ d.bounds = c.bounds /\ d.answer = c.answer
      /\ d.reads = c.reads \cup {scores[c.model]}
  BY DEF ReadScores, Request
<1> QED
  BY <1>1 DEF FreshRequest

\* A request carries the same model and reads to another statement.
LEMMA FreshMove ==
    ASSUME IInv, FreshInv, NEW r \in Requests, NEW from, At(r, from), UNCHANGED cache,
           NEW label, NEW c, Goto(r, label, c), FreshRequest(c), FreshAnswer(c.answer)
    PROVE  FreshInv'
<1>1. \A k \in Slots : FreshAnswer(cache'[k])
  BY DEF FreshInv
<1> QED
  BY <1>1, FreshStep

LEMMA FreshFinish ==
    ASSUME IInv, FreshInv, NEW r \in Requests, NEW from, At(r, from), UNCHANGED cache,
           NEW status, Finish(r, status)
    PROVE  FreshInv'
<1> DEFINE c == Done(req[r], status, None)
<1>1. Goto(r, "answer", c) /\ FreshRequest(c) /\ FreshAnswer(c.answer)
  BY FreshDone DEF Finish
<1> HIDE DEF c
<1> QED
  BY <1>1, FreshMove

LEMMA FreshReading ==
    ASSUME IInv, FreshInv, NEW r \in Requests, NEW from \in WithModel, At(r, from),
           UNCHANGED cache, NEW label, Goto(r, label, ReadScores(req[r]))
    PROVE  FreshInv'
<1> DEFINE c == ReadScores(req[r])
<1>1. RequestOK(from, req[r])
  BY AtKeeps
<1>2. req[r] \in Request /\ req[r].model # None
  BY <1>1, NoneApart DEF RequestOK
<1>3. FreshRequest(c) /\ FreshAnswer(c.answer)
  BY <1>2, FreshRead DEF FreshInv
<1> HIDE DEF c
<1> QED
  BY <1>3, FreshMove DEF c

LEMMA FreshArrive ==
    ASSUME IInv, FreshInv, NEW r \in Requests, Arrive(r) PROVE FreshInv'
<1>1. At(r, "idle") /\ UNCHANGED cache
  BY DEF Arrive
<1>2. PICK q \in Queries, label \in {"answer", "ActiveModel"}, status \in {0, 400} :
        Goto(r, label, Bare(q, {active} \ {None}, status, None))
  BY DEF Arrive
<1> QED
  BY <1>1, <1>2, FreshBare, FreshMove

LEMMA FreshActiveModel ==
    ASSUME IInv, FreshInv, NEW r \in Requests, ActiveModel(r) PROVE FreshInv'
<1>1. At(r, "ActiveModel") /\ UNCHANGED cache
  BY DEF ActiveModel
<1>2. CASE active = None
  BY <1>1, <1>2, FreshFinish DEF ActiveModel
<1>3. CASE active # None
  <2> DEFINE c == [req[r] EXCEPT !.model = active, !.bounds = parameters[active]]
  <2>1. Goto(r, "CacheGet", c)
    BY <1>3 DEF ActiveModel
  <2>2. req[r] \in Request
    BY DEF IInv, RequestsOK
  <2>3. /\ c.model = active /\ c.bounds = parameters[active] /\ c.reads = req[r].reads
        /\ c.answer = req[r].answer
    BY <2>2 DEF Request
  <2>4. req[r].reads = {} /\ FreshAnswer(req[r].answer) /\ active \in served
    <3>1. req[r].model = None
      BY <1>1, AtKeeps DEF RequestOK
    <3> QED
      BY <1>3, <3>1 DEF FreshInv, FreshRequest
  <2> HIDE DEF c
  <2>5. FreshRequest(c) /\ FreshAnswer(c.answer)
    BY <1>3, <2>3, <2>4 DEF FreshRequest
  <2> QED
    BY <1>1, <2>1, <2>5, FreshMove
<1> QED
  BY <1>2, <1>3

LEMMA FreshCacheGet ==
    ASSUME IInv, FreshInv, NEW r \in Requests, CacheGet(r) PROVE FreshInv'
<1> DEFINE k == routeCacheKey(req[r].query, req[r].model)
           entry == cache[k]
           c == Done(req[r], 200, entry)
<1>1. At(r, "CacheGet") /\ UNCHANGED cache
  BY DEF CacheGet
<1>2. FreshRequest(req[r]) /\ FreshAnswer(req[r].answer)
  BY DEF FreshInv
<1>3. RequestOK("CacheGet", req[r])
  BY <1>1, AtKeeps
<1>4. req[r].query \in Queries /\ req[r].model \in Models
  BY <1>3 DEF RequestOK, WithModel
<1>5. k \in Slots
  BY <1>4, QueryAssumption DEF routeCacheKey, Slots
<1>6. FreshAnswer(entry)
  BY <1>5 DEF FreshInv
<1>7. FreshRequest(c) /\ FreshAnswer(c.answer)
  BY <1>6, FreshDelivered
<1>8. Goto(r, "answer", c) \/ Goto(r, "SnapEndpoints", req[r])
  BY DEF CacheGet, Deliver
<1> HIDE DEF c, entry
<1> QED
  BY <1>1, <1>2, <1>7, <1>8, FreshMove

LEMMA FreshSnapEndpoints ==
    ASSUME IInv, FreshInv, NEW r \in Requests, SnapEndpoints(r) PROVE FreshInv'
<1> DEFINE c == [req[r] EXCEPT !.left = Profiles]
<1>1. At(r, "SnapEndpoints") /\ UNCHANGED cache
  BY DEF SnapEndpoints
<1>2. req[r] \in Request /\ FreshRequest(req[r]) /\ FreshAnswer(req[r].answer)
  BY DEF IInv, RequestsOK, FreshInv
<1>3. /\ c.model = req[r].model /\ c.reads = req[r].reads /\ c.bounds = req[r].bounds
      /\ c.answer = req[r].answer
  BY <1>2 DEF Request
<1>4. Finish(r, 400) \/ Goto(r, "FindRoute", c)
  BY DEF SnapEndpoints
<1> HIDE DEF c
<1>5. FreshRequest(c) /\ FreshAnswer(c.answer)
  BY <1>2, <1>3 DEF FreshRequest
<1> QED
  BY <1>1, <1>4, <1>5, FreshFinish, FreshMove

LEMMA FreshTimeOfDayRisk ==
    ASSUME IInv, FreshInv, NEW r \in Requests, TimeOfDayRisk(r) PROVE FreshInv'
<1> DEFINE d == ReadScores(req[r])
           c == [d EXCEPT !.left = @ - 1]
           next == IF c.left = 0 THEN "FindCandidates" ELSE "FindRoute"
<1>1. At(r, "TimeOfDayRisk") /\ UNCHANGED cache /\ Goto(r, next, c)
  BY DEF TimeOfDayRisk
<1>2. RequestOK("TimeOfDayRisk", req[r])
  BY <1>1, AtKeeps
<1>3. Outcome[req[r].query] = "routed" /\ req[r].left # 0
  BY <1>2 DEF RequestOK, WithRoute
<1>4. RequestOK("TimeOfDayRisk", d)
  BY <1>2, <1>3, ReadOK DEF WithModel, WithRoute
<1>5. req[r] \in Request /\ req[r].model # None /\ d \in Request
  BY <1>2, <1>4, NoneApart DEF RequestOK, WithModel
<1>6. FreshRequest(d) /\ FreshAnswer(d.answer)
  BY <1>5, FreshRead DEF FreshInv
<1> HIDE DEF d, next
<1>7. c.model = d.model /\ c.reads = d.reads /\ c.bounds = d.bounds /\ c.answer = d.answer
  BY <1>5 DEF Request
<1> HIDE DEF c
<1>8. FreshRequest(c) /\ FreshAnswer(c.answer)
  BY <1>6, <1>7 DEF FreshRequest
<1> QED
  BY <1>1, <1>8, FreshMove

LEMMA FreshCacheSet ==
    ASSUME IInv, FreshInv, NEW r \in Requests, CacheSet(r) PROVE FreshInv'
<1> DEFINE k == routeCacheKey(req[r].query, req[r].model)
           a == Computed(req[r])
           c == Done(req[r], 200, a)
<1>1. At(r, "CacheSet") /\ Goto(r, "answer", c)
  BY DEF CacheSet, Deliver
<1>2. RequestOK("CacheSet", req[r])
  BY <1>1, AtKeeps
<1>3. req[r].model # None /\ req[r].reads # {}
  BY <1>2, NoneApart DEF RequestOK, WithModel, WithRoute
<1>4. /\ a.model = req[r].model /\ a.reads = req[r].reads /\ a.bounds = req[r].bounds
  BY DEF Computed
<1>5. FreshRequest(req[r])
  BY DEF FreshInv
<1> HIDE DEF a, k
<1>6. FreshAnswer(a)
  BY <1>3, <1>4, <1>5 DEF FreshRequest, FreshAnswer
<1>7. FreshRequest(c) /\ FreshAnswer(c.answer)
  BY <1>6, FreshDelivered
<1>8. cache' = [cache EXCEPT ![k] = a] \/ cache' = cache
  BY DEF CacheSet, k, a
<1>9. \A s \in Slots : cache'[s] = a \/ cache'[s] = cache[s]
  BY <1>8 DEF IInv, CacheOK
<1>10. \A s \in Slots : FreshAnswer(cache[s])
  BY DEF FreshInv
<1>11. \A s \in Slots : FreshAnswer(cache'[s])
  BY <1>6, <1>9, <1>10
<1> HIDE DEF c
<1> QED
  BY <1>1, <1>7, <1>11, FreshStep

LEMMA FreshFail ==
    ASSUME IInv, FreshInv, NEW r \in Requests, Fail(r) PROVE FreshInv'
<1> DEFINE d == Done(req[r], 500, None)
           c == [d EXCEPT !.failed = TRUE]
<1>1. At(r, pc[r]) /\ UNCHANGED cache /\ Goto(r, "answer", c)
  BY DEF Fail, At
<1>2. c.model = None /\ c.reads = {} /\ c.answer = None
  BY DEF Done, Bare
<1> HIDE DEF c
<1>3. FreshRequest(c) /\ FreshAnswer(c.answer)
  BY <1>2 DEF FreshRequest, FreshAnswer
<1> QED
  BY <1>1, <1>3, FreshMove

\* What the pipeline does to a model that has been active is taken down.
LEMMA FreshPipelineStep ==
    ASSUME IInv, FreshInv, PipelineStep PROVE FreshInv'
<1>1. /\ served' = served \cup ({active'} \ {None})
      /\ rewritten' = rewritten \cup {m \in served : \/ parameters'[m] # parameters[m]
                                                     \/ scores'[m] # scores[m]}
      /\ cache' = cache
      /\ req' = [r \in Requests |->
                   IF UnderWay(r) THEN [req[r] EXCEPT !.seen = @ \cup ({active'} \ {None})]
                                  ELSE req[r]]
  BY DEF PipelineStep
<1>2. \A r \in Requests : /\ req'[r].model = req[r].model /\ req'[r].reads = req[r].reads
                          /\ req'[r].bounds = req[r].bounds
                          /\ req'[r].answer = req[r].answer
  BY <1>1 DEF IInv, RequestsOK, Request
<1>3. \A m \in served : m \notin rewritten' =>
        parameters'[m] = parameters[m] /\ scores'[m] = scores[m] /\ m \notin rewritten
  BY <1>1
<1>4. \A r \in Requests : FreshRequest(req[r])'
  BY <1>1, <1>2, <1>3 DEF FreshInv, FreshRequest
<1>5. \A r \in Requests : FreshAnswer(req[r].answer)'
  BY <1>1, <1>2, <1>3 DEF FreshInv, FreshAnswer
<1>6. \A k \in Slots : FreshAnswer(cache[k])'
  BY <1>1, <1>3 DEF FreshInv, FreshAnswer
<1>7. active' # None => active' \in served'
  BY <1>1
<1> QED
  BY <1>4, <1>5, <1>6, <1>7 DEF FreshInv

LEMMA FreshNext == IInv /\ FreshInv /\ [Next]_vars => FreshInv'
<1> SUFFICES ASSUME IInv, FreshInv, [Next]_vars PROVE FreshInv'
  OBVIOUS
<1>1. CASE UNCHANGED vars
  BY <1>1 DEF vars, FreshInv, FreshRequest, FreshAnswer
<1>2. ASSUME NEW r \in Requests, FindRoute(r) PROVE FreshInv'
  BY <1>2, FreshFinish, FreshReading DEF FindRoute, WithModel
<1>3. ASSUME NEW r \in Requests, FindCandidates(r) PROVE FreshInv'
  BY <1>3, FreshReading DEF FindCandidates, WithModel
<1>4. ASSUME NEW r \in Requests, CandidateRisk(r) PROVE FreshInv'
  BY <1>4, FreshReading DEF CandidateRisk, WithModel
<1>5. ASSUME NEW r \in Requests, Respond(r) PROVE FreshInv'
  <2>1. FreshRequest(NoRequest) /\ FreshAnswer(NoRequest.answer)
    BY FreshBare DEF NoRequest
  <2> QED
    BY <1>5, <2>1, FreshMove DEF Respond
<1>6. CASE \E r \in Requests : Arrive(r) \/ Step(r) \/ Fail(r)
  BY <1>2, <1>3, <1>4, <1>5, <1>6, FreshArrive, FreshActiveModel, FreshCacheGet,
     FreshSnapEndpoints, FreshTimeOfDayRisk, FreshCacheSet, FreshFail DEF Step
<1>7. CASE \E k \in Slots : Expire(k)
  BY <1>7 DEF Expire, registry, history, IInv, CacheOK, FreshInv, FreshRequest, FreshAnswer
<1>8. CASE Crash
  <2>1. FreshRequest(NoRequest) /\ FreshAnswer(NoRequest.answer)
    BY FreshBare DEF NoRequest
  <2>2. \A r \in Requests : req'[r] = NoRequest
    BY <1>8 DEF Crash
  <2>3. UNCHANGED <<registry, history, cache>>
    BY <1>8 DEF Crash
  <2> QED
    BY <2>1, <2>2, <2>3 DEF registry, history, FreshInv, FreshRequest, FreshAnswer
<1>9. CASE PipelineStep
  BY <1>9, FreshPipelineStep
<1> QED
  BY <1>1, <1>6, <1>7, <1>8, <1>9 DEF Next

\* Unless the pipeline rewrites a model in place after it was first activated, the
\* answers and the cache entries computed with it, before and after any number of
\* activations, are those of the parameters and the scores the tables hold.
THEOREM OnlyRewritingMakesStale == Spec => []FreshUnlessRewritten
<1>1. IInv /\ FreshInv => FreshUnlessRewritten
  <2> SUFFICES ASSUME FreshInv, NEW a \in Answers \cup Entries, a.model \notin rewritten
               PROVE  a.reads = {scores[a.model]} /\ a.bounds = parameters[a.model]
    BY DEF FreshUnlessRewritten
  <2>1. a # None /\ FreshAnswer(a)
    BY DEF Answers, Entries, FreshInv
  <2> QED
    BY <2>1 DEF FreshAnswer
<1>2. Spec => [](IInv /\ FreshInv)
  BY InitOK, NextOK, FreshInit, FreshNext, PTL DEF Spec
<1> QED
  BY <1>1, <1>2, PTL

-----------------------------------------------------------------------------
(* Failures *)

\* A request that is not answered has no status; one that is has failed if it is 500,
\* and has seen no model if it is 503.  While it looks for the active model there is
\* one if it has seen any.
FailureOK(label, c) ==
    /\ label # "answer" => c.status = 0
    /\ c.status = 500 => c.failed
    /\ c.status = 503 => c.seen = {}
    /\ label = "ActiveModel" /\ active = None => c.seen = {}

FailureInv == \A r \in Requests : FailureOK(pc[r], req[r])

LEMMA FailureInit == Init => FailureInv
BY DEF Init, FailureInv, FailureOK, NoRequest, Bare

LEMMA FailureMove ==
    ASSUME IInv, FailureInv, NEW r \in Requests, NEW from, At(r, from), NEW label, NEW c,
           Goto(r, label, c), FailureOK(label, c)
    PROVE  FailureInv'
<1>1. active' = active
  BY DEF At, registry
<1>2. \A x \in Requests : /\ pc'[x] = IF x = r THEN label ELSE pc[x]
                          /\ req'[x] = IF x = r THEN c ELSE req[x]
  BY DEF Goto, IInv, RequestsOK
<1> QED
  BY <1>1, <1>2 DEF FailureInv, FailureOK

LEMMA FailureFinish ==
    ASSUME IInv, FailureInv, NEW r \in Requests, NEW from, At(r, from),
           NEW status \in {400, 404}, Finish(r, status)
    PROVE  FailureInv'
<1> DEFINE c == Done(req[r], status, None)
<1>1. Goto(r, "answer", c) /\ c.status = status
  BY DEF Finish, Done, Bare
<1> HIDE DEF c
<1> QED
  BY <1>1, FailureMove DEF FailureOK

LEMMA FailureDeliver ==
    ASSUME IInv, FailureInv, NEW r \in Requests, NEW from, At(r, from), NEW a, Deliver(r, a)
    PROVE  FailureInv'
<1> DEFINE c == Done(req[r], 200, a)
<1>1. Goto(r, "answer", c) /\ c.status = 200
  BY DEF Deliver, Done, Bare
<1> HIDE DEF c
<1> QED
  BY <1>1, FailureMove DEF FailureOK

\* Most statements go on to another one, and keep the status.
LEMMA FailureGoesOn ==
    ASSUME IInv, FailureInv, NEW r \in Requests, NEW from \in Labels \ {"answer"}, At(r, from),
           NEW label, label \notin {"answer", "ActiveModel"}, NEW c, c.status = req[r].status,
           Goto(r, label, c)
    PROVE  FailureInv'
<1>1. req[r].status = 0
  BY DEF At, FailureInv, FailureOK
<1> QED
  BY <1>1, FailureMove DEF FailureOK

LEMMA FailureArrive ==
    ASSUME IInv, FailureInv, NEW r \in Requests, Arrive(r) PROVE FailureInv'
<1>1. At(r, "idle")
  BY DEF Arrive
<1>2. PICK q \in Queries :
        LET seen == {active} \ {None}
        IN IF Outcome[q] = "invalid" THEN Goto(r, "answer", Bare(q, seen, 400, None))
                                     ELSE Goto(r, "ActiveModel", Bare(q, seen, 0, None))
  BY DEF Arrive
<1> DEFINE d(status) == Bare(q, {active} \ {None}, status, None)
<1>3. \A status : d(status).status = status /\ d(status).seen = {active} \ {None}
  BY DEF Bare
<1>4. Goto(r, "answer", d(400)) \/ Goto(r, "ActiveModel", d(0))
  BY <1>2
<1> HIDE DEF d
<1>5. FailureOK("answer", d(400)) /\ FailureOK("ActiveModel", d(0))
  BY <1>3 DEF FailureOK
<1> QED
  BY <1>1, <1>4, <1>5, FailureMove

LEMMA FailureActiveModel ==
    ASSUME IInv, FailureInv, NEW r \in Requests, ActiveModel(r) PROVE FailureInv'
<1>1. At(r, "ActiveModel") /\ req[r] \in Request
  BY DEF ActiveModel, IInv, RequestsOK
<1>2. CASE active = None
  <2> DEFINE c == Done(req[r], 503, None)
  <2>1. Goto(r, "answer", c) /\ c.status = 503 /\ c.seen = req[r].seen
    BY <1>2 DEF ActiveModel, Finish, Done, Bare
  <2>2. req[r].seen = {}
    BY <1>1, <1>2 DEF At, FailureInv, FailureOK
  <2> HIDE DEF c
  <2> QED
    BY <1>1, <2>1, <2>2, FailureMove DEF FailureOK
<1>3. CASE active # None
  <2> DEFINE c == [req[r] EXCEPT !.model = active, !.bounds = parameters[active]]
  <2>1. Goto(r, "CacheGet", c) /\ c.status = req[r].status
    BY <1>1, <1>3 DEF ActiveModel, Request
  <2> HIDE DEF c
  <2> QED
    BY <1>1, <2>1, FailureGoesOn DEF Labels
<1> QED
  BY <1>2, <1>3

LEMMA FailureReading ==
    ASSUME IInv, FailureInv, NEW r \in Requests, NEW from \in Labels \ {"answer"}, At(r, from),
           NEW label, label \notin {"answer", "ActiveModel"}, Goto(r, label, ReadScores(req[r]))
    PROVE  FailureInv'
<1>1. ReadScores(req[r]).status = req[r].status
  BY DEF ReadScores, IInv, RequestsOK, Request
<1> QED
  BY <1>1, FailureGoesOn

LEMMA FailureSteps ==
    ASSUME IInv, FailureInv, NEW r \in Requests, Step(r) PROVE FailureInv'
<1>1. CASE ActiveModel(r)
  BY <1>1, FailureActiveModel
<1>2. CASE CacheGet(r)
  BY <1>2, FailureDeliver, FailureGoesOn DEF CacheGet, Labels
<1>3. CASE SnapEndpoints(r)
  <2> DEFINE c == [req[r] EXCEPT !.left = Profiles]
  <2>1. c.status = req[r].status
    BY DEF IInv, RequestsOK, Request
  <2>2. At(r, "SnapEndpoints") /\ (Finish(r, 400) \/ Goto(r, "FindRoute", c))
    BY <1>3 DEF SnapEndpoints
  <2> HIDE DEF c
  <2> QED
    BY <2>1, <2>2, FailureFinish, FailureGoesOn DEF Labels
<1>4. CASE FindRoute(r)
  BY <1>4, FailureFinish, FailureReading DEF FindRoute, Labels
<1>5. CASE TimeOfDayRisk(r)
  <2> DEFINE d == ReadScores(req[r])
             c == [d EXCEPT !.left = @ - 1]
             next == IF c.left = 0 THEN "FindCandidates" ELSE "FindRoute"
  <2>1. At(r, "TimeOfDayRisk") /\ Goto(r, next, c)
    BY <1>5 DEF TimeOfDayRisk
  <2>2. c.status = req[r].status
    BY DEF ReadScores, IInv, RequestsOK, Request
  <2>3. next \notin {"answer", "ActiveModel"}
    OBVIOUS
  <2> HIDE DEF next, c, d
  <2> QED
    BY <2>1, <2>2, <2>3, FailureGoesOn DEF Labels
<1>6. CASE FindCandidates(r)
  BY <1>6, FailureReading DEF FindCandidates, Labels
<1>7. CASE CandidateRisk(r)
  BY <1>7, FailureReading DEF CandidateRisk, Labels
<1>8. CASE CacheSet(r)
  BY <1>8, FailureDeliver DEF CacheSet
<1>9. CASE Respond(r)
  <2>1. NoRequest.status = 0
    BY DEF NoRequest, Bare
  <2> QED
    BY <1>9, <2>1, FailureMove DEF Respond, FailureOK
<1> QED
  BY <1>1, <1>2, <1>3, <1>4, <1>5, <1>6, <1>7, <1>8, <1>9 DEF Step

\* The pipeline hands the service over, and never takes it away.
LEMMA FailurePipelineStep ==
    ASSUME IInv, FailureInv, PipelineStep PROVE FailureInv'
<1>1. active # None => active' # None
  BY NoneApart DEF PipelineStep, Registry!Next, Registry!Define, Registry!Rescore,
                   Registry!Activate
<1>2. /\ pc' = pc
      /\ req' = [r \in Requests |->
                   IF UnderWay(r) THEN [req[r] EXCEPT !.seen = @ \cup ({active'} \ {None})]
                                  ELSE req[r]]
  BY DEF PipelineStep
<1>3. \A r \in Requests :
        /\ req'[r].status = req[r].status /\ req'[r].failed = req[r].failed
        /\ req'[r].seen = IF UnderWay(r) THEN req[r].seen \cup ({active'} \ {None})
                                         ELSE req[r].seen
  BY <1>2 DEF IInv, RequestsOK, Request
<1> QED
  BY <1>1, <1>2, <1>3 DEF UnderWay, FailureInv, FailureOK

LEMMA FailureNext == IInv /\ FailureInv /\ [Next]_vars => FailureInv'
<1> SUFFICES ASSUME IInv, FailureInv, [Next]_vars PROVE FailureInv'
  OBVIOUS
<1>1. CASE UNCHANGED vars
  BY <1>1 DEF vars, FailureInv, FailureOK
<1>2. ASSUME NEW r \in Requests, Fail(r) PROVE FailureInv'
  <2> DEFINE d == Done(req[r], 500, None)
             c == [d EXCEPT !.failed = TRUE]
  <2>1. At(r, pc[r]) /\ Goto(r, "answer", c)
    BY <1>2 DEF Fail, At
  <2>2. c.status = 500 /\ c.failed
    BY DEF Done, Bare
  <2> HIDE DEF c
  <2> QED
    BY <2>1, <2>2, FailureMove DEF FailureOK
<1>3. CASE \E r \in Requests : Arrive(r) \/ Step(r) \/ Fail(r)
  BY <1>2, <1>3, FailureArrive, FailureSteps
<1>4. CASE \E k \in Slots : Expire(k)
  BY <1>4 DEF Expire, registry, FailureInv, FailureOK
<1>5. CASE Crash
  <2>1. NoRequest.status = 0
    BY DEF NoRequest, Bare
  <2> QED
    BY <1>5, <2>1 DEF Crash, FailureInv, FailureOK
<1>6. CASE PipelineStep
  BY <1>6, FailurePipelineStep
<1> QED
  BY <1>1, <1>3, <1>4, <1>5, <1>6 DEF Next

\* Whatever Redis does, an answer is 500 only if a statement has failed, and 503 only if
\* no model was active from the arrival of the request on.
THEOREM OnlyStatementsFail == Spec => []OnlyTheDatabaseFails
<1>1. FailureInv => OnlyTheDatabaseFails
  BY DEF FailureInv, FailureOK, OnlyTheDatabaseFails
<1>2. Spec => []FailureInv
  BY Invariance, FailureInit, FailureNext, PTL DEF Spec
<1> QED
  BY <1>1, <1>2, PTL

=============================================================================
