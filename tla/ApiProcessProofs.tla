-------------------------- MODULE ApiProcessProofs --------------------------
(* What processes of the API keep, for any number of them, their requests, *)
(* addresses, endpoints and limits, and whatever fails.                     *)
EXTENDS ApiProcess, FiniteSetTheorems, TLAPS

\* What main has opened, where it is.
ServiceOK(s) ==
    /\ s \in Process
    /\ s.at \notin Ended => s.config \in Configs /\ Valid(s.config)
    /\ s.at \in {"failed", "stopped"} => {s.pool, s.redis} \subseteq {"none", "closed"}
    /\ s.at = "NewPool" => s.pool = "none" /\ s.redis = "none"
    /\ s.at = "NewClient" => s.pool = "open" /\ s.redis = "none" /\ s.config.redis
    /\ s.at = "NewMiddlewares" => s.pool = "open" /\ s.redis = "open"
    /\ s.at \in {"serving", "Shutdown"} => s.pool = "open"
    /\ s.at \in {"serving", "Shutdown", "Close", "CloseRedis"} /\ s.config.redis => s.redis = "open"
    /\ s.at = "Close" => s.pool \in {"open", "closing"}
    /\ s.at = "CloseRedis" => s.pool = "closed"
    /\ s.at = "return" => s.pool = "closed" /\ s.redis \in {"none", "closed"}
    /\ s.at = "return" /\ s.config.redis => s.redis = "closed"
    /\ s.harmed => s.late \/ s.at = "killed"

\* What a request under way may rely on in its process.
Served(q, s) ==
    /\ q.in \in Procs /\ q.key \in Keys
    /\ s.at \in {"serving", "Shutdown", "Close", "CloseRedis", "return"}
    /\ s.at \in {"Close", "CloseRedis", "return"} => s.late
    /\ q.at = "limiter" => s.config.rateLimit
    /\ q.at = "query" => s.at \in {"serving", "Shutdown", "Close"}
    /\ q.at \in {"limiter", "acquire", "query"} => q.left \in Nat \ {0}

IInv ==
    /\ TypeOK
    /\ \A p \in Procs : ServiceOK(proc[p])
    /\ \A r \in Requests : req[r].at # "idle" => Served(req[r], proc[req[r].in])

-----------------------------------------------------------------------------
(* Records *)

LEMMA SetAt ==
    ASSUME NEW s \in Process, NEW v \in Stages
    PROVE  LET n == [s EXCEPT !.at = v]
           IN /\ n \in Process
              /\ n.at = v /\ n.config = s.config /\ n.pool = s.pool /\ n.redis = s.redis
              /\ n.late = s.late /\ n.harmed = s.harmed
BY DEF Process

LEMMA SetPool ==
    ASSUME NEW s \in Process, NEW v \in {"none", "open", "closing", "closed"}
    PROVE  LET n == [s EXCEPT !.pool = v]
           IN /\ n \in Process
              /\ n.pool = v /\ n.config = s.config /\ n.at = s.at /\ n.redis = s.redis
              /\ n.late = s.late /\ n.harmed = s.harmed
BY DEF Process

LEMMA SetRedis ==
    ASSUME NEW s \in Process, NEW v \in {"none", "open", "closed"}
    PROVE  LET n == [s EXCEPT !.redis = v]
           IN /\ n \in Process
              /\ n.redis = v /\ n.config = s.config /\ n.at = s.at /\ n.pool = s.pool
              /\ n.late = s.late /\ n.harmed = s.harmed
BY DEF Process

LEMMA SetHarmed ==
    ASSUME NEW s \in Process, NEW v \in BOOLEAN
    PROVE  LET n == [s EXCEPT !.harmed = v]
           IN /\ n \in Process
              /\ n.harmed = v /\ n.config = s.config /\ n.at = s.at /\ n.pool = s.pool
              /\ n.redis = s.redis /\ n.late = s.late
BY DEF Process

LEMMA SetLate ==
    ASSUME NEW s \in Process
    PROVE  LET n == [s EXCEPT !.late = TRUE]
           IN /\ n \in Process
              /\ n.late /\ n.config = s.config /\ n.at = s.at /\ n.pool = s.pool
              /\ n.redis = s.redis /\ n.harmed = s.harmed
BY DEF Process

LEMMA SetConfig ==
    ASSUME NEW s \in Process, NEW v \in Configs
    PROVE  LET n == [s EXCEPT !.config = v]
           IN /\ n \in Process
              /\ n.config = v /\ n.at = s.at /\ n.pool = s.pool /\ n.redis = s.redis
              /\ n.late = s.late /\ n.harmed = s.harmed
BY DEF Process

\* What is closed is open no longer.
LEMMA ClosedIsNotOpen ==
    /\ \A v \in {"none", "open", "closing", "closed"} :
         Closed(v) \in {"none", "closing", "closed"} /\ (v # "closing" => Closed(v) # "closing")
    /\ \A v \in {"none", "open", "closed"} : Closed(v) \in {"none", "closed"}
BY DEF Closed

\* A start that is abandoned leaves nothing open.
LEMMA AbandonedIsSound ==
    ASSUME NEW s \in Process, s.pool # "closing", s.harmed => s.late
    PROVE  ServiceOK(Abandon(s)) /\ Abandon(s).at = "failed"
<1> DEFINE a == [s EXCEPT !.at = "failed"]
           b == [a EXCEPT !.pool = Closed(s.pool)]
<1>1. s.pool \in {"none", "open", "closing", "closed"} /\ s.redis \in {"none", "open", "closed"}
  BY DEF Process
<1>2. /\ Closed(s.pool) \in {"none", "closed"}
      /\ Closed(s.pool) \in {"none", "open", "closing", "closed"}
      /\ Closed(s.redis) \in {"none", "closed"}
      /\ Closed(s.redis) \in {"none", "open", "closed"}
  BY <1>1, ClosedIsNotOpen
<1>3. /\ a \in Process /\ a.at = "failed" /\ a.pool = s.pool /\ a.redis = s.redis
      /\ a.late = s.late /\ a.harmed = s.harmed
  BY SetAt DEF Stages, Ended
<1>4. Abandon(s) = [b EXCEPT !.redis = Closed(s.redis)]
  BY DEF Abandon, Process
<1> HIDE DEF a
<1>5. /\ b \in Process /\ b.at = "failed" /\ b.pool = Closed(s.pool) /\ b.redis = s.redis
      /\ b.late = s.late /\ b.harmed = s.harmed
  BY <1>2, <1>3, SetPool
<1> HIDE DEF b
<1>6. LET n == [b EXCEPT !.redis = Closed(s.redis)]
      IN /\ n \in Process /\ n.at = "failed" /\ n.pool = Closed(s.pool)
         /\ n.redis = Closed(s.redis) /\ n.late = s.late /\ n.harmed = s.harmed
  BY <1>2, <1>5, SetRedis
<1>7. QED BY <1>2, <1>4, <1>6 DEF ServiceOK, Ended

-----------------------------------------------------------------------------
(* What a step does to the invariant *)

LEMMA InvInit == Init => IInv
<1> SUFFICES ASSUME Init PROVE IInv
  OBVIOUS
<1>1. NotRunning \in Process
  BY DEF NotRunning, Process, Stages, Ended
<1>2. ServiceOK(NotRunning)
  BY <1>1 DEF ServiceOK, NotRunning, Ended
<1>3. NoRequest \in Request /\ NoRequest.at = "idle"
  BY SizeAssumption DEF NoRequest, Request
<1>4. Unused \in [count: Nat, until: 0..(MaxClock + Window)]
  BY SizeAssumption DEF Unused
<1>5. TypeOK
  BY <1>1, <1>3, <1>4, SizeAssumption DEF Init, TypeOK, Instants
<1>6. QED BY <1>2, <1>3, <1>5 DEF Init, IInv

\* main goes on, and every request keeps what it relies on.
LEMMA MainGoesOn ==
    ASSUME IInv, NEW p \in Procs, NEW s, ServiceOK(s), Become(p, s),
           UNCHANGED <<req, counter, clock, history>>,
           \A r \in InProcess(p) : Served(req[r], proc[p]) => Served(req[r], s)
    PROVE  IInv'
<1>1. proc' \in [Procs -> Process] /\ proc'[p] = s
      /\ \A q \in Procs \ {p} : proc'[q] = proc[q]
  BY DEF Become, ServiceOK, IInv, TypeOK
<1>2. TypeOK'
  BY <1>1 DEF IInv, TypeOK, history
<1>3. \A q \in Procs : ServiceOK(proc'[q])
  BY <1>1 DEF IInv
<1>4. ASSUME NEW r \in Requests, req[r].at # "idle"
      PROVE  Served(req[r], proc'[req[r].in])
  <2>1. Served(req[r], proc[req[r].in])
    BY <1>4 DEF IInv
  <2>2. req[r].in \in Procs
    BY <2>1 DEF Served
  <2>3. req[r].in = p => r \in InProcess(p)
    BY <1>4 DEF InProcess
  <2>4. QED BY <1>1, <2>1, <2>2, <2>3
<1>5. QED BY <1>2, <1>3, <1>4 DEF IInv

\* The process ends, and with it its requests.
LEMMA ExitKeepsInv ==
    ASSUME IInv, NEW p \in Procs, NEW how \in {"stopped", "killed"}, Exit(p, how),
           UNCHANGED <<counter, clock, history>>,
           how = "stopped" => proc[p].at = "return"
    PROVE  IInv'
<1> DEFINE cut == proc[p].harmed \/ InProcess(p) # {}
           a == [proc[p] EXCEPT !.at = how]
           s == [a EXCEPT !.harmed = cut]
<1>1. proc[p] \in Process /\ ServiceOK(proc[p])
  BY DEF IInv, TypeOK
<1>2. /\ a \in Process /\ a.at = how /\ a.pool = proc[p].pool /\ a.redis = proc[p].redis
      /\ a.late = proc[p].late /\ a.harmed = proc[p].harmed
  BY <1>1, SetAt DEF Stages, Ended
<1>3. Become(p, s)
  BY <1>1 DEF Exit, Become, Process
<1>4. cut \in BOOLEAN
  BY <1>1 DEF Process
<1>5. cut => proc[p].late \/ how = "killed"
  <2>1. SUFFICES ASSUME how = "stopped", InProcess(p) # {} PROVE proc[p].late
    BY <1>1 DEF ServiceOK
  <2>2. PICK r \in Requests : req[r].at # "idle" /\ req[r].in = p
    BY <2>1 DEF InProcess
  <2>3. QED BY <2>1, <2>2 DEF IInv, Served
<1> HIDE DEF a, cut
<1>6. /\ s \in Process /\ s.at = how /\ s.pool = proc[p].pool /\ s.redis = proc[p].redis
      /\ s.late = proc[p].late /\ s.harmed = cut
  BY <1>2, <1>4, SetHarmed
<1> HIDE DEF s
<1>7. ServiceOK(s)
  BY <1>1, <1>5, <1>6 DEF ServiceOK, Ended
<1>8. proc' \in [Procs -> Process] /\ proc'[p] = s
      /\ \A q \in Procs \ {p} : proc'[q] = proc[q]
  BY <1>3, <1>6 DEF Become, IInv, TypeOK
<1>9. NoRequest \in Request /\ NoRequest.at = "idle"
  BY SizeAssumption DEF NoRequest, Request
<1>10. /\ req' \in [Requests -> Request]
       /\ \A r \in Requests : req'[r].at # "idle" => req'[r] = req[r] /\ r \notin InProcess(p)
  BY <1>9 DEF Exit, IInv, TypeOK
<1>11. TypeOK'
  BY <1>8, <1>10 DEF IInv, TypeOK, history
<1>12. \A q \in Procs : ServiceOK(proc'[q])
  BY <1>7, <1>8 DEF IInv
<1>13. ASSUME NEW r \in Requests, req'[r].at # "idle"
       PROVE  Served(req'[r], proc'[req'[r].in])
  <2>1. req'[r] = req[r] /\ r \notin InProcess(p)
    BY <1>10, <1>13
  <2>2. Served(req[r], proc[req[r].in])
    BY <1>13, <2>1 DEF IInv
  <2>3. req[r].in \in Procs \ {p}
    BY <1>13, <2>1, <2>2 DEF Served, InProcess
  <2>4. QED BY <1>8, <2>1, <2>2, <2>3
<1>14. QED BY <1>11, <1>12, <1>13 DEF IInv

\* A handler goes on; it may have met something closed.
LEMMA HandlerGoesOn ==
    ASSUME IInv, NEW r \in Requests, req[r].at # "idle", NEW new \in Request,
           Continue(r, new), NEW s, ServiceOK(s), proc' = [proc EXCEPT ![req[r].in] = s],
           \A q : Served(q, proc[req[r].in]) => Served(q, s),
           new.at # "idle" => new.in = req[r].in /\ Served(new, s),
           TypeOK => counter' \in [Keys -> [count: Nat, until: 0..(MaxClock + Window)]],
           clock' = clock, arrivals' = arrivals,
           TypeOK => hits' \in [Keys -> Seq(Instants)],
           TypeOK => admitted' \in [Keys -> Seq(Instants)]
    PROVE  IInv'
<1>1. req[r].in \in Procs
  BY DEF IInv, Served
<1>2. proc' \in [Procs -> Process] /\ proc'[req[r].in] = s
      /\ \A q \in Procs \ {req[r].in} : proc'[q] = proc[q]
  BY <1>1 DEF ServiceOK, IInv, TypeOK
<1>3. /\ req' \in [Requests -> Request] /\ req'[r] = new
      /\ \A q \in Requests \ {r} : req'[q] = req[q]
  BY DEF Continue, IInv, TypeOK
<1>4. TypeOK'
  BY <1>2, <1>3 DEF IInv, TypeOK
<1>5. \A q \in Procs : ServiceOK(proc'[q])
  BY <1>2 DEF IInv
<1>6. ASSUME NEW q \in Requests, req'[q].at # "idle"
      PROVE  Served(req'[q], proc'[req'[q].in])
  <2>1. CASE q = r
    BY <1>2, <1>3, <1>6, <2>1
  <2>2. CASE q # r
    <3>1. req'[q] = req[q] /\ Served(req[q], proc[req[q].in])
      BY <1>3, <1>6, <2>2 DEF IInv
    <3>2. req[q].in \in Procs
      BY <3>1 DEF Served
    <3>3. QED BY <1>2, <3>1, <3>2
  <2>3. QED BY <2>1, <2>2
<1>7. QED BY <1>4, <1>5, <1>6 DEF IInv

-----------------------------------------------------------------------------
(* main *)

LEMMA BootStep == ASSUME IInv, NEW p \in Procs, Boot(p) PROVE IInv'
<1>1. proc[p].at \in Ended /\ UNCHANGED <<req, counter, clock, history>>
  BY DEF Boot
<1>2. \A q : ~Served(q, proc[p])
  BY <1>1 DEF Served, Ended
<1>3. PICK c \in Configs :
        Become(p, IF Valid(c) THEN [NotRunning EXCEPT !.at = "NewPool", !.config = c]
                              ELSE [NotRunning EXCEPT !.at = "failed"])
  BY DEF Boot
<1>4. /\ NotRunning \in Process /\ NotRunning.pool = "none" /\ NotRunning.redis = "none"
      /\ NotRunning.harmed = FALSE
  BY DEF NotRunning, Process, Stages, Ended
<1>5. CASE Valid(c)
  <2> DEFINE a == [NotRunning EXCEPT !.at = "NewPool"]
             s == [a EXCEPT !.config = c]
  <2>1. /\ a \in Process /\ a.at = "NewPool" /\ a.pool = "none" /\ a.redis = "none"
        /\ a.harmed = FALSE
    BY <1>4, SetAt DEF Stages, Starting
  <2>2. Become(p, s)
    BY <1>3, <1>5 DEF NotRunning
  <2> HIDE DEF a
  <2>3. /\ s \in Process /\ s.at = "NewPool" /\ s.pool = "none" /\ s.redis = "none"
        /\ s.harmed = FALSE /\ s.config = c
    BY <2>1, SetConfig
  <2> HIDE DEF s
  <2>4. ServiceOK(s)
    BY <1>5, <2>3 DEF ServiceOK, Ended
  <2>5. QED BY <1>1, <1>2, <2>2, <2>4, MainGoesOn
<1>6. CASE ~Valid(c)
  <2> DEFINE s == [NotRunning EXCEPT !.at = "failed"]
  <2>1. /\ s \in Process /\ s.at = "failed" /\ s.pool = "none" /\ s.redis = "none"
        /\ s.harmed = FALSE
    BY <1>4, SetAt DEF Stages, Ended
  <2>2. Become(p, s)
    BY <1>3, <1>6
  <2> HIDE DEF s
  <2>3. ServiceOK(s)
    BY <2>1 DEF ServiceOK, Ended
  <2>4. QED BY <1>1, <1>2, <2>2, <2>3, MainGoesOn
<1>7. QED BY <1>5, <1>6

LEMMA ServiceOKNow == ASSUME IInv, NEW p \in Procs PROVE proc[p] \in Process /\ ServiceOK(proc[p])
BY DEF IInv, TypeOK

\* The steps of a start: nobody is served yet.
LEMMA StartStep ==
    ASSUME IInv, NEW p \in Procs, proc[p].at \in Starting, NEW s, ServiceOK(s), Become(p, s),
           UNCHANGED <<req, counter, clock, history>>
    PROVE  IInv'
<1>1. \A q : ~Served(q, proc[p])
  BY DEF Served, Starting
<1>2. QED BY <1>1, MainGoesOn

LEMMA NewPoolStep == ASSUME IInv, NEW p \in Procs, NewPool(p) PROVE IInv'
<1> DEFINE s == [proc[p] EXCEPT !.pool = "open"]
           next == IF s.config.redis THEN "NewClient" ELSE "serving"
           n == [s EXCEPT !.at = next]
<1>1. proc[p] \in Process /\ ServiceOK(proc[p])
  BY ServiceOKNow
<1>2. proc[p].at = "NewPool" /\ UNCHANGED <<req, counter, clock, history>>
  BY DEF NewPool, At
<1>3. /\ s \in Process /\ s.at = "NewPool" /\ s.pool = "open" /\ s.redis = "none"
      /\ s.config \in Configs /\ Valid(s.config) /\ (s.harmed => s.late)
  <2>1. /\ s \in Process /\ s.at = proc[p].at /\ s.pool = "open" /\ s.redis = proc[p].redis
        /\ s.config = proc[p].config /\ s.late = proc[p].late /\ s.harmed = proc[p].harmed
    BY <1>1, SetPool
  <2> HIDE DEF s
  <2>2. QED BY <1>1, <1>2, <2>1 DEF ServiceOK, Ended
<1>4. Become(p, n) \/ Become(p, Abandon(s))
  BY DEF NewPool
<1> HIDE DEF s
<1>5. CASE Become(p, n)
  <2>1. next \in {"NewClient", "serving"} /\ next \in Stages
    BY DEF Stages, Starting
  <2>2. /\ n \in Process /\ n.at = next /\ n.pool = "open" /\ n.redis = "none"
        /\ n.config = s.config /\ n.late = s.late /\ n.harmed = s.harmed
    BY <1>3, <2>1, SetAt
  <2>3. s.config.redis <=> next = "NewClient"
    OBVIOUS
  <2> HIDE DEF n, next
  <2>4. ServiceOK(n)
    BY <1>3, <2>1, <2>2, <2>3 DEF ServiceOK, Ended
  <2>5. QED BY <1>2, <1>5, <2>4, StartStep DEF Starting
<1>6. CASE Become(p, Abandon(s))
  <2>1. ServiceOK(Abandon(s))
    BY <1>3, AbandonedIsSound
  <2>2. QED BY <1>2, <1>6, <2>1, StartStep DEF Starting
<1>7. QED BY <1>4, <1>5, <1>6

LEMMA NewClientStep == ASSUME IInv, NEW p \in Procs, NewClient(p) PROVE IInv'
<1> DEFINE s == [proc[p] EXCEPT !.redis = "open"]
           next == IF s.config.rateLimit THEN "NewMiddlewares" ELSE "serving"
           n == [s EXCEPT !.at = next]
<1>1. proc[p] \in Process /\ ServiceOK(proc[p])
  BY ServiceOKNow
<1>2. proc[p].at = "NewClient" /\ UNCHANGED <<req, counter, clock, history>>
  BY DEF NewClient, At
<1>3. /\ s \in Process /\ s.at = "NewClient" /\ s.pool = "open" /\ s.redis = "open"
      /\ s.config \in Configs /\ Valid(s.config) /\ (s.harmed => s.late)
  <2>1. /\ s \in Process /\ s.at = proc[p].at /\ s.redis = "open" /\ s.pool = proc[p].pool
        /\ s.config = proc[p].config /\ s.late = proc[p].late /\ s.harmed = proc[p].harmed
    BY <1>1, SetRedis
  <2> HIDE DEF s
  <2>2. QED BY <1>1, <1>2, <2>1 DEF ServiceOK, Ended
<1>4. Become(p, n) \/ Become(p, Abandon(s))
  BY DEF NewClient
<1> HIDE DEF s
<1>5. CASE Become(p, n)
  <2>1. next \in {"NewMiddlewares", "serving"} /\ next \in Stages
    BY DEF Stages, Starting
  <2>2. /\ n \in Process /\ n.at = next /\ n.pool = "open" /\ n.redis = "open"
        /\ n.config = s.config /\ n.late = s.late /\ n.harmed = s.harmed
    BY <1>3, <2>1, SetAt
  <2> HIDE DEF n, next
  <2>3. ServiceOK(n)
    BY <1>3, <2>1, <2>2 DEF ServiceOK, Ended
  <2>4. QED BY <1>2, <1>5, <2>3, StartStep DEF Starting
<1>6. CASE Become(p, Abandon(s))
  <2>1. ServiceOK(Abandon(s))
    BY <1>3, AbandonedIsSound
  <2>2. QED BY <1>2, <1>6, <2>1, StartStep DEF Starting
<1>7. QED BY <1>4, <1>5, <1>6

LEMMA NewMiddlewaresStep == ASSUME IInv, NEW p \in Procs, NewMiddlewares(p) PROVE IInv'
<1> DEFINE n == [proc[p] EXCEPT !.at = "serving"]
<1>1. proc[p] \in Process /\ ServiceOK(proc[p])
  BY ServiceOKNow
<1>2. proc[p].at = "NewMiddlewares" /\ UNCHANGED <<req, counter, clock, history>>
  BY DEF NewMiddlewares, At
<1>3. /\ proc[p].pool = "open" /\ proc[p].redis = "open" /\ proc[p].config \in Configs
      /\ Valid(proc[p].config) /\ (proc[p].harmed => proc[p].late)
  BY <1>1, <1>2 DEF ServiceOK, Ended
<1>4. Become(p, n) \/ Become(p, Abandon(proc[p]))
  BY DEF NewMiddlewares
<1>5. CASE Become(p, n)
  <2>1. /\ n \in Process /\ n.at = "serving" /\ n.pool = "open" /\ n.redis = "open"
        /\ n.config = proc[p].config /\ n.late = proc[p].late /\ n.harmed = proc[p].harmed
    BY <1>1, <1>3, SetAt DEF Stages
  <2> HIDE DEF n
  <2>2. ServiceOK(n)
    BY <1>3, <2>1 DEF ServiceOK, Ended
  <2>3. QED BY <1>2, <1>5, <2>2, StartStep DEF Starting
<1>6. CASE Become(p, Abandon(proc[p]))
  <2>1. ServiceOK(Abandon(proc[p]))
    BY <1>1, <1>3, AbandonedIsSound
  <2>2. QED BY <1>2, <1>6, <2>1, StartStep DEF Starting
<1>7. QED BY <1>4, <1>5, <1>6

LEMMA SignalStep == ASSUME IInv, NEW p \in Procs, Signal(p) PROVE IInv'
<1> DEFINE n == [proc[p] EXCEPT !.at = "Shutdown"]
<1>1. CASE At(p, "serving") /\ Become(p, n) /\ UNCHANGED req
  <2>1. proc[p] \in Process /\ ServiceOK(proc[p]) /\ proc[p].at = "serving"
    BY <1>1, ServiceOKNow DEF At
  <2>2. /\ n \in Process /\ n.at = "Shutdown" /\ n.pool = proc[p].pool
        /\ n.redis = proc[p].redis /\ n.config = proc[p].config /\ n.late = proc[p].late
        /\ n.harmed = proc[p].harmed
    BY <2>1, SetAt DEF Stages
  <2> HIDE DEF n
  <2>3. ServiceOK(n) /\ \A q : Served(q, proc[p]) => Served(q, n)
    BY <2>1, <2>2 DEF ServiceOK, Served, Ended
  <2>4. QED BY <1>1, <2>3, MainGoesOn DEF At
<1>2. ASSUME NEW stage \in Starting, At(p, stage), Exit(p, "killed") PROVE IInv'
  BY <1>2, ExitKeepsInv DEF At
<1>3. QED BY <1>1, <1>2 DEF Signal

LEMMA DrainedStep == ASSUME IInv, NEW p \in Procs, Drained(p) PROVE IInv'
<1> DEFINE n == [proc[p] EXCEPT !.at = "Close"]
<1>1. proc[p] \in Process /\ ServiceOK(proc[p]) /\ proc[p].at = "Shutdown"
  BY ServiceOKNow DEF Drained, At
<1>2. /\ n \in Process /\ n.at = "Close" /\ n.pool = proc[p].pool
      /\ n.redis = proc[p].redis /\ n.config = proc[p].config /\ n.late = proc[p].late
      /\ n.harmed = proc[p].harmed
  BY <1>1, SetAt DEF Stages
<1>3. Become(p, n) /\ UNCHANGED <<req, counter, clock, history>> /\ InProcess(p) = {}
  BY DEF Drained, At
<1> HIDE DEF n
<1>4. ServiceOK(n)
  BY <1>1, <1>2 DEF ServiceOK, Ended
<1>5. QED BY <1>3, <1>4, MainGoesOn

LEMMA DeadlineStep == ASSUME IInv, NEW p \in Procs, Deadline(p) PROVE IInv'
<1> DEFINE a == [proc[p] EXCEPT !.at = "Close"]
           n == [a EXCEPT !.late = TRUE]
<1>1. proc[p] \in Process /\ ServiceOK(proc[p]) /\ proc[p].at = "Shutdown"
  BY ServiceOKNow DEF Deadline, At
<1>2. /\ a \in Process /\ a.at = "Close" /\ a.pool = proc[p].pool
      /\ a.redis = proc[p].redis /\ a.config = proc[p].config /\ a.harmed = proc[p].harmed
  BY <1>1, SetAt DEF Stages
<1>3. Become(p, n) /\ UNCHANGED <<req, counter, clock, history>>
  BY <1>1 DEF Deadline, At, Become, Process
<1> HIDE DEF a
<1>4. /\ n \in Process /\ n.late /\ n.at = "Close" /\ n.pool = proc[p].pool
      /\ n.redis = proc[p].redis /\ n.config = proc[p].config /\ n.harmed = proc[p].harmed
  BY <1>2, SetLate
<1> HIDE DEF n
<1>5. ServiceOK(n)
  BY <1>1, <1>4 DEF ServiceOK, Ended
<1>6. \A q : Served(q, proc[p]) => Served(q, n)
  BY <1>1, <1>4 DEF Served
<1>7. QED BY <1>3, <1>5, <1>6, MainGoesOn

LEMMA ClosePoolStep == ASSUME IInv, NEW p \in Procs, ClosePool(p) PROVE IInv'
<1> DEFINE n == [proc[p] EXCEPT !.pool = "closing"]
<1>1. proc[p] \in Process /\ ServiceOK(proc[p]) /\ proc[p].at = "Close"
  BY ServiceOKNow DEF ClosePool, At
<1>2. /\ n \in Process /\ n.at = "Close" /\ n.pool = "closing"
      /\ n.redis = proc[p].redis /\ n.config = proc[p].config /\ n.late = proc[p].late
      /\ n.harmed = proc[p].harmed
  BY <1>1, SetPool
<1>3. Become(p, n) /\ UNCHANGED <<req, counter, clock, history>>
  BY DEF ClosePool, At
<1> HIDE DEF n
<1>4. ServiceOK(n)
  BY <1>1, <1>2 DEF ServiceOK, Ended
<1>5. \A q : Served(q, proc[p]) => Served(q, n)
  BY <1>1, <1>2 DEF Served
<1>6. QED BY <1>3, <1>4, <1>5, MainGoesOn

LEMMA CloseRedisStep == ASSUME IInv, NEW p \in Procs, CloseRedis(p) PROVE IInv'
<1> DEFINE a == [proc[p] EXCEPT !.redis = Closed(proc[p].redis)]
           n == [a EXCEPT !.at = "return"]
<1>1. proc[p] \in Process /\ ServiceOK(proc[p]) /\ proc[p].at = "CloseRedis"
  BY ServiceOKNow DEF CloseRedis, At
<1>2. proc[p].redis \in {"none", "open", "closed"}
  BY <1>1 DEF Process
<1>3. /\ Closed(proc[p].redis) \in {"none", "closed"}
      /\ Closed(proc[p].redis) \in {"none", "open", "closed"}
  BY <1>2, ClosedIsNotOpen
<1>4. /\ a \in Process /\ a.pool = proc[p].pool /\ a.redis = Closed(proc[p].redis)
      /\ a.config = proc[p].config /\ a.late = proc[p].late /\ a.harmed = proc[p].harmed
  BY <1>1, <1>3, SetRedis
<1>5. Become(p, n) /\ UNCHANGED <<req, counter, clock, history>>
  BY <1>1 DEF CloseRedis, At, Become, Process
<1> HIDE DEF a
<1>6. /\ n \in Process /\ n.at = "return" /\ n.pool = proc[p].pool
      /\ n.redis = Closed(proc[p].redis) /\ n.config = proc[p].config /\ n.late = proc[p].late
      /\ n.harmed = proc[p].harmed
  BY <1>4, SetAt DEF Stages
<1> HIDE DEF n
<1>7. ServiceOK(n)
  BY <1>1, <1>3, <1>6 DEF ServiceOK, Ended, Closed
<1>8. \A q : Served(q, proc[p]) => Served(q, n)
  BY <1>1, <1>6 DEF Served
<1>9. QED BY <1>5, <1>7, <1>8, MainGoesOn

LEMMA PoolClosedStep == ASSUME IInv, NEW p \in Procs, PoolClosed(p) PROVE IInv'
<1> DEFINE a == [proc[p] EXCEPT !.pool = "closed"]
           n == [a EXCEPT !.at = "CloseRedis"]
<1>1. proc[p] \in Process /\ ServiceOK(proc[p]) /\ proc[p].at = "Close"
  BY ServiceOKNow DEF PoolClosed, At
<1>2. /\ a \in Process /\ a.pool = "closed" /\ a.redis = proc[p].redis
      /\ a.config = proc[p].config /\ a.late = proc[p].late /\ a.harmed = proc[p].harmed
  BY <1>1, SetPool
<1>3. Become(p, n) /\ UNCHANGED <<req, counter, clock, history>> /\ Holders(p) = {}
  BY <1>1 DEF PoolClosed, At, Become, Process
<1> HIDE DEF a
<1>4. /\ n \in Process /\ n.at = "CloseRedis" /\ n.pool = "closed"
      /\ n.redis = proc[p].redis /\ n.config = proc[p].config /\ n.late = proc[p].late
      /\ n.harmed = proc[p].harmed
  BY <1>2, SetAt DEF Stages
<1> HIDE DEF n
<1>5. ServiceOK(n)
  BY <1>1, <1>4 DEF ServiceOK, Ended
<1>6. ASSUME NEW r \in InProcess(p), Served(req[r], proc[p])
      PROVE  Served(req[r], n)
  <2>1. req[r].at # "query"
    BY <1>3, <1>6 DEF Holders
  <2>2. QED BY <1>1, <1>4, <1>6, <2>1 DEF Served
<1>7. QED BY <1>3, <1>5, <1>6, MainGoesOn

-----------------------------------------------------------------------------
(* Requests *)

LEMMA RequestNow ==
    ASSUME IInv, NEW r \in Requests, req[r].at # "idle"
    PROVE  /\ req[r] \in Request /\ req[r].in \in Procs
           /\ Served(req[r], proc[req[r].in])
           /\ proc[req[r].in] \in Process /\ ServiceOK(proc[req[r].in])
BY DEF IInv, TypeOK, Served

\* Nothing happens to the process.
LEMMA HandlerOnly ==
    ASSUME IInv, NEW r \in Requests, req[r].at # "idle", NEW new \in Request,
           Continue(r, new), UNCHANGED <<proc, clock, arrivals>>,
           new.at # "idle" => new.in = req[r].in /\ Served(new, proc[req[r].in]),
           counter' \in [Keys -> [count: Nat, until: 0..(MaxClock + Window)]],
           hits' \in [Keys -> Seq(Instants)],
           admitted' \in [Keys -> Seq(Instants)]
    PROVE  IInv'
<1>1. ServiceOK(proc[req[r].in]) /\ req[r].in \in Procs
  BY RequestNow
<1>2. proc' = [proc EXCEPT ![req[r].in] = proc[req[r].in]]
  BY <1>1 DEF IInv, TypeOK
<1>3. QED BY <1>1, <1>2, HandlerGoesOn

Answering(q, status) == [q EXCEPT !.at = "answer", !.status = status, !.left = 0]

\* An answer needs nothing more of the process.
LEMMA AnswerIsServed ==
    ASSUME IInv, NEW r \in Requests, req[r].at # "idle", NEW status \in {0, 200, 401, 429, 500}
    PROVE  LET new == Answering(req[r], status)
           IN /\ new \in Request /\ new.at = "answer" /\ new.in = req[r].in
              /\ \A s : Served(req[r], s) => Served(new, s)
<1> DEFINE q == req[r]
           a == [q EXCEPT !.at = "answer"]
           b == [a EXCEPT !.status = status]
           new == [b EXCEPT !.left = 0]
<1>1. q \in Request
  BY RequestNow
<1> HIDE DEF q
<1>2. a \in Request /\ a.at = "answer" /\ a.in = q.in /\ a.key = q.key
  BY <1>1 DEF Request
<1> HIDE DEF a
<1>3. b \in Request /\ b.at = "answer" /\ b.in = q.in /\ b.key = q.key
  BY <1>2 DEF Request
<1> HIDE DEF b
<1>4. new \in Request /\ new.at = "answer" /\ new.in = q.in /\ new.key = q.key
  BY <1>1, <1>3 DEF Request
<1> HIDE DEF new
<1>5. \A s : Served(q, s) => Served(new, s)
  BY <1>4 DEF Served
<1>6. new = Answering(req[r], status)
  BY <1>1 DEF q, a, b, new, Answering, Request
<1>7. QED BY <1>4, <1>5, <1>6 DEF q

\* What a request becomes that reaches its route.
Entering(q) ==
    [q EXCEPT !.at = IF proc[q.in].config.rateLimit THEN "limiter" ELSE "acquire",
              !.left = Statements[q.key[1]]]

LEMMA EnterIsServed ==
    ASSUME NEW q \in Request, Served(q, proc[q.in])
    PROVE  LET new == Entering(q)
           IN /\ new \in Request /\ new.at \in {"limiter", "acquire"} /\ new.in = q.in
              /\ new.status = q.status
              /\ Served(new, proc[q.in])
<1> DEFINE step == IF proc[q.in].config.rateLimit THEN "limiter" ELSE "acquire"
           a == [q EXCEPT !.at = step]
           new == [a EXCEPT !.left = Statements[q.key[1]]]
<1>1. step \in {"limiter", "acquire"} /\ (step = "limiter" => proc[q.in].config.rateLimit)
  OBVIOUS
<1> HIDE DEF step
<1>2. Statements[q.key[1]] \in Nat \ {0}
  BY StatementsAssumption DEF Served, Keys
<1>3. a \in Request /\ a.at = step /\ a.in = q.in /\ a.key = q.key /\ a.status = q.status
  BY <1>1 DEF Request
<1> HIDE DEF a
<1>4. /\ new \in Request /\ new.at = step /\ new.in = q.in /\ new.key = q.key
      /\ new.status = q.status /\ new.left \in Nat \ {0}
  BY <1>2, <1>3 DEF Request
<1> HIDE DEF new
<1>5. Served(new, proc[q.in])
  BY <1>1, <1>4 DEF Served
<1>6. new = Entering(q)
  BY DEF Entering, new, a, step, Request
<1>7. QED BY <1>1, <1>4, <1>5, <1>6

\* A request that has just arrived in a process, for any endpoint.
Arriving(p, k) ==
    [at |-> "acquire", in |-> p, key |-> k, left |-> Statements[k[1]] + 1, status |-> 0]

LEMMA ArrivingIsServed ==
    ASSUME NEW p \in Procs, NEW k \in Keys, proc[p].at = "serving"
    PROVE  LET new == Arriving(p, k)
           IN new \in Request /\ new.at = "acquire" /\ new.in = p /\ Served(new, proc[p])
<1>1. Statements[k[1]] + 1 \in Nat \ {0}
  BY StatementsAssumption DEF Keys
<1>2. /\ Arriving(p, k) \in Request /\ Arriving(p, k).at = "acquire" /\ Arriving(p, k).in = p
      /\ Arriving(p, k).key = k /\ Arriving(p, k).left \in Nat \ {0}
  BY <1>1 DEF Arriving, Request
<1>3. QED BY <1>2 DEF Served

\* What it becomes when its token is refused.
Refused(p, k) ==
    [Arriving(p, k) EXCEPT !.at = "answer", !.left = 0, !.status = 401]

LEMMA RefusedIsServed ==
    ASSUME NEW p \in Procs, NEW k \in Keys, proc[p].at = "serving"
    PROVE  LET new == Refused(p, k)
           IN /\ new \in Request /\ new.at = "answer" /\ new.in = p /\ new.status = 401
              /\ Served(new, proc[p])
<1> DEFINE q == Arriving(p, k)
           a == [q EXCEPT !.at = "answer"]
           b == [a EXCEPT !.left = 0]
           new == [b EXCEPT !.status = 401]
<1>1. q \in Request /\ q.in = p /\ q.key = k
  BY ArrivingIsServed DEF Arriving
<1> HIDE DEF q
<1>2. a \in Request /\ a.at = "answer" /\ a.in = p /\ a.key = k
  BY <1>1 DEF Request
<1> HIDE DEF a
<1>3. b \in Request /\ b.at = "answer" /\ b.in = p /\ b.key = k
  BY <1>2 DEF Request
<1> HIDE DEF b
<1>4. /\ new \in Request /\ new.at = "answer" /\ new.in = p /\ new.key = k
      /\ new.status = 401
  BY <1>3 DEF Request
<1> HIDE DEF new
<1>5. Served(new, proc[p])
  BY <1>4 DEF Served
<1>6. new = Refused(p, k)
  BY <1>1 DEF Refused, new, b, a, q, Request
<1>7. QED BY <1>4, <1>5, <1>6

\* The three ways in which a request may arrive.
LEMMA ArriveWith ==
    ASSUME NEW r \in Requests, Arrive(r)
    PROVE  \E p \in Procs, k \in Keys :
             /\ proc[p].at = "serving"
             /\ \/ Continue(r, Entering(Arriving(p, k)))
                \/ Continue(r, Arriving(p, k))
                \/ Continue(r, Refused(p, k))
<1>1. PICK p \in Procs, k \in Keys :
        LET new == Arriving(p, k)
        IN /\ proc[p].at = "serving"
           /\ \/ k[1] \notin Authenticated /\ Enter(r, new)
              \/ k[1] \in Authenticated /\ Continue(r, new)
              \/ /\ k[1] \in Authenticated
                 /\ Continue(r, [new EXCEPT !.at = "answer", !.left = 0, !.status = 401])
  BY DEF Arrive, Arriving
<1>2. Enter(r, Arriving(p, k)) => Continue(r, Entering(Arriving(p, k)))
  BY DEF Enter, Entering
<1>3. Refused(p, k) = [Arriving(p, k) EXCEPT !.at = "answer", !.left = 0, !.status = 401]
  BY DEF Refused
<1>4. QED BY <1>1, <1>2, <1>3

LEMMA ArriveStep == ASSUME IInv, NEW r \in Requests, Arrive(r) PROVE IInv'
<1>1. PICK p \in Procs, k \in Keys :
        /\ proc[p].at = "serving"
        /\ \/ Continue(r, Entering(Arriving(p, k)))
           \/ Continue(r, Arriving(p, k))
           \/ Continue(r, Refused(p, k))
  BY ArriveWith
<1>2. PICK new \in Request : Continue(r, new) /\ new.in = p /\ Served(new, proc[p])
  <2>1. /\ Arriving(p, k) \in Request /\ Arriving(p, k).in = p
        /\ Served(Arriving(p, k), proc[p])
    BY <1>1, ArrivingIsServed
  <2>2. /\ Entering(Arriving(p, k)) \in Request /\ Entering(Arriving(p, k)).in = p
        /\ Served(Entering(Arriving(p, k)), proc[p])
    BY <2>1, EnterIsServed
  <2>3. Refused(p, k) \in Request /\ Refused(p, k).in = p /\ Served(Refused(p, k), proc[p])
    BY <1>1, RefusedIsServed
  <2>4. CASE Continue(r, Entering(Arriving(p, k)))
    BY <2>2, <2>4, Zenon
  <2>5. CASE Continue(r, Arriving(p, k))
    BY <2>1, <2>5, Zenon
  <2>6. CASE Continue(r, Refused(p, k))
    BY <2>3, <2>6, Zenon
  <2>7. QED BY <1>1, <2>4, <2>5, <2>6
<1>3. /\ req' \in [Requests -> Request] /\ req'[r] = new
      /\ \A q \in Requests \ {r} : req'[q] = req[q]
  BY <1>2 DEF Continue, IInv, TypeOK
<1>4. /\ UNCHANGED <<proc, counter, hits, admitted, clock>>
      /\ arrivals < MaxArrivals /\ arrivals' = arrivals + 1
  BY DEF Arrive, In
<1>5. TypeOK'
  BY <1>3, <1>4, SizeAssumption DEF IInv, TypeOK, Instants
<1>6. \A q \in Requests : req'[q].at # "idle" => Served(req'[q], proc'[req'[q].in])
  BY <1>2, <1>3, <1>4 DEF IInv
<1>7. QED BY <1>4, <1>5, <1>6 DEF IInv

LEMMA HitTypes ==
    ASSUME TypeOK, NEW k \in Keys
    PROVE  Hit(k) \in [count: Nat, until: 0..(MaxClock + Window)]
<1>1. counter[k] \in [count: Nat, until: 0..(MaxClock + Window)] /\ clock \in 0..MaxClock
  BY DEF TypeOK, Instants
<1>2. [counter[k] EXCEPT !.count = counter[k].count + 1]
        \in [count: Nat, until: 0..(MaxClock + Window)]
  BY <1>1
<1>3. [count |-> 1, until |-> clock + Window] \in [count: Nat, until: 0..(MaxClock + Window)]
  BY <1>1, SizeAssumption
<1>4. QED BY <1>2, <1>3 DEF Hit

LEMMA TallyTypes ==
    ASSUME TypeOK, NEW k \in Keys, NEW table \in [Keys -> Seq(Instants)]
    PROVE  Tally(table, k) \in [Keys -> Seq(Instants)]
<1>1. Append(table[k], clock) \in Seq(Instants)
  BY DEF TypeOK
<1>2. QED BY <1>1 DEF Tally

\* What a request becomes that is let through its limiter.
LEMMA PassIsServed ==
    ASSUME IInv, NEW r \in Requests, req[r].at = "limiter"
    PROVE  LET new == [req[r] EXCEPT !.at = "acquire"]
           IN new \in Request /\ new.in = req[r].in /\ Served(new, proc[req[r].in])
<1> DEFINE new == [req[r] EXCEPT !.at = "acquire"]
<1>1. req[r] \in Request /\ Served(req[r], proc[req[r].in])
  BY RequestNow
<1>2. /\ new \in Request /\ new.at = "acquire" /\ new.in = req[r].in
      /\ new.key = req[r].key /\ new.left = req[r].left
  BY <1>1 DEF Request
<1> HIDE DEF new
<1>3. Served(new, proc[req[r].in])
  BY <1>1, <1>2 DEF Served
<1>4. QED BY <1>2, <1>3 DEF new

LEMMA LimiterStep == ASSUME IInv, NEW r \in Requests, Limiter(r) PROVE IInv'
<1> DEFINE k == req[r].key
<1>1. req[r].at = "limiter" /\ UNCHANGED <<proc, clock, arrivals>>
  BY DEF Limiter, In
<1>2. k \in Keys
  BY <1>1, RequestNow DEF Served
<1>3. TypeOK
  BY DEF IInv
<1>4. Hit(k) \in [count: Nat, until: 0..(MaxClock + Window)]
  BY <1>2, <1>3, HitTypes
<1>5. counter' \in [Keys -> [count: Nat, until: 0..(MaxClock + Window)]]
  BY <1>3, <1>4 DEF Limiter, LimiterKey, TypeOK
<1>6. hits \in [Keys -> Seq(Instants)] /\ admitted \in [Keys -> Seq(Instants)]
  BY <1>3 DEF TypeOK
<1>7. hits' = Tally(hits, k)
  BY DEF Limiter
<1>8. hits' \in [Keys -> Seq(Instants)]
  BY <1>2, <1>3, <1>6, <1>7, TallyTypes
<1>9. CASE Pass(r)
  <2>1. admitted' \in [Keys -> Seq(Instants)]
    BY <1>2, <1>3, <1>6, <1>9, TallyTypes DEF Pass
  <2>2. QED BY <1>1, <1>5, <1>8, <1>9, <2>1, PassIsServed, HandlerOnly DEF Pass
<1>10. CASE Answer(r, 429) /\ UNCHANGED admitted
  <2> DEFINE new == Answering(req[r], 429)
  <2>1. Served(req[r], proc[req[r].in]) /\ req[r].at # "idle" /\ 429 \in {0, 200, 401, 429, 500}
    BY <1>1, RequestNow
  <2>2. /\ new \in Request /\ new.in = req[r].in
        /\ \A s : Served(req[r], s) => Served(new, s)
    BY <2>1, AnswerIsServed
  <2>3. Continue(r, new) /\ admitted' = admitted
    BY <1>10 DEF Answer, Answering
  <2> HIDE DEF new
  <2>4. QED BY <1>1, <1>5, <1>6, <1>8, <2>1, <2>2, <2>3, HandlerOnly
<1>11. QED BY <1>9, <1>10 DEF Limiter

\* Only a request that has outlasted the shutdown meets something closed.
LEMMA HarmIsLate ==
    ASSUME IInv, NEW r \in Requests, NEW harm \in BOOLEAN,
           req[r].at \in {"limiter", "acquire"},
           harm => IF req[r].at = "limiter" THEN proc[req[r].in].redis = "closed"
                                            ELSE proc[req[r].in].pool # "open"
    PROVE  LET s == [proc[req[r].in] EXCEPT !.harmed = proc[req[r].in].harmed \/ harm]
           IN ServiceOK(s) /\ \A q : Served(q, proc[req[r].in]) => Served(q, s)
<1> DEFINE p == proc[req[r].in]
           cut == p.harmed \/ harm
           s == [p EXCEPT !.harmed = cut]
<1>1. p \in Process /\ ServiceOK(p) /\ Served(req[r], p)
  BY RequestNow
<1>2. p.harmed \in BOOLEAN /\ cut \in BOOLEAN
  BY <1>1 DEF Process
<1>3. p.at \in {"serving", "Shutdown", "Close", "CloseRedis", "return"}
  BY <1>1 DEF Served
<1>4. p.config \in Config /\ Valid(p.config)
  BY <1>1, <1>3, ConfigAssumption DEF ServiceOK, Ended
<1>5. harm => p.late
  <2>1. CASE req[r].at = "limiter"
    <3>1. p.config.redis
      BY <1>1, <1>4, <2>1 DEF Served, Valid
    <3>2. QED BY <1>1, <1>3, <2>1, <3>1 DEF ServiceOK, Served
  <2>2. CASE req[r].at = "acquire"
    BY <1>1, <1>3, <2>2 DEF ServiceOK, Served
  <2>3. QED BY <2>1, <2>2
<1>6. cut => p.late \/ p.at = "killed"
  BY <1>1, <1>5 DEF ServiceOK
<1> HIDE DEF cut
<1>7. /\ s \in Process /\ s.harmed = cut /\ s.at = p.at /\ s.config = p.config
      /\ s.pool = p.pool /\ s.redis = p.redis /\ s.late = p.late
  BY <1>1, <1>2, SetHarmed
<1> HIDE DEF s, p
<1>8. ServiceOK(s)
  BY <1>1, <1>6, <1>7 DEF ServiceOK
<1>9. \A q : Served(q, p) => Served(q, s)
  BY <1>7 DEF Served
<1>10. QED BY <1>8, <1>9 DEF s, cut, p

LEMMA LimiterFailsStep == ASSUME IInv, NEW r \in Requests, LimiterFails(r) PROVE IInv'
<1> DEFINE k == req[r].key
           p == proc[req[r].in]
           harm == p.redis = "closed"
           s == [p EXCEPT !.harmed = p.harmed \/ harm]
           new == Answering(req[r], 500)
<1>1. req[r].at = "limiter" /\ UNCHANGED <<clock, arrivals, admitted>>
  BY DEF LimiterFails, In
<1>2. req[r].key \in Keys /\ req[r].in \in Procs /\ p \in Process /\ Served(req[r], p)
  BY <1>1, RequestNow DEF Served
<1>3. TypeOK
  BY DEF IInv
<1>4. Hit(k) \in [count: Nat, until: 0..(MaxClock + Window)]
  BY <1>2, <1>3, HitTypes
<1>5. counter' = counter \/ counter' = [counter EXCEPT ![k] = Hit(k)]
  BY DEF LimiterFails, LimiterKey
<1>6. counter' \in [Keys -> [count: Nat, until: 0..(MaxClock + Window)]]
  BY <1>3, <1>4, <1>5 DEF TypeOK
<1>7. hits \in [Keys -> Seq(Instants)] /\ admitted' \in [Keys -> Seq(Instants)]
  BY <1>1, <1>3 DEF TypeOK
<1>8. hits' = Tally(hits, k)
  BY DEF LimiterFails
<1>9. hits' \in [Keys -> Seq(Instants)]
  BY <1>2, <1>3, <1>7, <1>8, TallyTypes
<1>10. harm \in BOOLEAN
  OBVIOUS
<1>11. proc' = [proc EXCEPT ![req[r].in] = s]
  BY <1>2, <1>3 DEF LimiterFails, TypeOK
<1>12. ServiceOK(s) /\ \A q : Served(q, p) => Served(q, s)
  BY <1>1, <1>10, HarmIsLate
<1>13. Continue(r, new)
  BY DEF LimiterFails, Answer, Answering
<1>14. /\ new \in Request /\ new.in = req[r].in
       /\ \A x : Served(req[r], x) => Served(new, x)
  <2>1. req[r].at # "idle" /\ 500 \in {0, 200, 401, 429, 500}
    BY <1>1
  <2>2. QED BY <2>1, AnswerIsServed
<1> HIDE DEF new, s, p, harm
<1>15. Served(new, s)
  BY <1>2, <1>12, <1>14
<1>16. \A q : Served(q, proc[req[r].in]) => Served(q, s)
  BY <1>12 DEF p
<1>17. QED BY <1>1, <1>6, <1>7, <1>9, <1>11, <1>12, <1>13, <1>14, <1>15, <1>16, HandlerGoesOn

LEMMA TablesStay ==
    ASSUME IInv, UNCHANGED <<counter, hits, admitted>>
    PROVE  /\ counter' \in [Keys -> [count: Nat, until: 0..(MaxClock + Window)]]
           /\ hits' \in [Keys -> Seq(Instants)] /\ admitted' \in [Keys -> Seq(Instants)]
BY DEF IInv, TypeOK

LEMMA AcquireStep == ASSUME IInv, NEW r \in Requests, Acquire(r) PROVE IInv'
<1> DEFINE new == [req[r] EXCEPT !.at = "query"]
<1>1. /\ req[r].at = "acquire" /\ proc[req[r].in].pool = "open"
      /\ UNCHANGED <<proc, counter, clock, arrivals, hits, admitted>>
  BY DEF Acquire, In, history
<1>2. /\ req[r] \in Request /\ Served(req[r], proc[req[r].in]) /\ ServiceOK(proc[req[r].in])
  BY <1>1, RequestNow
<1>3. /\ new \in Request /\ new.at = "query" /\ new.in = req[r].in /\ new.key = req[r].key
      /\ new.left = req[r].left
  BY <1>2 DEF Request
<1>4. Continue(r, new)
  BY DEF Acquire
<1> HIDE DEF new
<1>5. Served(new, proc[req[r].in])
  BY <1>1, <1>2, <1>3 DEF Served, ServiceOK
<1>6. QED BY <1>1, <1>3, <1>4, <1>5, TablesStay, HandlerOnly

LEMMA AcquireFailsStep == ASSUME IInv, NEW r \in Requests, AcquireFails(r) PROVE IInv'
<1> DEFINE p == proc[req[r].in]
           s == [p EXCEPT !.harmed = p.harmed \/ TRUE]
           new == Answering(req[r], 500)
<1>1. /\ req[r].at = "acquire" /\ p.pool # "open" /\ Continue(r, new)
      /\ UNCHANGED <<counter, clock, arrivals, hits, admitted>>
  BY DEF AcquireFails, In, history, Answer, Answering
<1>2. req[r].in \in Procs /\ p \in Process /\ Served(req[r], p)
  BY <1>1, RequestNow
<1>3. proc' = [proc EXCEPT ![req[r].in] = s]
  BY <1>2 DEF AcquireFails, IInv, TypeOK
<1>4. ServiceOK(s) /\ \A q : Served(q, p) => Served(q, s)
  BY <1>1, HarmIsLate
<1>5. /\ new \in Request /\ new.in = req[r].in
      /\ \A x : Served(req[r], x) => Served(new, x)
  <2>1. req[r].at # "idle" /\ 500 \in {0, 200, 401, 429, 500}
    BY <1>1
  <2>2. QED BY <2>1, AnswerIsServed
<1> HIDE DEF new, s, p
<1>6. Served(new, s)
  BY <1>2, <1>4, <1>5
<1>7. \A q : Served(q, proc[req[r].in]) => Served(q, s)
  BY <1>4 DEF p
<1>8. QED BY <1>1, <1>3, <1>4, <1>5, <1>6, <1>7, TablesStay, HandlerGoesOn

\* Nothing happens to the process or to any table.
LEMMA GoesOnAlone ==
    ASSUME IInv, NEW r \in Requests, req[r].at # "idle", NEW new \in Request,
           new.in = req[r].in, Served(new, proc[req[r].in]), Continue(r, new),
           UNCHANGED <<proc, counter, clock, history>>
    PROVE  IInv'
<1>1. UNCHANGED <<proc, counter, clock, arrivals, hits, admitted>>
  BY DEF history
<1>2. QED BY <1>1, TablesStay, HandlerOnly

\* A handler answers, with any status.
LEMMA AnswerStep ==
    ASSUME IInv, NEW r \in Requests, req[r].at # "idle", NEW status \in {0, 200, 401, 429, 500},
           Answer(r, status), UNCHANGED <<proc, counter, clock, history>>
    PROVE  IInv'
<1> DEFINE new == Answering(req[r], status)
<1>1. /\ new \in Request /\ new.in = req[r].in
      /\ \A x : Served(req[r], x) => Served(new, x)
  BY AnswerIsServed
<1>2. Continue(r, new)
  BY DEF Answer, Answering
<1> HIDE DEF new
<1>3. Served(new, proc[req[r].in])
  BY <1>1, RequestNow
<1>4. QED BY <1>1, <1>2, <1>3, GoesOnAlone

LEMMA QueryDoneStep == ASSUME IInv, NEW r \in Requests, QueryDone(r) PROVE IInv'
<1> DEFINE a == [req[r] EXCEPT !.at = "acquire"]
           new == [a EXCEPT !.left = req[r].left - 1]
<1>1. req[r].at = "query" /\ UNCHANGED <<proc, counter, clock, history>>
  BY DEF QueryDone, In
<1>2. CASE Answer(r, 200)
  BY <1>1, <1>2, AnswerStep
<1>3. CASE req[r].left # 1 /\ Continue(r, [req[r] EXCEPT !.at = "acquire", !.left = @ - 1])
  <2>1. /\ req[r] \in Request /\ Served(req[r], proc[req[r].in])
    BY <1>1, RequestNow
  <2>2. req[r].left - 1 \in Nat \ {0}
    BY <1>1, <1>3, <2>1 DEF Served
  <2>3. a \in Request /\ a.at = "acquire" /\ a.in = req[r].in /\ a.key = req[r].key
    BY <2>1 DEF Request
  <2>4. Continue(r, new)
    BY <1>3, <2>1 DEF Request
  <2> HIDE DEF a
  <2>5. /\ new \in Request /\ new.at = "acquire" /\ new.in = req[r].in /\ new.key = req[r].key
        /\ new.left \in Nat \ {0}
    BY <2>2, <2>3 DEF Request
  <2> HIDE DEF new
  <2>6. Served(new, proc[req[r].in])
    BY <2>1, <2>5 DEF Served
  <2>7. UNCHANGED <<proc, counter, clock, arrivals, hits, admitted>>
    BY <1>1 DEF history
  <2>8. QED BY <1>1, <2>4, <2>5, <2>6, <2>7, TablesStay, HandlerOnly
<1>4. QED BY <1>2, <1>3 DEF QueryDone

LEMMA AuthenticateStep == ASSUME IInv, NEW r \in Requests, Authenticate(r) PROVE IInv'
<1>1. req[r].at = "query" /\ UNCHANGED <<proc, counter, clock, history>>
  BY DEF Authenticate, In
<1>2. CASE Answer(r, 401)
  BY <1>1, <1>2, AnswerStep
<1>3. CASE Enter(r, req[r])
  <2>1. Continue(r, Entering(req[r]))
    BY <1>3 DEF Enter, Entering
  <2>2. req[r] \in Request /\ Served(req[r], proc[req[r].in])
    BY <1>1, RequestNow
  <2>3. /\ Entering(req[r]) \in Request /\ Entering(req[r]).in = req[r].in
        /\ Served(Entering(req[r]), proc[req[r].in])
    BY <2>2, EnterIsServed
  <2>4. UNCHANGED <<proc, counter, clock, arrivals, hits, admitted>>
    BY <1>1 DEF history
  <2>5. QED BY <1>1, <2>1, <2>3, <2>4, TablesStay, HandlerOnly
<1>4. QED BY <1>2, <1>3 DEF Authenticate

LEMMA QueryFailsStep == ASSUME IInv, NEW r \in Requests, QueryFails(r) PROVE IInv'
<1>1. req[r].at = "query" /\ UNCHANGED <<proc, counter, clock, history>> /\ Answer(r, 500)
  BY DEF QueryFails, In
<1>2. QED BY <1>1, AnswerStep

LEMMA RespondStep == ASSUME IInv, NEW r \in Requests, Respond(r) PROVE IInv'
<1>1. /\ req[r].at # "idle" /\ Continue(r, NoRequest)
      /\ UNCHANGED <<proc, counter, clock, arrivals, hits, admitted>>
  BY DEF Respond, In, history
<1>2. NoRequest \in Request /\ NoRequest.at = "idle"
  BY SizeAssumption DEF NoRequest, Request
<1>3. QED BY <1>1, <1>2, TablesStay, HandlerOnly

LEMMA TickStep == ASSUME IInv, Tick PROVE IInv'
<1>1. clock' \in Instants
  BY SizeAssumption DEF Tick, IInv, TypeOK, Instants
<1>2. Unused \in [count: Nat, until: 0..(MaxClock + Window)]
  BY SizeAssumption DEF Unused
<1>3. counter' \in [Keys -> [count: Nat, until: 0..(MaxClock + Window)]]
  BY <1>2 DEF Tick, IInv, TypeOK
<1>4. UNCHANGED <<proc, req, arrivals, hits, admitted>>
  BY DEF Tick, history
<1>5. QED BY <1>1, <1>3, <1>4 DEF IInv, TypeOK

LEMMA InvNext == IInv /\ [Next]_vars => IInv'
<1> SUFFICES ASSUME IInv, [Next]_vars PROVE IInv'
  OBVIOUS
<1>1. ASSUME NEW p \in Procs, Boot(p) \/ MainStep(p) \/ Signal(p) \/ ListenerFails(p)
      PROVE  IInv'
  <2>1. CASE Boot(p)
    BY <2>1, BootStep
  <2>2. CASE NewPool(p)
    BY <2>2, NewPoolStep
  <2>3. CASE NewClient(p)
    BY <2>3, NewClientStep
  <2>4. CASE NewMiddlewares(p)
    BY <2>4, NewMiddlewaresStep
  <2>5. CASE Drained(p)
    BY <2>5, DrainedStep
  <2>6. CASE Deadline(p)
    BY <2>6, DeadlineStep
  <2>7. CASE ClosePool(p)
    BY <2>7, ClosePoolStep
  <2>8. CASE PoolClosed(p)
    BY <2>8, PoolClosedStep
  <2>9. CASE CloseRedis(p)
    BY <2>9, CloseRedisStep
  <2>10. CASE MainReturns(p)
    BY <2>10, ExitKeepsInv DEF MainReturns, At
  <2>11. CASE Signal(p)
    BY <2>11, SignalStep
  <2>12. CASE ListenerFails(p)
    BY <2>12, ExitKeepsInv DEF ListenerFails, At
  <2>13. QED
    BY <1>1, <2>1, <2>2, <2>3, <2>4, <2>5, <2>6, <2>7, <2>8, <2>9, <2>10, <2>11, <2>12
    DEF MainStep
<1>2. ASSUME NEW r \in Requests, Arrive(r) \/ HandlerStep(r) \/ Acquire(r)
      PROVE  IInv'
  <2>1. CASE Arrive(r)
    BY <2>1, ArriveStep
  <2>2. CASE Limiter(r)
    BY <2>2, LimiterStep
  <2>3. CASE LimiterFails(r)
    BY <2>3, LimiterFailsStep
  <2>4. CASE AcquireFails(r)
    BY <2>4, AcquireFailsStep
  <2>5. CASE QueryDone(r)
    BY <2>5, QueryDoneStep
  <2>6. CASE QueryFails(r)
    BY <2>6, QueryFailsStep
  <2>7. CASE Respond(r)
    BY <2>7, RespondStep
  <2>8. CASE Acquire(r)
    BY <2>8, AcquireStep
  <2>9. CASE Authenticate(r)
    BY <2>9, AuthenticateStep
  <2>10. QED BY <1>2, <2>1, <2>2, <2>3, <2>4, <2>5, <2>6, <2>7, <2>8, <2>9 DEF HandlerStep
<1>3. CASE UNCHANGED vars
  BY <1>3 DEF vars, IInv, TypeOK, Instants
<1>4. CASE Tick
  BY <1>4, TickStep
<1>5. QED BY <1>1, <1>2, <1>3, <1>4 DEF Next

LEMMA Invariant == Spec => []IInv
<1>1. QED BY InvInit, InvNext, PTL DEF Spec

-----------------------------------------------------------------------------
(* Connections *)

PoolKept == \A p \in Procs : Cardinality(Holders(p)) <= MaxConns

LEMMA HoldersFinite == \A p \in Procs : IsFiniteSet(Holders(p))
BY SlotAssumption, FS_Subset DEF Holders, InProcess

\* Only Acquire makes a request a holder.
LEMMA NoNewHolder ==
    ASSUME IInv, IInv', NEW r \in Requests, NEW new, Continue(r, new), new.at # "query"
    PROVE  \A q \in Requests : req'[q].at = "query" => req'[q] = req[q]
BY DEF Continue, IInv, TypeOK

LEMMA AnswerIsNoQuery ==
    ASSUME IInv, IInv', NEW r \in Requests, req[r].at # "idle",
           NEW status \in {0, 200, 401, 429, 500}, Answer(r, status)
    PROVE  \A q \in Requests : req'[q].at = "query" => req'[q] = req[q]
<1>1. Answering(req[r], status).at = "answer"
  BY AnswerIsServed
<1>2. Continue(r, Answering(req[r], status))
  BY DEF Answer, Answering
<1>3. QED BY <1>1, <1>2, NoNewHolder

LEMMA MainTakesNone ==
    ASSUME IInv, NEW p \in Procs, Boot(p) \/ MainStep(p) \/ Signal(p) \/ ListenerFails(p)
    PROVE  \A q \in Requests : req'[q].at = "query" => req'[q] = req[q]
<1>1. ASSUME NEW how, Exit(p, how)
      PROVE  \A q \in Requests : req'[q].at = "query" => req'[q] = req[q]
  BY <1>1 DEF Exit, NoRequest
<1>2. UNCHANGED req \/ Exit(p, "killed") \/ Exit(p, "stopped")
  BY DEF Boot, MainStep, Signal, ListenerFails, NewPool, NewClient, NewMiddlewares, Drained,
         Deadline, ClosePool, PoolClosed, CloseRedis, MainReturns
<1>3. QED BY <1>1, <1>2

LEMMA HandlerTakesNone ==
    ASSUME IInv, IInv', NEW r \in Requests, Arrive(r) \/ HandlerStep(r)
    PROVE  \A q \in Requests : req'[q].at = "query" => req'[q] = req[q]
<1>1. CASE Arrive(r)
  <2>1. PICK p \in Procs, k \in Keys :
          /\ proc[p].at = "serving"
          /\ \/ Continue(r, Entering(Arriving(p, k)))
             \/ Continue(r, Arriving(p, k))
             \/ Continue(r, Refused(p, k))
    BY <1>1, ArriveWith
  <2>2. /\ Arriving(p, k) \in Request /\ Arriving(p, k).at = "acquire"
        /\ Arriving(p, k).in = p /\ Served(Arriving(p, k), proc[p])
    BY <2>1, ArrivingIsServed
  <2>3. Entering(Arriving(p, k)).at \in {"limiter", "acquire"}
    BY <2>2, EnterIsServed
  <2>4. Refused(p, k).at = "answer"
    BY <2>1, RefusedIsServed
  <2>5. QED BY <2>1, <2>2, <2>3, <2>4, NoNewHolder
<1>2. ASSUME NEW status \in {200, 401, 429, 500}, req[r].at # "idle", Answer(r, status)
      PROVE  \A q \in Requests : req'[q].at = "query" => req'[q] = req[q]
  BY <1>2, AnswerIsNoQuery
<1>3. ASSUME req[r].at # "idle", Continue(r, [req[r] EXCEPT !.at = "acquire"])
      PROVE  \A q \in Requests : req'[q].at = "query" => req'[q] = req[q]
  <2>1. [req[r] EXCEPT !.at = "acquire"].at = "acquire"
    BY <1>3, RequestNow DEF Request
  <2>2. QED BY <1>3, <2>1, NoNewHolder
<1>4. CASE Limiter(r)
  <2>1. req[r].at = "limiter" /\ (Pass(r) \/ Answer(r, 429))
    BY <1>4 DEF Limiter, In
  <2>2. QED BY <1>2, <1>3, <2>1 DEF Pass
<1>5. CASE LimiterFails(r) \/ AcquireFails(r) \/ QueryFails(r)
  <2>1. req[r].at # "idle" /\ Answer(r, 500)
    BY <1>5 DEF LimiterFails, AcquireFails, QueryFails, In
  <2>2. QED BY <1>2, <2>1
<1>6. CASE QueryDone(r)
  <2> DEFINE a == [req[r] EXCEPT !.at = "acquire"]
             new == [a EXCEPT !.left = req[r].left - 1]
  <2>1. req[r].at = "query"
    BY <1>6 DEF QueryDone, In
  <2>2. req[r] \in Request
    BY <2>1, RequestNow
  <2>3. Answer(r, 200) \/ Continue(r, new)
    BY <1>6, <2>2 DEF QueryDone, Request
  <2>4. new.at = "acquire"
    BY <2>2 DEF Request
  <2> HIDE DEF new
  <2>5. QED BY <1>2, <2>1, <2>3, <2>4, NoNewHolder
<1>7. CASE Respond(r)
  BY <1>7, NoNewHolder DEF Respond, NoRequest
<1>8. CASE Authenticate(r)
  <2>1. req[r].at = "query" /\ (Answer(r, 401) \/ Continue(r, Entering(req[r])))
    BY <1>8 DEF Authenticate, In, Enter, Entering
  <2>2. req[r] \in Request /\ Served(req[r], proc[req[r].in])
    BY <2>1, RequestNow
  <2>3. Entering(req[r]).at \in {"limiter", "acquire"}
    BY <2>2, EnterIsServed
  <2>4. QED BY <1>2, <2>1, <2>3, NoNewHolder
<1>9. QED BY <1>1, <1>4, <1>5, <1>6, <1>7, <1>8 DEF HandlerStep

LEMMA PoolInit == Init => PoolKept
<1> SUFFICES ASSUME Init, NEW p \in Procs PROVE Cardinality(Holders(p)) <= MaxConns
  BY DEF PoolKept
<1>1. Holders(p) = {}
  BY DEF Init, Holders, InProcess, NoRequest
<1>2. QED BY <1>1, FS_EmptySet, SizeAssumption

LEMMA PoolNext == IInv /\ IInv' /\ PoolKept /\ [Next]_vars => PoolKept'
<1> SUFFICES ASSUME IInv, IInv', PoolKept, [Next]_vars, NEW p \in Procs
             PROVE  Cardinality(Holders(p)') <= MaxConns
  BY DEF PoolKept
<1>1. Cardinality(Holders(p)) \in Nat /\ Cardinality(Holders(p)) <= MaxConns
  BY HoldersFinite, FS_CardinalityType DEF PoolKept
<1>2. ASSUME \A q \in Requests : req'[q].at = "query" => req'[q] = req[q]
      PROVE  Cardinality(Holders(p)') <= MaxConns
  <2>1. Holders(p)' \subseteq Holders(p)
    BY <1>2 DEF Holders, InProcess
  <2>2. Cardinality(Holders(p)') <= Cardinality(Holders(p)) /\ Cardinality(Holders(p)') \in Nat
    BY <2>1, HoldersFinite, FS_Subset, FS_CardinalityType
  <2>3. QED BY <1>1, <2>2, SizeAssumption
<1>3. CASE \E q \in Procs : Boot(q) \/ MainStep(q) \/ Signal(q) \/ ListenerFails(q)
  BY <1>2, <1>3, MainTakesNone
<1>4. CASE \E r \in Requests : Arrive(r) \/ HandlerStep(r)
  BY <1>2, <1>4, HandlerTakesNone
<1>5. CASE Tick \/ UNCHANGED vars
  BY <1>2, <1>5 DEF Tick, vars
<1>6. ASSUME NEW r \in Requests, Acquire(r)
      PROVE  Cardinality(Holders(p)') <= MaxConns
  <2>1. /\ req[r].at = "acquire" /\ Cardinality(Holders(req[r].in)) < MaxConns
        /\ Continue(r, [req[r] EXCEPT !.at = "query"])
    BY <1>6 DEF Acquire, In
  <2>2. /\ req'[r].in = req[r].in /\ \A q \in Requests \ {r} : req'[q] = req[q]
    BY <2>1, RequestNow DEF Continue, IInv, TypeOK, Request
  <2>3. CASE req[r].in # p
    <3>1. Holders(p)' \subseteq Holders(p)
      BY <2>2, <2>3 DEF Holders, InProcess
    <3>2. Cardinality(Holders(p)') <= Cardinality(Holders(p)) /\ Cardinality(Holders(p)') \in Nat
      BY <3>1, HoldersFinite, FS_Subset, FS_CardinalityType
    <3>3. QED BY <1>1, <3>2, SizeAssumption
  <2>4. CASE req[r].in = p
    <3>1. Holders(p)' \subseteq Holders(p) \cup {r}
      BY <2>2 DEF Holders, InProcess
    <3>2. /\ IsFiniteSet(Holders(p) \cup {r}) /\ Cardinality(Holders(p) \cup {r}) \in Nat
          /\ Cardinality(Holders(p) \cup {r}) <= Cardinality(Holders(p)) + 1
      BY <1>1, HoldersFinite, FS_AddElement, FS_CardinalityType
    <3>3. /\ Cardinality(Holders(p)') <= Cardinality(Holders(p) \cup {r})
          /\ Cardinality(Holders(p)') \in Nat
      BY <3>1, <3>2, FS_Subset, FS_CardinalityType
    <3>4. QED BY <1>1, <2>1, <2>4, <3>2, <3>3, SizeAssumption
  <2>5. QED BY <2>3, <2>4
<1>7. QED BY <1>3, <1>4, <1>5, <1>6 DEF Next

-----------------------------------------------------------------------------
(* Quotas *)

\* Which entries of a history of one key lie in a period, and how many.
Within(s, first, last) == {i \in DOMAIN s : first <= s[i] /\ s[i] <= last}
Num(s, first, last) == Cardinality(Within(s, first, last))

LEMMA DuringIsNum ==
    ASSUME NEW table, NEW k, NEW first, NEW last
    PROVE  During(table, k, first, last) = Num(table[k], first, last)
BY DEF During, Num, Within

LEMMA NumType ==
    ASSUME NEW s \in Seq(Instants), NEW first \in Int, NEW last \in Int
    PROVE  IsFiniteSet(Within(s, first, last)) /\ Num(s, first, last) \in Nat
<1>1. IsFiniteSet(1..Len(s)) /\ Within(s, first, last) \subseteq 1..Len(s)
  BY FS_Interval DEF Within
<1>2. QED BY <1>1, FS_Subset, FS_CardinalityType DEF Num

\* A shorter period has no more.
LEMMA NumShrinks ==
    ASSUME NEW s \in Seq(Instants), NEW a \in Int, NEW b \in Int, NEW c \in Int, NEW d \in Int,
           \A i \in DOMAIN s : b <= s[i] /\ s[i] <= c => a <= s[i] /\ s[i] <= d
    PROVE  Num(s, b, c) <= Num(s, a, d)
<1>1. Within(s, b, c) \subseteq Within(s, a, d)
  BY DEF Within
<1>2. QED BY <1>1, NumType, FS_Subset DEF Num

LEMMA NumEarlier ==
    ASSUME NEW s \in Seq(Instants), NEW a \in Int, NEW b \in Int, NEW c \in Int, a <= b
    PROVE  Num(s, b, c) <= Num(s, a, c)
<1>1. \A i \in DOMAIN s : s[i] \in Instants
  OBVIOUS
<1>2. \A i \in DOMAIN s : b <= s[i] /\ s[i] <= c => a <= s[i] /\ s[i] <= c
  BY <1>1 DEF Instants
<1>3. QED BY <1>2, NumShrinks

\* A period has no more than two that cover it.
LEMMA NumSplits ==
    ASSUME NEW s \in Seq(Instants), NEW a \in Int, NEW b \in Int, NEW c \in Int
    PROVE  Num(s, a, c) <= Num(s, a, b - 1) + Num(s, b, c)
<1> DEFINE S == Within(s, a, b - 1)
           T == Within(s, b, c)
<1>1. Within(s, a, c) \subseteq S \cup T
  <2>1. \A i \in DOMAIN s : s[i] \in Instants
    OBVIOUS
  <2>2. QED BY <2>1 DEF Within, Instants
<1>2. IsFiniteSet(S) /\ IsFiniteSet(T) /\ Cardinality(S) \in Nat /\ Cardinality(T) \in Nat
  BY NumType DEF Num
<1> HIDE DEF S, T
<1>3. /\ IsFiniteSet(S \cup T)
      /\ Cardinality(S \cup T) = Cardinality(S) + Cardinality(T) - Cardinality(S \cap T)
  BY <1>2, FS_Union
<1>4. Cardinality(S \cap T) \in Nat /\ Cardinality(S \cup T) \in Nat
  BY <1>2, <1>3, FS_Intersection, FS_CardinalityType
<1>5. Cardinality(Within(s, a, c)) <= Cardinality(S \cup T)
  BY <1>1, <1>3, FS_Subset
<1>6. Cardinality(Within(s, a, c)) \in Nat
  BY NumType DEF Num
<1>7. QED BY <1>2, <1>3, <1>4, <1>5, <1>6 DEF S, T, Num

\* Another entry counts once in the periods around it.
LEMMA NumAppends ==
    ASSUME NEW s \in Seq(Instants), NEW t \in Instants, NEW first \in Int, NEW last \in Int
    PROVE  Num(Append(s, t), first, last)
             = IF first <= t /\ t <= last THEN Num(s, first, last) + 1 ELSE Num(s, first, last)
<1> DEFINE n == Len(s) + 1
<1>1. /\ DOMAIN Append(s, t) = DOMAIN s \cup {n} /\ n \notin DOMAIN s
      /\ Append(s, t)[n] = t /\ \A i \in DOMAIN s : Append(s, t)[i] = s[i]
  OBVIOUS
<1>2. n \notin Within(s, first, last) /\ IsFiniteSet(Within(s, first, last))
  BY <1>1, NumType DEF Within
<1>3. Within(Append(s, t), first, last)
        = IF first <= t /\ t <= last THEN Within(s, first, last) \cup {n} ELSE Within(s, first, last)
  <2> HIDE DEF n
  <2>1. QED BY <1>1 DEF Within
<1>4. QED BY <1>2, <1>3, FS_AddElement DEF Num

\* No entry, none counted.
LEMMA NumNone ==
    ASSUME NEW s \in Seq(Instants), NEW first \in Int, NEW last \in Int,
           \A i \in DOMAIN s : ~(first <= s[i] /\ s[i] <= last)
    PROVE  Num(s, first, last) = 0
<1>1. Within(s, first, last) = {}
  BY DEF Within
<1>2. QED BY <1>1, FS_EmptySet DEF Num

\* Since the first hit of a counter no more were let through than it has counted, and at
\* least one hit was at that very instant; what was let through in the period before
\* belongs to the counter before, whose first hit is further back.
Since(first, count, passed, asked, limit, now) ==
    /\ first <= now
    /\ Num(passed, first, now) <= count /\ Num(passed, first, now) <= limit
    /\ Num(passed, first + 1, now) <= count - 1
    /\ limit > 0 => /\ Num(passed, first + 1, now) <= limit - 1
                    /\ \A t \in Int : first - Window < t => Num(passed, t, first - 1) <= limit - 1
    /\ count <= Num(asked, first, now)

\* No counter lives.
Quiet(passed, limit, now) ==
    /\ Num(passed, now, now) = 0
    /\ limit > 0 => \A t \in Int : now - Window < t => Num(passed, t, now) <= limit - 1

\* In any period of the length of a window.
Bounded(passed, limit) ==
    limit > 0 => \A t \in Int : Num(passed, t, t + Window - 1) <= 2 * limit - 1

Metered(c, passed, asked, limit, now) ==
    /\ \A i \in DOMAIN passed : passed[i] <= now
    /\ c.count > 0 => now < c.until /\ Since(c.until - Window, c.count, passed, asked, limit, now)
    /\ c.count = 0 => c = Unused /\ Quiet(passed, limit, now)
    /\ Bounded(passed, limit)

QuotaInv == \A k \in Keys : Metered(counter[k], admitted[k], hits[k], Limit[k[1]], clock)

Meter == [count: Nat, until: Nat]

LEMMA EntriesAreInstants ==
    ASSUME NEW s \in Seq(Instants)
    PROVE  \A i \in DOMAIN s : s[i] \in Nat /\ s[i] \in Int
<1>1. \A i \in DOMAIN s : s[i] \in Instants
  OBVIOUS
<1>2. QED BY <1>1 DEF Instants

\* Time passes: what was counted so far is counted still.
LEMMA SinceTick ==
    ASSUME NEW first \in Int, NEW count \in Nat, NEW passed \in Seq(Instants),
           NEW asked \in Seq(Instants), NEW limit \in Nat, NEW now \in Nat,
           \A i \in DOMAIN passed : passed[i] <= now,
           Since(first, count, passed, asked, limit, now)
    PROVE  Since(first, count, passed, asked, limit, now + 1)
<1>1. first + 1 \in Int /\ now \in Int /\ now + 1 \in Int
  OBVIOUS
<1>2. ASSUME NEW t \in Int
      PROVE  Num(passed, t, now + 1) <= Num(passed, t, now)
  <2>1. \A i \in DOMAIN passed : t <= passed[i] /\ passed[i] <= now + 1
                                   => t <= passed[i] /\ passed[i] <= now
    OBVIOUS
  <2>2. QED BY <1>1, <2>1, NumShrinks
<1>3. Num(asked, first, now) <= Num(asked, first, now + 1)
  <2>1. \A i \in DOMAIN asked : first <= asked[i] /\ asked[i] <= now
                                  => first <= asked[i] /\ asked[i] <= now + 1
    BY EntriesAreInstants
  <2>2. QED BY <1>1, <2>1, NumShrinks
<1>4. /\ Num(passed, first, now + 1) <= Num(passed, first, now)
      /\ Num(passed, first + 1, now + 1) <= Num(passed, first + 1, now)
  BY <1>1, <1>2
<1>5. /\ Num(passed, first, now) \in Nat /\ Num(passed, first, now + 1) \in Nat
      /\ Num(passed, first + 1, now) \in Nat /\ Num(passed, first + 1, now + 1) \in Nat
      /\ Num(asked, first, now) \in Nat /\ Num(asked, first, now + 1) \in Nat
  BY <1>1, NumType
<1>6. QED BY SMTT(20), <1>3, <1>4, <1>5 DEF Since

\* The counter expires.
LEMMA SinceExpires ==
    ASSUME NEW first \in Int, NEW count \in Nat, NEW passed \in Seq(Instants),
           NEW asked \in Seq(Instants), NEW limit \in Nat, NEW now \in Nat,
           \A i \in DOMAIN passed : passed[i] <= now, now + 1 = first + Window,
           Since(first, count, passed, asked, limit, now)
    PROVE  Quiet(passed, limit, now + 1)
<1>1. first + 1 \in Int /\ now \in Int /\ now + 1 \in Int /\ Window \in Nat
  BY SizeAssumption
<1>2. Num(passed, now + 1, now + 1) = 0
  <2>1. \A i \in DOMAIN passed : ~(now + 1 <= passed[i] /\ passed[i] <= now + 1)
    BY EntriesAreInstants
  <2>2. QED BY <1>1, <2>1, NumNone
<1>3. ASSUME limit > 0, NEW t \in Int, (now + 1) - Window < t
      PROVE  Num(passed, t, now + 1) <= limit - 1
  <2>1. \A i \in DOMAIN passed : t <= passed[i] /\ passed[i] <= now + 1
                                   => first + 1 <= passed[i] /\ passed[i] <= now
    BY <1>1, <1>3, EntriesAreInstants
  <2>2. Num(passed, t, now + 1) <= Num(passed, first + 1, now)
    BY <1>1, <2>1, NumShrinks
  <2>3. Num(passed, t, now + 1) \in Nat /\ Num(passed, first + 1, now) \in Nat
    BY <1>1, NumType
  <2>4. QED BY <1>3, <2>2, <2>3 DEF Since
<1>4. QED BY <1>2, <1>3 DEF Quiet

\* Time passes, and no counter lives.
LEMMA QuietTick ==
    ASSUME NEW passed \in Seq(Instants), NEW limit \in Nat, NEW now \in Nat,
           \A i \in DOMAIN passed : passed[i] <= now, Quiet(passed, limit, now)
    PROVE  Quiet(passed, limit, now + 1)
<1>1. now \in Int /\ now + 1 \in Int /\ Window \in Nat
  BY SizeAssumption
<1>2. Num(passed, now + 1, now + 1) = 0
  <2>1. \A i \in DOMAIN passed : ~(now + 1 <= passed[i] /\ passed[i] <= now + 1)
    BY EntriesAreInstants
  <2>2. QED BY <1>1, <2>1, NumNone
<1>3. ASSUME limit > 0, NEW t \in Int, (now + 1) - Window < t
      PROVE  Num(passed, t, now + 1) <= limit - 1
  <2>1. \A i \in DOMAIN passed : t <= passed[i] /\ passed[i] <= now + 1
                                   => t <= passed[i] /\ passed[i] <= now
    BY <1>1, EntriesAreInstants
  <2>2. Num(passed, t, now + 1) <= Num(passed, t, now)
    BY <1>1, <2>1, NumShrinks
  <2>3. Num(passed, t, now + 1) \in Nat /\ Num(passed, t, now) \in Nat
    BY <1>1, NumType
  <2>4. now - Window < t
    BY <1>1, <1>3
  <2>5. QED BY <1>3, <2>2, <2>3, <2>4 DEF Quiet
<1>4. QED BY <1>2, <1>3 DEF Quiet

\* A first hit is counted.
LEMMA FirstHit ==
    ASSUME NEW passed \in Seq(Instants), NEW asked \in Seq(Instants), NEW limit \in Nat,
           NEW now \in Instants, \A i \in DOMAIN passed : passed[i] <= now,
           Quiet(passed, limit, now)
    PROVE  Since(now, 1, passed, Append(asked, now), limit, now)
<1>1. now \in Nat /\ now \in Int /\ now + 1 \in Int /\ now - 1 \in Int /\ Window \in Nat
  BY SizeAssumption DEF Instants
<1>2. Num(passed, now + 1, now) = 0
  <2>1. \A i \in DOMAIN passed : ~(now + 1 <= passed[i] /\ passed[i] <= now)
    BY <1>1, EntriesAreInstants
  <2>2. QED BY <1>1, <2>1, NumNone
<1>3. ASSUME limit > 0, NEW t \in Int, now - Window < t
      PROVE  Num(passed, t, now - 1) <= limit - 1
  <2>1. \A i \in DOMAIN passed : t <= passed[i] /\ passed[i] <= now - 1
                                   => t <= passed[i] /\ passed[i] <= now
    BY <1>1, EntriesAreInstants
  <2>2. Num(passed, t, now - 1) <= Num(passed, t, now)
    BY <1>1, <2>1, NumShrinks
  <2>3. Num(passed, t, now - 1) \in Nat /\ Num(passed, t, now) \in Nat
    BY <1>1, NumType
  <2>4. QED BY <1>3, <2>2, <2>3 DEF Quiet
<1>4. 1 <= Num(Append(asked, now), now, now)
  <2>1. Num(asked, now, now) \in Nat
    BY <1>1, NumType
  <2>2. Num(Append(asked, now), now, now) = Num(asked, now, now) + 1
    BY <1>1, NumAppends
  <2>3. QED BY <2>1, <2>2
<1>5. Num(passed, now, now) = 0
  BY DEF Quiet
<1>6. QED BY <1>1, <1>2, <1>3, <1>4, <1>5 DEF Since

\* Another hit is counted.
LEMMA AnotherHit ==
    ASSUME NEW first \in Int, NEW count \in Nat, NEW passed \in Seq(Instants),
           NEW asked \in Seq(Instants), NEW limit \in Nat, NEW now \in Instants,
           Since(first, count, passed, asked, limit, now)
    PROVE  Since(first, count + 1, passed, Append(asked, now), limit, now)
<1>1. now \in Int /\ first + 1 \in Int /\ first <= now
  BY DEF Instants, Since
<1>2. Num(Append(asked, now), first, now) = Num(asked, first, now) + 1
  BY <1>1, NumAppends
<1>3. /\ Num(asked, first, now) \in Nat /\ Num(passed, first, now) \in Nat
      /\ Num(passed, first + 1, now) \in Nat
  BY <1>1, NumType
<1>4. QED BY <1>2, <1>3 DEF Since

LEMMA BoundsAdd ==
    ASSUME NEW w \in Nat, NEW x \in Nat, NEW y \in Nat, NEW z \in Nat, NEW l \in Nat,
           w <= x, x <= y + z, y <= l - 1, z <= l
    PROVE  w <= (l - 1) + l
OBVIOUS

\* The hit that has just been counted is let through.
LEMMA HitPasses ==
    ASSUME NEW first \in Int, NEW count \in Nat, NEW passed \in Seq(Instants),
           NEW asked \in Seq(Instants), NEW limit \in Nat, NEW now \in Instants,
           \A i \in DOMAIN passed : passed[i] <= now,
           Since(first, count, passed, asked, limit, now), count <= limit, count > 0,
           Num(passed, first, now) <= count - 1,
           first + 1 <= now => Num(passed, first + 1, now) <= count - 2,
           now < first + Window, Bounded(passed, limit)
    PROVE  /\ Since(first, count, Append(passed, now), asked, limit, now)
           /\ Bounded(Append(passed, now), limit)
<1> DEFINE more == Append(passed, now)
<1>1. /\ now \in Nat /\ now \in Int /\ first + 1 \in Int /\ first - 1 \in Int /\ first <= now
      /\ Window \in Nat \ {0} /\ limit > 0 /\ more \in Seq(Instants)
  BY SizeAssumption DEF Instants, Since
<1>2. ASSUME NEW a \in Int, NEW b \in Int
      PROVE  /\ Num(passed, a, b) \in Nat /\ Num(more, a, b) \in Nat
             /\ Num(more, a, b) = IF a <= now /\ now <= b THEN Num(passed, a, b) + 1
                                                          ELSE Num(passed, a, b)
  BY <1>1, NumType, NumAppends
<1>3. \A i \in DOMAIN more : more[i] \in Int /\ more[i] <= now
  <2>1. \A i \in DOMAIN more : more[i] \in Int
    BY <1>1, EntriesAreInstants
  <2>2. \A i \in DOMAIN more : more[i] <= now
    BY <1>1
  <2>3. QED BY <2>1, <2>2
<1> HIDE DEF more
<1>4. Num(more, first, now) <= count /\ Num(more, first, now) <= limit /\ Num(more, first, now) \in Nat
  <2>1. Num(passed, first, now) \in Nat /\ Num(more, first, now) \in Nat
    BY <1>1, <1>2
  <2>2. Num(more, first, now) = Num(passed, first, now) + 1
    BY <1>1, NumAppends DEF more
  <2>3. QED BY <2>1, <2>2
<1>5. Num(more, first + 1, now) <= count - 1 /\ Num(more, first + 1, now) \in Nat
  <2>1. /\ Num(more, first + 1, now) \in Nat /\ Num(passed, first + 1, now) \in Nat
        /\ Num(more, first + 1, now) = IF first + 1 <= now THEN Num(passed, first + 1, now) + 1
                                                           ELSE Num(passed, first + 1, now)
    <3>1. Num(more, first + 1, now) \in Nat /\ Num(passed, first + 1, now) \in Nat
      BY <1>1, NumType DEF more
    <3>2. QED BY <1>1, <3>1, NumAppends DEF more
  <2>2. Num(passed, first + 1, now) <= count - 1
    BY DEF Since
  <2>3. QED BY <2>1, <2>2
<1>6. ASSUME NEW t \in Int, first - Window < t
      PROVE  Num(more, t, first - 1) <= limit - 1 /\ Num(more, t, first - 1) \in Nat
  <2>1. Num(more, t, first - 1) = Num(passed, t, first - 1)
    BY <1>1, NumAppends DEF more
  <2>3. Num(more, t, first - 1) \in Nat
    BY <1>1, NumType DEF more
  <2>2. QED BY <1>1, <1>6, <2>1, <2>3 DEF Since
<1>7. count <= Num(asked, first, now)
  BY DEF Since
<1>8. Since(first, count, more, asked, limit, now)
  BY SMTT(20), <1>1, <1>4, <1>5, <1>6, <1>7 DEF Since
<1>9. ASSUME NEW t \in Int, NEW last \in Int, last = t + Window - 1
      PROVE  Num(more, t, last) <= 2 * limit - 1
  <2>1. Num(passed, t, last) \in Nat /\ Num(more, t, last) \in Nat
    BY <1>2
  <2>2. CASE ~(t <= now /\ now <= last)
    <3>1. Num(passed, t, last) <= 2 * limit - 1
      BY <1>1, <1>9 DEF Bounded
    <3>2. Num(more, t, last) = Num(passed, t, last)
      BY <1>1, <1>2, <2>2
    <3>3. QED BY <3>1, <3>2
  <2>3. CASE t <= now /\ now <= last /\ first < t
    <3>1. \A i \in DOMAIN more : t <= more[i] /\ more[i] <= last
                                   => first + 1 <= more[i] /\ more[i] <= now
      BY <1>1, <1>3, <2>3
    <3>2. Num(more, t, last) <= Num(more, first + 1, now)
      BY <1>1, <1>3, <3>1, NumShrinks DEF more
    <3>3. QED BY <1>1, <1>5, <2>1, <3>2
  <2>4. CASE t <= now /\ now <= last /\ t <= first
    <3>1. first - Window < t
      BY <1>1, <1>9, <2>4
    <3>2. Num(more, t, first - 1) <= limit - 1 /\ Num(more, t, first - 1) \in Nat
      BY <1>6, <3>1
    <3>3. \A i \in DOMAIN more : t <= more[i] /\ more[i] <= last => t <= more[i] /\ more[i] <= now
      BY <1>3
    <3>4. Num(more, t, last) <= Num(more, t, now)
      BY <1>1, <3>3, NumShrinks DEF more
    <3>5. Num(more, t, now) <= Num(more, t, first - 1) + Num(more, first, now)
      BY <1>1, NumSplits DEF more
    <3>6. Num(more, t, now) \in Nat
      BY <1>1, <1>2
    <3>7. Num(more, t, last) <= (limit - 1) + limit
      BY <1>4, <2>1, <3>2, <3>4, <3>5, <3>6, BoundsAdd
    <3>8. QED BY <3>7
  <2>5. QED BY <1>1, <2>2, <2>3, <2>4
<1>10. Bounded(more, limit)
  <2> SUFFICES ASSUME NEW t \in Int PROVE Num(more, t, t + Window - 1) <= 2 * limit - 1
    BY DEF Bounded
  <2>1. t + Window - 1 \in Int
    BY <1>1
  <2>2. QED BY <1>9, <2>1
<1>11. QED BY <1>8, <1>10 DEF more

-----------------------------------------------------------------------------
(* What the steps do to the counters *)

LEMMA MeteredInit ==
    ASSUME NEW limit \in Nat
    PROVE  Metered(Unused, <<>>, <<>>, limit, 0)
<1>1. <<>> \in Seq(Instants) /\ Window \in Nat \ {0}
  BY SizeAssumption
<1>2. ASSUME NEW a \in Int, NEW b \in Int PROVE Num(<<>>, a, b) = 0
  <2>1. \A i \in DOMAIN <<>> : FALSE
    OBVIOUS
  <2> HIDE DEF Within
  <2>2. QED BY <1>1, <2>1, NumNone
<1>3. Bounded(<<>>, limit)
  <2> SUFFICES ASSUME limit > 0, NEW t \in Int
               PROVE  Num(<<>>, t, t + Window - 1) <= 2 * limit - 1
    BY DEF Bounded
  <2>1. t + Window - 1 \in Int
    BY <1>1
  <2>2. Num(<<>>, t, t + Window - 1) = 0
    BY <1>2, <2>1
  <2>3. QED BY <2>2
<1>4. Quiet(<<>>, limit, 0)
  BY <1>2 DEF Quiet
<1>5. Unused.count = 0
  BY DEF Unused
<1>6. QED BY <1>3, <1>4, <1>5 DEF Metered

LEMMA MeteredTick ==
    ASSUME NEW c \in Meter, NEW passed \in Seq(Instants), NEW asked \in Seq(Instants),
           NEW limit \in Nat, NEW now \in Nat, Metered(c, passed, asked, limit, now)
    PROVE  Metered(IF c.until <= now + 1 THEN Unused ELSE c, passed, asked, limit, now + 1)
<1>1. /\ \A i \in DOMAIN passed : passed[i] <= now
      /\ \A i \in DOMAIN passed : passed[i] <= now + 1
      /\ Bounded(passed, limit)
  BY EntriesAreInstants DEF Metered
<1>2. Unused.count = 0 /\ Unused.until = 0
  BY DEF Unused
<1>3. CASE c.count = 0
  <2>1. c = Unused /\ Quiet(passed, limit, now)
    BY <1>3 DEF Metered
  <2>2. Quiet(passed, limit, now + 1)
    BY <1>1, <2>1, QuietTick
  <2>3. QED BY <1>1, <1>2, <2>1, <2>2 DEF Metered
<1>4. CASE c.count # 0
  <2> DEFINE first == c.until - Window
  <2>1. c.count \in Nat /\ c.count > 0 /\ c.until \in Nat /\ first \in Int /\ Window \in Nat
    BY <1>4, SizeAssumption DEF Meter
  <2>2. now < c.until /\ Since(first, c.count, passed, asked, limit, now)
    BY <2>1 DEF Metered
  <2>3. CASE c.until <= now + 1
    <3>1. now + 1 = first + Window
      BY <2>1, <2>2, <2>3
    <3>2. Quiet(passed, limit, now + 1)
      <4> HIDE DEF first
      <4>1. QED BY <1>1, <2>1, <2>2, <3>1, SinceExpires
    <3>3. QED BY <1>1, <1>2, <2>3, <3>2 DEF Metered
  <2>4. CASE ~(c.until <= now + 1)
    <3>1. Since(first, c.count, passed, asked, limit, now + 1)
      <4> HIDE DEF first
      <4>1. QED BY <1>1, <2>1, <2>2, SinceTick
    <3>2. now + 1 < c.until
      BY <2>1, <2>4
    <3>3. QED BY <1>1, <1>4, <2>4, <3>1, <3>2 DEF Metered
  <2>5. QED BY <2>3, <2>4
<1>5. QED BY <1>3, <1>4

\* What a hit makes of a counter.
Counted(c, now) ==
    IF c.count = 0 THEN [count |-> 1, until |-> now + Window] ELSE [c EXCEPT !.count = c.count + 1]

\* A hit is counted; the request is let through only if the limit is not exceeded.
LEMMA MeteredHit ==
    ASSUME NEW c \in Meter, NEW passed \in Seq(Instants), NEW asked \in Seq(Instants),
           NEW limit \in Nat, NEW now \in Instants, Metered(c, passed, asked, limit, now)
    PROVE  /\ Metered(Counted(c, now), passed, Append(asked, now), limit, now)
           /\ Counted(c, now).count <= limit =>
                Metered(Counted(c, now), Append(passed, now), Append(asked, now), limit, now)
<1> DEFINE h == Counted(c, now)
           first == h.until - Window
           most == h.count
           more == Append(asked, now)
<1>1. /\ \A i \in DOMAIN passed : passed[i] <= now
      /\ \A i \in DOMAIN Append(passed, now) : Append(passed, now)[i] <= now
      /\ Bounded(passed, limit)
  BY DEF Metered, Instants
<1>2. /\ now \in Nat /\ now \in Int /\ Window \in Nat \ {0} /\ c.until \in Nat /\ c.count \in Nat
      /\ h.count \in Nat /\ h.count > 0 /\ h.until \in Nat /\ first \in Int /\ more \in Seq(Instants)
  BY SMTT(20), SizeAssumption DEF Instants, Meter, Counted
<1>3. /\ Since(first, most, passed, more, limit, now) /\ now < h.until
      /\ Num(passed, first, now) <= most - 1
      /\ first + 1 <= now => Num(passed, first + 1, now) <= most - 2
  <2>1. CASE c.count = 0
    <3>1. most = 1 /\ first = now /\ now < h.until
      BY <1>2, <2>1 DEF Counted
    <3>2. Quiet(passed, limit, now)
      BY <2>1 DEF Metered
    <3>3. Since(now, 1, passed, more, limit, now)
      BY <1>1, <3>2, FirstHit
    <3>4. Num(passed, now, now) = 0
      BY <3>2 DEF Quiet
    <3> HIDE DEF h, first, most, more
    <3>5. QED BY <1>2, <3>1, <3>3, <3>4
  <2>2. CASE c.count # 0
    <3> DEFINE began == c.until - Window
               old == c.count
    <3>1. most = old + 1 /\ h.until = c.until /\ first = began /\ began \in Int /\ old \in Nat
      BY <1>2, <2>2 DEF Counted, Meter
    <3>2. now < c.until /\ Since(began, old, passed, asked, limit, now)
      BY <1>2, <2>2 DEF Metered
    <3> HIDE DEF h, first, most, more, began, old
    <3>3. Since(began, old + 1, passed, more, limit, now)
      BY <3>1, <3>2, AnotherHit DEF more
    <3>4. Num(passed, began, now) <= old /\ Num(passed, began + 1, now) <= old - 1
      BY <3>2 DEF Since
    <3>5. Num(passed, began, now) \in Nat /\ Num(passed, began + 1, now) \in Nat
      <4>1. began + 1 \in Int
        BY <3>1
      <4>2. QED BY <1>2, <3>1, <4>1, NumType
    <3>6. Num(passed, began, now) <= (old + 1) - 1 /\ Num(passed, began + 1, now) <= (old + 1) - 2
      BY <3>1, <3>4, <3>5
    <3>7. QED BY <3>1, <3>2, <3>3, <3>6
  <2>3. QED BY <2>1, <2>2
<1>4. now < first + Window
  BY <1>2, <1>3
<1>5. Metered(h, passed, more, limit, now)
  BY <1>1, <1>2, <1>3 DEF Metered
<1>6. ASSUME most <= limit
      PROVE  Metered(h, Append(passed, now), more, limit, now)
  <2>1. /\ Since(first, most, Append(passed, now), more, limit, now)
        /\ Bounded(Append(passed, now), limit)
    <3> HIDE DEF h, first, most, more
    <3>1. most \in Nat /\ most > 0
      BY <1>2 DEF most
    <3>2. QED BY <1>1, <1>2, <1>3, <1>4, <1>6, <3>1, HitPasses
  <2>2. QED BY SMTT(20), <1>1, <1>2, <1>3, <2>1 DEF Metered
<1>7. QED BY <1>5, <1>6

\* A hit that Redis has not counted.
LEMMA MeteredAsked ==
    ASSUME NEW c \in Meter, NEW passed \in Seq(Instants), NEW asked \in Seq(Instants),
           NEW limit \in Nat, NEW now \in Instants, Metered(c, passed, asked, limit, now)
    PROVE  Metered(c, passed, Append(asked, now), limit, now)
<1>1. CASE c.count = 0
  BY <1>1 DEF Metered
<1>2. CASE c.count # 0
  <2> DEFINE first == c.until - Window
             count == c.count
  <2>1. count \in Nat /\ first \in Int /\ count > 0
    BY <1>2, SizeAssumption DEF Meter
  <2>2. now < c.until /\ Since(first, count, passed, asked, limit, now)
    BY <1>2, <2>1 DEF Metered
  <2>3. Since(first, count, passed, Append(asked, now), limit, now)
    <3> HIDE DEF first, count
    <3>1. now \in Int /\ first <= now
      BY <2>2 DEF Instants, Since
    <3>2. Num(Append(asked, now), first, now) = Num(asked, first, now) + 1
      BY <2>1, <3>1, NumAppends
    <3>3. Num(asked, first, now) \in Nat
      BY <2>1, <3>1, NumType
    <3>4. count <= Num(Append(asked, now), first, now)
      BY <2>1, <2>2, <3>2, <3>3 DEF Since
    <3>5. QED BY <2>2, <3>4 DEF Since
  <2>4. QED BY <1>2, <2>2, <2>3 DEF Metered
<1>3. QED BY <1>1, <1>2

\* Who touches the counters.
LEMMA WhoCounts ==
    ASSUME [Next]_vars
    PROVE  \/ UNCHANGED <<counter, hits, admitted, clock>>
           \/ Tick
           \/ \E r \in Requests : Limiter(r) \/ LimiterFails(r)
<1>1. ASSUME NEW p \in Procs, Boot(p) \/ MainStep(p) \/ Signal(p) \/ ListenerFails(p)
      PROVE  UNCHANGED <<counter, hits, admitted, clock>>
  BY <1>1 DEF Boot, MainStep, Signal, ListenerFails, NewPool, NewClient, NewMiddlewares, Drained,
         Deadline, ClosePool, PoolClosed, CloseRedis, MainReturns, At, history
<1>2. ASSUME NEW r \in Requests, Arrive(r) \/ HandlerStep(r) \/ Acquire(r)
      PROVE  UNCHANGED <<counter, hits, admitted, clock>> \/ Limiter(r) \/ LimiterFails(r)
  BY <1>2 DEF Arrive, HandlerStep, Acquire, Authenticate, AcquireFails, QueryDone, QueryFails,
         Respond, In, history
<1>3. QED BY <1>1, <1>2 DEF Next, vars

LEMMA LimitOfKey == \A k \in Keys : Limit[k[1]] \in Nat
BY LimitAssumption DEF Keys

LEMMA TablesNow ==
    ASSUME IInv, NEW k \in Keys
    PROVE  /\ counter[k] \in Meter /\ admitted[k] \in Seq(Instants) /\ hits[k] \in Seq(Instants)
           /\ clock \in Instants /\ clock \in Nat
<1>1. counter[k] \in [count: Nat, until: 0..(MaxClock + Window)]
  BY DEF IInv, TypeOK
<1>2. QED BY <1>1, SizeAssumption DEF IInv, TypeOK, Meter, Instants

LEMMA QuotaInit == Init => QuotaInv
<1> SUFFICES ASSUME Init, NEW k \in Keys
             PROVE  Metered(counter[k], admitted[k], hits[k], Limit[k[1]], clock)
  BY DEF QuotaInv
<1>1. counter[k] = Unused /\ admitted[k] = <<>> /\ hits[k] = <<>> /\ clock = 0
  BY DEF Init
<1>2. QED BY <1>1, LimitOfKey, MeteredInit

\* The counter of the request, and no other.
LEMMA LimiterCounts ==
    ASSUME IInv, QuotaInv, NEW r \in Requests, Limiter(r) \/ LimiterFails(r)
    PROVE  QuotaInv'
<1> DEFINE k == req[r].key
           limit == Limit[k[1]]
<1>1. req[r].at = "limiter" /\ clock' = clock
  BY DEF Limiter, LimiterFails, In
<1>2. k \in Keys
  BY <1>1, RequestNow DEF Served
<1>3. /\ Hit(k) = Counted(counter[k], clock)
      /\ counter' = counter \/ counter' = [counter EXCEPT ![k] = Hit(k)]
  BY DEF Limiter, LimiterFails, LimiterKey, Hit, Counted
<1>4. hits' = Tally(hits, k) /\ (admitted' = admitted \/ admitted' = Tally(admitted, k))
  BY DEF Limiter, LimiterFails, Pass
<1> HIDE DEF k
<1>5. ASSUME NEW x \in Keys, x # k
      PROVE  counter'[x] = counter[x] /\ hits'[x] = hits[x] /\ admitted'[x] = admitted[x]
  BY <1>2, <1>3, <1>4, <1>5 DEF Tally, IInv, TypeOK
<1>6. hits'[k] = Append(hits[k], clock)
  BY <1>2, <1>4 DEF Tally, IInv, TypeOK
<1>7. /\ counter[k] \in Meter /\ admitted[k] \in Seq(Instants) /\ hits[k] \in Seq(Instants)
      /\ clock \in Instants /\ limit \in Nat
      /\ Metered(counter[k], admitted[k], hits[k], limit, clock)
  BY <1>2, TablesNow, LimitOfKey DEF QuotaInv
<1>8. Metered(counter'[k], admitted'[k], hits'[k], limit, clock)
  <2>1. CASE Limiter(r)
    <3>1. counter'[k] = Counted(counter[k], clock)
      BY <1>2, <1>3, <2>1 DEF Limiter, LimiterKey, IInv, TypeOK, k
    <3>2. \/ admitted'[k] = admitted[k]
          \/ admitted'[k] = Append(admitted[k], clock) /\ Counted(counter[k], clock).count <= limit
      <4>1. \/ admitted' = admitted
            \/ admitted' = Tally(admitted, k) /\ Counted(counter[k], clock).count <= limit
        BY <1>3, <2>1 DEF Limiter, LimiterKey, Pass, k
      <4>2. QED BY <1>2, <4>1 DEF Tally, IInv, TypeOK
    <3>3. QED BY <1>6, <1>7, <3>1, <3>2, MeteredHit
  <2>2. CASE LimiterFails(r)
    <3>1. admitted'[k] = admitted[k]
      BY <2>2 DEF LimiterFails
    <3>2. counter'[k] = counter[k] \/ counter'[k] = Counted(counter[k], clock)
      BY <1>2, <1>3 DEF IInv, TypeOK
    <3>3. CASE counter'[k] = Counted(counter[k], clock)
      BY <1>6, <1>7, <3>1, <3>3, MeteredHit
    <3>4. CASE counter'[k] = counter[k]
      <4>1. Metered(counter[k], admitted[k], Append(hits[k], clock), limit, clock)
        BY <1>7, MeteredAsked
      <4>2. QED BY <1>6, <3>1, <3>4, <4>1
    <3>5. QED BY <3>2, <3>3, <3>4
  <2>3. QED BY <2>1, <2>2
<1>9. QED
  <2> SUFFICES ASSUME NEW x \in Keys
               PROVE  Metered(counter'[x], admitted'[x], hits'[x], Limit[x[1]], clock')
    BY DEF QuotaInv
  <2>1. CASE x = k
    BY <1>1, <1>8, <2>1
  <2>2. CASE x # k
    BY <1>1, <1>5, <2>2 DEF QuotaInv
  <2>3. QED BY <2>1, <2>2

LEMMA QuotaNext == IInv /\ QuotaInv /\ [Next]_vars => QuotaInv'
<1> SUFFICES ASSUME IInv, QuotaInv, [Next]_vars PROVE QuotaInv'
  OBVIOUS
<1>1. CASE UNCHANGED <<counter, hits, admitted, clock>>
  BY <1>1 DEF QuotaInv
<1>2. CASE Tick
  <2> SUFFICES ASSUME NEW k \in Keys
               PROVE  Metered(counter'[k], admitted'[k], hits'[k], Limit[k[1]], clock')
    BY DEF QuotaInv
  <2>1. /\ counter'[k] = IF counter[k].until <= clock + 1 THEN Unused ELSE counter[k]
        /\ clock' = clock + 1 /\ admitted' = admitted /\ hits' = hits
    BY <1>2 DEF Tick, history
  <2>2. /\ counter[k] \in Meter /\ admitted[k] \in Seq(Instants) /\ hits[k] \in Seq(Instants)
        /\ clock \in Nat /\ Limit[k[1]] \in Nat
        /\ Metered(counter[k], admitted[k], hits[k], Limit[k[1]], clock)
    BY TablesNow, LimitOfKey DEF QuotaInv
  <2>3. QED BY <2>1, <2>2, MeteredTick
<1>3. CASE \E r \in Requests : Limiter(r) \/ LimiterFails(r)
  BY <1>3, LimiterCounts
<1>4. QED BY <1>1, <1>2, <1>3, WhoCounts

LEMMA QuotaInvariant == Spec => []QuotaInv
<1>1. QED BY QuotaInit, QuotaNext, Invariant, PTL DEF Spec

-----------------------------------------------------------------------------
(* What follows *)

\* Processes, requests, counters and the history are well typed.
THEOREM TypeCorrect == Spec => []TypeOK
<1>1. IInv => TypeOK
  BY DEF IInv
<1>2. QED BY <1>1, Invariant, PTL

\* However a start fails and whenever a process is stopped, main leaves nothing open, and
\* no request meets a client that was never opened.
THEOREM ResourcesAreSound == Spec => []ResourcesSound
<1>1. IInv => ResourcesSound
  <2> SUFFICES ASSUME IInv PROVE ResourcesSound
    OBVIOUS
  <2>1. ASSUME NEW p \in Procs, proc[p].at \in {"failed", "stopped"}
        PROVE  {proc[p].pool, proc[p].redis} \subseteq {"none", "closed"}
    BY <2>1, ServiceOKNow DEF ServiceOK
  <2>2. ASSUME NEW p \in Procs, proc[p].at \in {"serving", "Shutdown"}
        PROVE  /\ proc[p].pool = "open"
               /\ proc[p].config.routeCache \/ proc[p].config.rateLimit => proc[p].redis = "open"
    BY <2>2, ServiceOKNow DEF ServiceOK, Ended, Valid
  <2>3. ASSUME NEW r \in Requests, req[r].at = "limiter"
        PROVE  proc[req[r].in].redis # "none"
    <3>1. Served(req[r], proc[req[r].in]) /\ ServiceOK(proc[req[r].in])
      BY <2>3, RequestNow
    <3>2. proc[req[r].in].config \in Config /\ proc[req[r].in].config.redis
      BY <2>3, <3>1, ConfigAssumption DEF Served, ServiceOK, Ended, Valid
    <3>3. QED BY <2>3, <3>1, <3>2 DEF Served, ServiceOK
  <2>4. QED BY <2>1, <2>2, <2>3 DEF ResourcesSound
<1>2. QED BY <1>1, Invariant, PTL

\* A request is harmed by the end of its process only if it has outlasted the 30 seconds
\* of Shutdown, or the process was killed.
THEOREM StopsAreGraceful == Spec => []GracefulStop
<1>1. IInv => GracefulStop
  BY ServiceOKNow DEF ServiceOK, GracefulStop
<1>2. QED BY <1>1, Invariant, PTL

\* A pool is never exceeded, and closes under no statement.
THEOREM ConnectionsAreKept == Spec => []StatementsKeepTheirConnection
<1>1. IInv /\ PoolKept => StatementsKeepTheirConnection
  <2> SUFFICES ASSUME IInv, PoolKept, NEW p \in Procs, Holders(p) # {}
               PROVE  /\ proc[p].pool \in {"open", "closing"}
                      /\ proc[p].at \in {"serving", "Shutdown", "Close"}
    BY DEF StatementsKeepTheirConnection, PoolKept
  <2>1. PICK r \in Requests : req[r].at = "query" /\ req[r].in = p
    BY DEF Holders, InProcess
  <2>2. Served(req[r], proc[p]) /\ ServiceOK(proc[p])
    BY <2>1, RequestNow
  <2>3. QED BY <2>1, <2>2 DEF Served, ServiceOK
<1>2. Spec => []PoolKept
  BY PoolInit, PoolNext, Invariant, PTL DEF Spec
<1>3. QED BY <1>1, <1>2, Invariant, PTL

\* However many processes and requests race, and whether Redis answers or fails before or
\* after it counts, as long as it keeps its counters: a client gets no more than the limit
\* of an endpoint past its limiter while a counter lives, and less than twice the limit in
\* any period of that length.
THEOREM QuotasAreKept == Spec => []QuotaKept
<1>1. IInv /\ QuotaInv => QuotaKept
  <2> SUFFICES ASSUME IInv, QuotaInv, NEW k \in Keys
               PROVE  /\ counter[k].count > 0 =>
                           During(admitted, k, counter[k].until - Window, clock) <= Limit[k[1]]
                      /\ Limit[k[1]] > 0 => \A t \in Instants :
                           During(admitted, k, t, t + Window - 1) <= 2 * Limit[k[1]] - 1
    BY DEF QuotaKept
  <2>1. Metered(counter[k], admitted[k], hits[k], Limit[k[1]], clock)
    BY DEF QuotaInv
  <2>2. ASSUME counter[k].count > 0
        PROVE  During(admitted, k, counter[k].until - Window, clock) <= Limit[k[1]]
    BY <2>1, <2>2, DuringIsNum DEF Metered, Since
  <2>3. ASSUME Limit[k[1]] > 0, NEW t \in Instants
        PROVE  During(admitted, k, t, t + Window - 1) <= 2 * Limit[k[1]] - 1
    <3>1. t \in Int
      BY DEF Instants
    <3>2. Num(admitted[k], t, t + Window - 1) <= 2 * Limit[k[1]] - 1
      BY <2>1, <2>3, <3>1 DEF Metered, Bounded
    <3>3. QED BY <3>2, DuringIsNum
  <2>4. QED BY <2>2, <2>3
<1>2. QED BY <1>1, Invariant, QuotaInvariant, PTL

\* Only a limiter that has counted more than its limit answers 429.
LEMMA WhoRejects ==
    ASSUME IInv, [Next]_vars, NEW r \in Requests, req[r].status # 429, req'[r].status = 429
    PROVE  /\ req[r].at = "limiter" /\ Limiter(r) /\ Hit(req[r].key).count > Limit[req[r].key[1]]
           /\ req[r].key \in Keys
<1>1. req \in [Requests -> Request] /\ NoRequest.status = 0
  BY DEF IInv, TypeOK, NoRequest
<1>2. ASSUME NEW q \in Requests, NEW new, Continue(q, new), q # r \/ new.status # 429
      PROVE  FALSE
  BY <1>1, <1>2 DEF Continue
<1>3. ASSUME NEW q \in Requests, NEW status, Answer(q, status)
      PROVE  q = r /\ status = 429
  <2>1. Answering(req[q], status).status = status
    BY <1>1 DEF Answering, Request
  <2>2. Continue(q, Answering(req[q], status))
    BY <1>3 DEF Answer, Answering
  <2>3. QED BY <1>2, <2>1, <2>2
<1>4. ASSUME NEW p \in Procs, Boot(p) \/ MainStep(p) \/ Signal(p) \/ ListenerFails(p)
      PROVE  FALSE
  <2>1. UNCHANGED req \/ Exit(p, "killed") \/ Exit(p, "stopped")
    BY <1>4 DEF Boot, MainStep, Signal, ListenerFails, NewPool, NewClient, NewMiddlewares, Drained,
           Deadline, ClosePool, PoolClosed, CloseRedis, MainReturns
  <2>2. QED BY <1>1, <2>1 DEF Exit
<1>5. ASSUME NEW q \in Requests, req[q].at # "idle", Continue(q, [req[q] EXCEPT !.at = "acquire"])
      PROVE  FALSE
  <2> DEFINE new == [req[q] EXCEPT !.at = "acquire"]
  <2>1. new.status = req[q].status /\ Continue(q, new)
    BY <1>1, <1>5 DEF Request
  <2> HIDE DEF new
  <2>2. q # r \/ new.status # 429
    BY <2>1
  <2>3. QED BY <1>2, <2>1, <2>2
<1>6. ASSUME NEW q \in Requests, Arrive(q) \/ HandlerStep(q) \/ Acquire(q)
      PROVE  q = r /\ Limiter(r) /\ Answer(r, 429)
  <2>1. CASE Arrive(q)
    <3>1. PICK p \in Procs, k \in Keys :
            /\ proc[p].at = "serving"
            /\ \/ Continue(q, Entering(Arriving(p, k)))
               \/ Continue(q, Arriving(p, k))
               \/ Continue(q, Refused(p, k))
      BY <2>1, ArriveWith
    <3>2. /\ Arriving(p, k) \in Request /\ Arriving(p, k).in = p
          /\ Served(Arriving(p, k), proc[p]) /\ Arriving(p, k).status = 0
      BY <3>1, ArrivingIsServed DEF Arriving
    <3>3. Entering(Arriving(p, k)).status = 0
      BY <3>2, EnterIsServed
    <3>4. Refused(p, k).status = 401
      BY <3>1, RefusedIsServed
    <3>5. QED BY <1>2, <3>1, <3>2, <3>3, <3>4
  <2>2. CASE LimiterFails(q) \/ AcquireFails(q) \/ QueryFails(q)
    BY <1>3, <2>2 DEF LimiterFails, AcquireFails, QueryFails
  <2>3. CASE QueryDone(q)
    <3> DEFINE a == [req[q] EXCEPT !.at = "acquire"]
               new == [a EXCEPT !.left = req[q].left - 1]
    <3>1. Answer(q, 200) \/ Continue(q, new)
      BY <1>1, <2>3 DEF QueryDone, Request
    <3>2. new.status = req[q].status
      BY <1>1 DEF Request
    <3> HIDE DEF new
    <3>3. QED BY <1>2, <1>3, <3>1, <3>2
  <2>4. CASE Respond(q)
    BY <1>1, <1>2, <2>4 DEF Respond
  <2>5. CASE Acquire(q)
    <3> DEFINE new == [req[q] EXCEPT !.at = "query"]
    <3>1. new.status = req[q].status
      BY <1>1 DEF Request
    <3>2. Continue(q, new)
      BY <2>5 DEF Acquire
    <3> HIDE DEF new
    <3>3. q # r \/ new.status # 429
      BY <3>1
    <3>4. QED BY <1>2, <3>2, <3>3
  <2>6. CASE Limiter(q)
    <3>1. Pass(q) \/ Answer(q, 429)
      BY <2>6 DEF Limiter
    <3>2. ~Pass(q)
      BY <1>5, <2>6 DEF Pass, Limiter, In
    <3>3. q = r
      BY <1>3, <3>1, <3>2
    <3>4. QED BY <2>6, <3>1, <3>2, <3>3
  <2>7. CASE Authenticate(q)
    <3>1. req[q].at # "idle" /\ (Answer(q, 401) \/ Continue(q, Entering(req[q])))
      BY <2>7 DEF Authenticate, In, Enter, Entering
    <3>2. req[q] \in Request /\ Served(req[q], proc[req[q].in])
      BY <3>1, RequestNow
    <3>3. Entering(req[q]).status = req[q].status
      BY <3>2, EnterIsServed
    <3>4. q # r \/ Entering(req[q]).status # 429
      BY <3>3
    <3>5. QED BY <1>2, <1>3, <3>1, <3>4
  <2>8. QED BY <1>6, <2>1, <2>2, <2>3, <2>4, <2>5, <2>6, <2>7 DEF HandlerStep
<1>7. ASSUME Tick \/ UNCHANGED vars PROVE FALSE
  BY <1>7 DEF Tick, vars
<1>8. Limiter(r) /\ Answer(r, 429)
  <2>1. CASE \E p \in Procs : Boot(p) \/ MainStep(p) \/ Signal(p) \/ ListenerFails(p)
    BY <1>4, <2>1
  <2>2. CASE \E q \in Requests : Arrive(q) \/ HandlerStep(q) \/ Acquire(q)
    BY <1>6, <2>2
  <2>3. QED BY <1>7, <2>1, <2>2 DEF Next
<1>9. ~Pass(r)
  BY <1>5, <1>8 DEF Pass, Limiter, In
<1>10. req[r].at = "limiter" /\ req[r].key \in Keys
  <2>1. req[r].at = "limiter"
    BY <1>8 DEF Limiter, In
  <2>2. QED BY <2>1, RequestNow DEF Served
<1>11. Hit(req[r].key).count > Limit[req[r].key[1]]
  <2>1. Hit(req[r].key) \in [count: Nat, until: 0..(MaxClock + Window)] /\ Limit[req[r].key[1]] \in Nat
    BY <1>10, HitTypes, LimitOfKey DEF IInv
  <2>2. ~(Hit(req[r].key).count <= Limit[req[r].key[1]])
    BY <1>8, <1>9 DEF Limiter, LimiterKey
  <2>3. QED BY <2>1, <2>2
<1>12. QED BY <1>8, <1>10, <1>11

\* Whoever gets a 429 has itself asked for this endpoint more often than its limit allows,
\* within the last period: neither other addresses nor other endpoints count.
THEOREM RejectionsAreDeserved == Spec => RejectedForOwnHits
<1> DEFINE Deserved ==
             \A r \in Requests : req[r].status # 429 /\ req'[r].status = 429 =>
               LET k == req[r].key
               IN During(hits', k, (clock + 1) - Window, clock) > Limit[k[1]]
<1>1. IInv /\ QuotaInv' /\ IInv' /\ [Next]_vars => Deserved
  <2> SUFFICES ASSUME IInv, QuotaInv', IInv', [Next]_vars, NEW r \in Requests,
                      req[r].status # 429, req'[r].status = 429
               PROVE  During(hits', req[r].key, (clock + 1) - Window, clock) > Limit[req[r].key[1]]
    OBVIOUS
  <2> DEFINE k == req[r].key
             limit == Limit[k[1]]
             c == counter'[k]
             asked == hits'[k]
  <2>1. Limiter(r) /\ Hit(k).count > limit /\ k \in Keys
    BY WhoRejects
  <2>2. c = Hit(k) /\ clock' = clock
    BY <2>1 DEF Limiter, LimiterKey, In, IInv, TypeOK
  <2>3. /\ c \in [count: Nat, until: 0..(MaxClock + Window)] /\ limit \in Nat
        /\ asked \in Seq(Instants) /\ clock \in 0..MaxClock
    BY <2>1, LimitOfKey DEF IInv, TypeOK, Instants
  <2> DEFINE first == c.until - Window
             after == (clock + 1) - Window
  <2>4. first \in Int /\ c.count \in Nat /\ c.until \in Int /\ clock \in Int /\ after \in Int /\ Window \in Nat
    BY <2>3, SizeAssumption
  <2>5. Metered(c, admitted'[k], asked, limit, clock)
    BY <2>1, <2>2 DEF QuotaInv
  <2>6. c.count > limit
    BY <2>1, <2>2
  <2>7. clock < c.until /\ c.count <= Num(asked, first, clock)
    BY <2>3, <2>4, <2>5, <2>6 DEF Metered, Since
  <2>8. after <= first
    BY <2>4, <2>7
  <2> HIDE DEF first, after, asked, limit, c
  <2>9. Num(asked, first, clock) <= Num(asked, after, clock)
    BY <2>3, <2>4, <2>8, NumEarlier
  <2>10. Num(asked, first, clock) \in Nat /\ Num(asked, after, clock) \in Nat
    BY <2>3, <2>4, NumType
  <2>11. Num(asked, after, clock) > limit
    BY <2>3, <2>4, <2>6, <2>7, <2>9, <2>10
  <2>12. QED BY <2>11, DuringIsNum DEF after, asked, limit
<1>2. IInv /\ QuotaInv' /\ IInv' /\ [Next]_vars => [Deserved]_vars
  BY <1>1
<1>3. QED BY <1>2, Invariant, QuotaInvariant, PTL DEF Spec, RejectedForOwnHits

=============================================================================
