------------------------- MODULE RiskRegistryProofs -------------------------
(***************************************************************************)
(* What RiskModels guarantees, for any number of programs and models and   *)
(* whatever fails: what the API can rely on, what finalize publishes, and  *)
(* the scores and runs of models that two programs have not worked on at   *)
(* the same time.                                                          *)
(***************************************************************************)
EXTENDS RiskModelsProofs

\* What is true of the tables while a program is at a statement.  The last one is
\* what the unique index has established, and nobody may change it before the
\* commit: only one activation is ever about to commit.
Activating == {"Deactivate", "DeactivateRows", "Activate", "CommitActivation"}
Placed(c) ==
    /\ c.pc \in Scoring => c.target \in Stored
    /\ c.pc \in Activating => c.target \in Stored /\ scores[c.target] # None
    /\ c.pc = "CommitActivation" => ActiveModels \subseteq c.seen \cup {c.target}

ScoredIsStored == \A m \in Models : scores[m] # None => m \in Stored
AllPlaced == \A p \in Programs : Placed(prog[p])
OneCommits ==
    \A p, q \in Programs :
        prog[p].pc = "CommitActivation" /\ prog[q].pc = "CommitActivation" => p = q

RegistryInv ==
    OneActive /\ ActiveIsScored /\ ScoredIsStored /\ AllPlaced /\ OneCommits

LEMMA RegistryInit == Init => RegistryInv
BY DEF Init, RegistryInv, OneActive, ActiveIsScored, ScoredIsStored, AllPlaced, OneCommits,
       ActiveModels, Stored, Placed, NoProgram, Scoring, Activating

\* Steps that change no table that the registry is about.
TablesKept ==
    /\ Stored' = Stored /\ ActiveModels' = ActiveModels
    /\ models' = models /\ scores' = scores

\* A program moves by itself: the others are where they were.  What it carries is
\* known to be a program, because typing has been proved.
LEMMA GotoFacts ==
    ASSUME TypeInv, TypeInv', NEW p \in Programs, NEW c, NEW label, Goto(p, c, label)
    PROVE  /\ \A q \in Programs : q # p => prog'[q] = prog[q]
           /\ prog'[p].pc = label
           /\ prog'[p].target = c.target
           /\ prog'[p].seen = c.seen
<1> DEFINE d == [c EXCEPT !.pc = label]
<1>1. prog' = [prog EXCEPT ![p] = d] BY DEF Goto
<1>2. d \in Program BY <1>1 DEF TypeInv, TypeOK
<1>3. "pc" \in DOMAIN d /\ "target" \in DOMAIN d /\ "seen" \in DOMAIN d
  BY <1>2 DEF Program
<1>4. d.pc = label /\ d.target = c.target /\ d.seen = c.seen BY <1>3
<1> HIDE DEF d
<1> QED BY <1>1, <1>4 DEF TypeInv, TypeOK

LEMMA ExitFacts ==
    ASSUME TypeInv, NEW p \in Programs, Stopped(p)
    PROVE  /\ \A q \in Programs : q # p => prog'[q] = prog[q]
           /\ prog'[p].pc = "idle"
<1>1. prog' = [prog EXCEPT ![p] = NoProgram] BY DEF Stopped
<1>2. NoProgram.pc = "idle" BY DEF NoProgram
<1> QED BY <1>1, <1>2 DEF TypeInv, TypeOK

\* The invariant survives when one program goes to a label that promises nothing.
Promising == Scoring \cup Activating
LEMMA KeptByTheOthers ==
    ASSUME TypeInv, RegistryInv, NEW p \in Programs,
           ActiveModels' = ActiveModels, Stored \subseteq Stored', ScoredIsStored',
           \A m \in Models : scores[m] # None => scores'[m] # None,
           \A q \in Programs : q # p => prog'[q] = prog[q],
           Placed(prog[p])',
           prog'[p].pc = "CommitActivation" =>
              \A q \in Programs : q # p => prog[q].pc # "CommitActivation"
    PROVE  RegistryInv'
<1>1. OneActive' BY DEF RegistryInv, OneActive
<1>2. ActiveIsScored'
  BY DEF RegistryInv, ActiveIsScored, ActiveModels, Stored, TypeInv, TypeOK
<1>3. ASSUME NEW q \in Programs PROVE Placed(prog[q])'
  <2>1. CASE q = p BY <2>1
  <2>2. CASE q # p
    <3>1. Placed(prog[q]) /\ prog'[q] = prog[q] BY <2>2 DEF RegistryInv, AllPlaced
    <3>2. prog[q].pc \in Activating => prog[q].target \in Models
      BY DEF TypeInv, Known, Fits, Activating
    <3> QED BY <3>1, <3>2 DEF Placed
  <2> QED BY <2>1, <2>2
<1>4. OneCommits' BY DEF RegistryInv, OneCommits
<1> QED BY <1>1, <1>2, <1>3, <1>4 DEF RegistryInv, AllPlaced

\* A program that goes where nothing is promised, or ends.
LEMMA PromisesNothing ==
    ASSUME TypeInv, TypeInv', RegistryInv, NEW p \in Programs,
           models' = models, scores' = scores,
           \/ Stopped(p)
           \/ \E c, label : Goto(p, c, label) /\ label \notin Promising
    PROVE  RegistryInv'
<1>1. /\ \A q \in Programs : q # p => prog'[q] = prog[q]
      /\ prog'[p].pc \notin Promising
  <2>1. CASE Stopped(p) BY <2>1, ExitFacts DEF Promising, Scoring, Activating
  <2>2. ASSUME NEW c, NEW label, Goto(p, c, label), label \notin Promising
        PROVE  /\ \A q \in Programs : q # p => prog'[q] = prog[q]
               /\ prog'[p].pc \notin Promising
    BY <2>2, GotoFacts
  <2> QED BY <2>1, <2>2
<1>2. ActiveModels' = ActiveModels /\ Stored' = Stored BY DEF ActiveModels, Stored
<1>3. Placed(prog[p])' BY <1>1 DEF Placed, Promising, Scoring, Activating
<1>4. prog'[p].pc # "CommitActivation" BY <1>1 DEF Promising, Activating
<1>5. ScoredIsStored' BY <1>2 DEF RegistryInv, ScoredIsStored
<1> QED BY <1>1, <1>2, <1>3, <1>4, <1>5, KeptByTheOthers

\* The steps after which the program promises nothing.
LEMMA QuietSteps ==
    ASSUME TypeInv, TypeInv', RegistryInv, NEW p \in Programs,
           \/ ComputeScores(p) \/ Evaluate(p) \/ Calibrate(p) \/ Finalize(p)
           \/ FindApproval(p) \/ StartRun(p) \/ JudgeContext(p) \/ CompleteRun(p)
           \/ Fail(p)
    PROVE  RegistryInv'
<1>1. models' = models /\ scores' = scores
  <2>1. CASE ComputeScores(p) \/ Evaluate(p) \/ Calibrate(p) \/ Finalize(p)
    BY <2>1 DEF ComputeScores, Evaluate, Calibrate, Finalize, Launch
  <2>2. CASE FindApproval(p) \/ StartRun(p) \/ JudgeContext(p) \/ CompleteRun(p) \/ Fail(p)
    BY <2>2 DEF FindApproval, StartRun, JudgeContext, CompleteRun, Fail
  <2> QED BY <2>1, <2>2
<1>2. Stopped(p) \/ \E c, label : Goto(p, c, label) /\ label \notin Promising
  <2> DEFINE labels == {"ReadModel", "StartRun", "Upsert", "FindApproval", "JudgeContext",
                        "CompleteRun"}
  <2>1. Stopped(p) \/ \E c : \E label \in labels : Goto(p, c, label)
    <3>1. CASE ComputeScores(p) BY <3>1 DEF ComputeScores
    <3>2. CASE Evaluate(p) BY <3>2 DEF Evaluate
    <3>3. CASE Calibrate(p) BY Zenon, <3>3 DEF Calibrate, Exit
    <3>4. CASE Finalize(p) BY Zenon, <3>4 DEF Finalize, Exit
    <3>5. CASE FindApproval(p) BY Zenon, <3>5 DEF FindApproval, Exit
    <3>6. CASE StartRun(p) BY Zenon, <3>6 DEF StartRun, Exit
    <3>7. CASE JudgeContext(p) BY <3>7 DEF JudgeContext
    <3>8. CASE CompleteRun(p) BY <3>8 DEF CompleteRun, Exit
    <3>9. CASE Fail(p) BY <3>9 DEF Fail
    <3> QED BY <3>1, <3>2, <3>3, <3>4, <3>5, <3>6, <3>7, <3>8, <3>9
  <2>2. \A label \in labels : label \notin Promising BY DEF Promising, Scoring, Activating
  <2> QED BY <2>1, <2>2
<1> QED BY <1>1, <1>2, PromisesNothing

\* compute_scores reads a stored row, and rows are never deleted.
LEMMA ScoringSteps ==
    ASSUME TypeInv, TypeInv', RegistryInv, NEW p \in Programs, ReadModel(p) \/ Rewrite(p)
    PROVE  RegistryInv'
<1> DEFINE c == prog[p]
<1>c. c \in Program /\ Placed(c) BY DEF TypeInv, TypeOK, RegistryInv, AllPlaced
<1>1. models' = models /\ scores' = scores BY DEF ReadModel, Rewrite
<1>2. ActiveModels' = ActiveModels /\ Stored' = Stored BY <1>1 DEF ActiveModels, Stored
<1>3. ScoredIsStored' BY <1>1, <1>2 DEF RegistryInv, ScoredIsStored
<1>4. Exit(p) \/ \E d, label : /\ Goto(p, d, label) /\ label \in Scoring
                              /\ d.target = c.target /\ c.target \in Stored
  <2>1. CASE ReadModel(p)
    <3> DEFINE d == [c EXCEPT !.read = BatchOf(c.target)]
    <3>1. d.target = c.target BY <1>c DEF Program
    <3>2. Exit(p) \/ (Goto(p, d, "Rewrite") /\ c.target \in Stored) BY <2>1 DEF ReadModel
    <3> HIDE DEF d
    <3> QED BY <3>1, <3>2 DEF Scoring
  <2>2. CASE Rewrite(p)
    <3>1. c.target \in Stored BY <1>c, <2>2 DEF Rewrite, Placed, Scoring
    <3>2. Goto(p, c, "CommitScores") \/ Goto(p, c, "Blocked") BY <2>2 DEF Rewrite
    <3> QED BY <3>1, <3>2 DEF Scoring
  <2> QED BY <2>1, <2>2
<1>5. CASE Exit(p) BY <1>1, <1>5, PromisesNothing DEF Exit
<1>6. ASSUME NEW d, NEW label, Goto(p, d, label), label \in Scoring,
             d.target = c.target, c.target \in Stored
      PROVE  RegistryInv'
  <2>1. /\ \A q \in Programs : q # p => prog'[q] = prog[q]
        /\ prog'[p].pc = label /\ prog'[p].target = c.target
    BY <1>6, GotoFacts
  <2>2. Placed(prog[p])' BY <1>2, <1>6, <2>1 DEF Placed, Scoring, Activating
  <2>3. prog'[p].pc # "CommitActivation" BY <1>6, <2>1 DEF Scoring
  <2> QED BY <1>1, <1>2, <1>3, <2>1, <2>2, <2>3, KeptByTheOthers
<1> QED BY <1>4, <1>5, <1>6

\* The upsert keeps is_active, and a new row is inactive.
LEMMA UpsertKeeps ==
    ASSUME TypeInv, TypeInv', RegistryInv, NEW p \in Programs, Upsert(p)
    PROVE  RegistryInv' /\ ActiveModels' = ActiveModels /\ Stored \subseteq Stored'
<1> DEFINE c == prog[p]
           row == [params |-> NewParameters(c), until |-> c.until,
                   active |-> c.target \in ActiveModels]
<1>1. /\ models' = [x \in Stored \cup {c.target} |-> IF x = c.target THEN row ELSE models[x]]
      /\ Goto(p, c, "ReadModel") /\ scores' = scores
  BY DEF Upsert, AfterUpsert
<1>2. row.active = (c.target \in ActiveModels) OBVIOUS
<1>3. Stored' = Stored \cup {c.target} BY <1>1 DEF Stored
<1>4. ActiveModels' = ActiveModels
  <2> HIDE DEF row, c
  <2>1. \A x \in Stored' : models'[x].active = (x \in ActiveModels)
    BY <1>1, <1>2, <1>3 DEF ActiveModels, Stored, TypeInv, TypeOK, Row
  <2> QED BY <1>3, <2>1 DEF ActiveModels
<1>5. /\ \A q \in Programs : q # p => prog'[q] = prog[q]
      /\ prog'[p].pc = "ReadModel"
  BY <1>1, GotoFacts
<1>6. Placed(prog[p])' BY <1>5 DEF Placed, Scoring, Activating
<1>7. ScoredIsStored' BY <1>1, <1>3 DEF RegistryInv, ScoredIsStored
<1> HIDE DEF c, row
<1> QED BY <1>1, <1>3, <1>4, <1>5, <1>6, <1>7, KeptByTheOthers

\* The commit of the scores: what finalize goes on with has been scored.
LEMMA CommitScoresKeeps ==
    ASSUME TypeInv, TypeInv', RegistryInv, NEW p \in Programs, CommitScores(p)
    PROVE  /\ RegistryInv'
           /\ prog[p].target \in Stored
           /\ prog[p].read \in Batch
           /\ scores' = [scores EXCEPT ![prog[p].target] = prog[p].read]
           /\ models' = models
<1> DEFINE c == prog[p]
           m == c.target
<1>1. /\ c.pc = "CommitScores" /\ models' = models
      /\ scores' = [scores EXCEPT ![m] = c.read]
      /\ prog' = [q \in Programs |->
                   IF q = p THEN AfterScores(c)
                   ELSE IF prog[q].pc = "Blocked" /\ prog[q].target = m
                   THEN NoProgram ELSE prog[q]]
  BY DEF CommitScores, At
<1>2. c \in Program /\ c.read \in Batch /\ m \in Models /\ m \in Stored
  BY <1>1 DEF TypeInv, TypeOK, Known, Fits, Scoring, RegistryInv, AllPlaced, Placed
<1>3. c.read # None BY <1>2, NoneAssumption
<1>4. ActiveModels' = ActiveModels /\ Stored' = Stored BY <1>1 DEF ActiveModels, Stored
<1>5. /\ \A x \in Models : scores[x] # None => scores'[x] # None
      /\ scores'[m] # None
      /\ \A x \in Models : scores'[x] # None => x \in Stored
  BY <1>1, <1>2, <1>3 DEF TypeInv, TypeOK, RegistryInv, ScoredIsStored
<1>6. OneActive' /\ ActiveIsScored' /\ ScoredIsStored'
  BY <1>4, <1>5 DEF RegistryInv, OneActive, ActiveIsScored, ScoredIsStored, ActiveModels,
                    Stored, TypeInv, TypeOK
<1>7. /\ prog'[p].pc \in {"StartRun", "Deactivate", "idle"}
      /\ prog'[p].pc = "Deactivate" => prog'[p].target = m
  <2>1. prog'[p] = AfterScores(c) BY <1>1
  <2> HIDE DEF c
  <2>2. /\ AfterScores(c).pc \in {"StartRun", "Deactivate", "idle"}
        /\ AfterScores(c).pc = "Deactivate" => AfterScores(c).target = c.target
    <3>1. CASE AfterScores(c) = [c EXCEPT !.pc = "StartRun"] BY <1>2, <3>1, MoveType DEF Labels
    <3>2. CASE AfterScores(c) = [c EXCEPT !.pc = "Deactivate"]
      BY <1>2, <3>2, MoveType DEF Labels
    <3>3. CASE AfterScores(c) = NoProgram BY <3>3 DEF NoProgram
    <3> QED BY <3>1, <3>2, <3>3 DEF AfterScores
  <2> QED BY <2>1, <2>2
<1> HIDE DEF c, m
<1>8. ASSUME NEW q \in Programs PROVE Placed(prog[q])'
  <2>1. CASE q = p
    BY <1>2, <1>4, <1>5, <1>7, <2>1 DEF Placed, Scoring, Activating
  <2>2. CASE prog'[q] = NoProgram
    BY <2>2 DEF NoProgram, Placed, Scoring, Activating
  <2>3. CASE prog'[q] = prog[q]
    <3>1. Placed(prog[q]) BY DEF RegistryInv, AllPlaced
    <3>2. prog[q].pc \in Activating => prog[q].target \in Models
      BY DEF TypeInv, Known, Fits, Activating
    <3> QED BY <1>4, <1>5, <2>3, <3>1, <3>2 DEF Placed
  <2> QED BY <1>1, <2>1, <2>2, <2>3
<1>9. OneCommits'
  <2>1. ASSUME NEW q \in Programs, prog'[q].pc = "CommitActivation"
        PROVE  prog[q].pc = "CommitActivation"
    <3>1. NoProgram.pc = "idle" BY DEF NoProgram
    <3>2. q # p BY <1>7, <2>1
    <3>3. prog'[q] \in {NoProgram, prog[q]} BY <1>1, <3>2
    <3> QED BY <2>1, <3>1, <3>3
  <2> QED BY <2>1 DEF RegistryInv, OneCommits
<1> QED BY <1>1, <1>2, <1>6, <1>8, <1>9 DEF RegistryInv, AllPlaced, c, m

\* The two UPDATEs.  The second one is where the unique index matters: it lets the
\* program through only when no other row is, or is about to be, active.
LEMMA ActivationSteps ==
    ASSUME TypeInv, TypeInv', RegistryInv, NEW p \in Programs,
           Deactivate(p) \/ DeactivateRows(p) \/ Activate(p)
    PROVE  RegistryInv'
<1> DEFINE c == prog[p]
<1>c. c \in Program /\ Placed(c) BY DEF TypeInv, TypeOK, RegistryInv, AllPlaced
<1>1. models' = models /\ scores' = scores BY DEF Deactivate, DeactivateRows, Activate
<1>2. ActiveModels' = ActiveModels /\ Stored' = Stored BY <1>1 DEF ActiveModels, Stored
<1>3. ScoredIsStored' BY <1>1, <1>2 DEF RegistryInv, ScoredIsStored
<1>4. c.pc \in Activating
  BY DEF Deactivate, DeactivateRows, Activate, At, Activating
<1>5. c.target \in Stored /\ scores[c.target] # None BY <1>c, <1>4 DEF Placed
<1>6. CASE Deactivate(p) \/ DeactivateRows(p)
  <2>1. PICK S, label : /\ Goto(p, [c EXCEPT !.seen = S], label)
                        /\ label \in {"DeactivateRows", "Activate"}
    BY <1>6 DEF Deactivate, DeactivateRows
  <2> DEFINE d == [c EXCEPT !.seen = S]
  <2>2. d.target = c.target BY <1>c DEF Program
  <2>5. Goto(p, d, label) BY <2>1
  <2> HIDE DEF d
  <2>3. /\ \A q \in Programs : q # p => prog'[q] = prog[q]
        /\ prog'[p].pc = label /\ prog'[p].target = c.target
    BY <2>2, <2>5, GotoFacts
  <2> HIDE DEF c
  <2>4. Placed(prog[p])' BY <1>1, <1>2, <1>5, <2>1, <2>3 DEF Placed, Scoring, Activating
  <2> QED BY <1>1, <1>2, <1>3, <2>1, <2>3, <2>4, KeptByTheOthers
<1>7. CASE Activate(p)
  <2>1. CASE Exit(p) BY <1>1, <2>1, PromisesNothing DEF Exit
  <2>2. CASE Conflicts(p) = {} /\ Goto(p, c, "CommitActivation")
    <3>1. /\ \A q \in Programs : q # p => prog'[q] = prog[q]
          /\ prog'[p].pc = "CommitActivation" /\ prog'[p].target = c.target
          /\ prog'[p].seen = c.seen
      BY <2>2, GotoFacts
    <3>2. ActiveModels \subseteq c.seen \cup {c.target} BY <2>2 DEF Conflicts
    <3>3. \A q \in Programs : q # p => prog[q].pc # "CommitActivation"
      BY <1>7 DEF Activate
    <3> HIDE DEF c
    <3>4. Placed(prog[p])' BY <1>1, <1>2, <1>5, <3>1, <3>2 DEF Placed, Scoring, Activating
    <3> QED BY <1>1, <1>2, <1>3, <3>1, <3>3, <3>4, KeptByTheOthers
  <2> QED BY <1>7, <2>1, <2>2 DEF Activate
<1> QED BY <1>6, <1>7

\* The activation: afterwards exactly one model is active.
LEMMA CommitActivationKeeps ==
    ASSUME TypeInv, TypeInv', RegistryInv, NEW p \in Programs, CommitActivation(p)
    PROVE  /\ RegistryInv'
           /\ prog[p].target \in Stored /\ scores[prog[p].target] # None
           /\ ActiveModels' = {prog[p].target}
           /\ Stored' = Stored /\ scores' = scores
           /\ \A m \in Stored : models'[m].params = models[m].params
<1> DEFINE c == prog[p]
           on(m) == m = c.target \/ (models[m].active /\ m \notin c.seen)
<1>1. /\ c.pc = "CommitActivation" /\ Exit(p) /\ scores' = scores
      /\ models' = [m \in Stored |-> [models[m] EXCEPT !.active = on(m)]]
  BY DEF CommitActivation, At
<1>2. /\ c.target \in Stored /\ scores[c.target] # None
      /\ ActiveModels \subseteq c.seen \cup {c.target}
  BY <1>1 DEF RegistryInv, AllPlaced, Placed, Activating
<1>3. Stored' = Stored BY <1>1 DEF Stored
<1>4. ASSUME NEW m \in Stored
      PROVE  models'[m].active = on(m) /\ models'[m].params = models[m].params
  <2>1. models[m] \in Row BY DEF TypeInv, TypeOK, Stored
  <2>2. models'[m] = [models[m] EXCEPT !.active = on(m)] BY <1>1
  <2> HIDE DEF on
  <2> QED BY <2>1, <2>2 DEF Row
<1>5. ActiveModels' = {c.target}
  <2>1. \A m \in Stored : on(m) <=> m = c.target
    BY <1>2 DEF ActiveModels
  <2> HIDE DEF on, c
  <2> QED BY <1>2, <1>3, <1>4, <2>1 DEF ActiveModels
<1>6. /\ \A q \in Programs : q # p => prog'[q] = prog[q]
      /\ prog'[p].pc = "idle"
  BY <1>1, ExitFacts DEF Exit
<1>7. \A q \in Programs : prog'[q].pc # "CommitActivation"
  BY <1>1, <1>6 DEF RegistryInv, OneCommits
<1>8. ASSUME NEW q \in Programs PROVE Placed(prog[q])'
  <2>1. CASE q = p BY <1>6, <2>1 DEF Placed, Scoring, Activating
  <2>2. CASE q # p
    <3>1. Placed(prog[q]) /\ prog'[q] = prog[q]
      BY <1>6, <2>2 DEF RegistryInv, AllPlaced
    <3> QED BY <1>1, <1>3, <1>7, <3>1 DEF Placed
  <2> QED BY <2>1, <2>2
<1>9. /\ OneActive' /\ OneCommits'
      /\ ScoredIsStored'
      /\ ActiveIsScored'
  BY <1>1, <1>2, <1>3, <1>5, <1>7
     DEF OneActive, OneCommits, ScoredIsStored, ActiveIsScored, RegistryInv
<1> QED BY <1>1, <1>2, <1>3, <1>4, <1>5, <1>8, <1>9 DEF RegistryInv, AllPlaced

LEMMA RegistryStep == TypeInv /\ TypeInv' /\ RegistryInv /\ [Next]_vars => RegistryInv'
<1> SUFFICES ASSUME TypeInv, TypeInv', RegistryInv, [Next]_vars PROVE RegistryInv'
  OBVIOUS
<1>1. CASE Next
  <2>1. PICK p \in Programs :
          \/ ComputeScores(p) \/ Evaluate(p) \/ Calibrate(p) \/ Finalize(p)
          \/ Step(p) \/ Fail(p)
    BY Zenon, <1>1 DEF Next
  <2> QED
    BY <2>1, QuietSteps, ScoringSteps, UpsertKeeps, CommitScoresKeeps, ActivationSteps,
       CommitActivationKeeps DEF Step
<1>2. CASE UNCHANGED vars
  BY <1>2 DEF vars, RegistryInv, OneActive, ActiveIsScored, ScoredIsStored, AllPlaced,
              OneCommits, ActiveModels, Stored, Placed
<1> QED BY <1>1, <1>2

LEMMA RegistryInvariant == Spec => [](TypeInv /\ RegistryInv)
<1>1. Init => TypeInv /\ RegistryInv
  BY TypeInit, RegistryInit
<1>2. (TypeInv /\ RegistryInv) /\ [Next]_vars => (TypeInv /\ RegistryInv)'
  BY TypeStep, RegistryStep
<1> QED BY <1>1, <1>2, PTL DEF Spec

\* The API finds at most one active model: of two activations that overlap in any
\* way, idx_one_active_risk_model lets one through, or both in turn.
THEOREM AtMostOneActive == Spec => []OneActive
<1>1. RegistryInv => OneActive
  BY DEF RegistryInv
<1> QED BY <1>1, RegistryInvariant, PTL

\* The active model has scores, whatever failed and whatever is being recomputed:
\* finalize commits the scores before it activates, recomputation replaces them in
\* one transaction.
THEOREM ActiveAlwaysScored == Spec => []ActiveIsScored
<1>1. RegistryInv => ActiveIsScored
  BY DEF RegistryInv
<1> QED BY <1>1, RegistryInvariant, PTL

-----------------------------------------------------------------------------
(* The refinement *)

\* The four things a step does, as the registry sees them.
Untouched == UNCHANGED <<models, scores>>
Defined(m, par) ==
    /\ Stored' = Stored \cup {m}
    /\ models'[m].params = par
    /\ \A x \in Stored \ {m} : models'[x].params = models[x].params
    /\ scores' = scores /\ ActiveModels' = ActiveModels
Rescored(m, b) ==
    /\ m \in Stored /\ models' = models
    /\ scores' = [scores EXCEPT ![m] = b]
Activated(m) ==
    /\ m \in Stored /\ scores[m] # None
    /\ ActiveModels' = {m} /\ Stored' = Stored /\ scores' = scores
    /\ \A x \in Stored : models'[x].params = models[x].params
RegistryMoves ==
    \/ Untouched
    \/ \E m \in Models : \/ \E par \in Params : Defined(m, par)
                         \/ \E b \in Batch : Rescored(m, b)
                         \/ Activated(m)

LEMMA UpsertMoves ==
    ASSUME TypeInv, TypeInv', RegistryInv, NEW p \in Programs, Upsert(p)
    PROVE  RegistryMoves
<1> DEFINE m == prog[p].target
           row == [params |-> NewParameters(prog[p]), until |-> prog[p].until,
                   active |-> m \in ActiveModels]
<1>1. /\ models' = [x \in Stored \cup {m} |-> IF x = m THEN row ELSE models[x]]
      /\ scores' = scores /\ ActiveModels' = ActiveModels
  BY UpsertKeeps DEF Upsert
<1> HIDE DEF m, row
<1>2. Stored' = Stored \cup {m} BY <1>1 DEF Stored
<1>3. m \in Models /\ models'[m].params \in Params
  BY <1>2 DEF TypeInv, TypeOK, Stored, Row
<1>4. Defined(m, models'[m].params) BY <1>1, <1>2 DEF Defined
<1> QED BY <1>3, <1>4 DEF RegistryMoves

LEMMA ProgramMoves ==
    ASSUME TypeInv, TypeInv', RegistryInv, NEW p \in Programs, Step(p)
    PROVE  RegistryMoves
<1>1. CASE Upsert(p) BY <1>1, UpsertMoves
<1>2. CASE CommitScores(p)
  <2>1. /\ prog[p].target \in Stored /\ prog[p].read \in Batch /\ models' = models
        /\ scores' = [scores EXCEPT ![prog[p].target] = prog[p].read]
    BY <1>2, CommitScoresKeeps
  <2>2. Stored \subseteq Models BY DEF TypeInv, TypeOK, Stored
  <2> QED BY <2>1, <2>2 DEF RegistryMoves, Rescored
<1>3. CASE CommitActivation(p)
  <2>1. Activated(prog[p].target) BY <1>3, CommitActivationKeeps DEF Activated
  <2>2. Stored \subseteq Models BY DEF TypeInv, TypeOK, Stored
  <2> QED BY <2>1, <2>2 DEF RegistryMoves, Activated
<1>4. CASE FindApproval(p) \/ ReadModel(p) \/ Rewrite(p)
  BY <1>4 DEF FindApproval, ReadModel, Rewrite, RegistryMoves, Untouched
<1>5. CASE StartRun(p) \/ JudgeContext(p) \/ CompleteRun(p)
  BY <1>5 DEF StartRun, JudgeContext, CompleteRun, RegistryMoves, Untouched
<1>6. CASE Deactivate(p) \/ DeactivateRows(p) \/ Activate(p)
  BY <1>6 DEF Deactivate, DeactivateRows, Activate, RegistryMoves, Untouched
<1> QED BY <1>1, <1>2, <1>3, <1>4, <1>5, <1>6 DEF Step

LEMMA EveryStepMoves ==
    TypeInv /\ TypeInv' /\ RegistryInv /\ [Next]_vars => RegistryMoves
<1> SUFFICES ASSUME TypeInv, TypeInv', RegistryInv, [Next]_vars PROVE RegistryMoves
  OBVIOUS
<1>1. CASE UNCHANGED vars BY <1>1 DEF vars, RegistryMoves, Untouched
<1>2. CASE Next
  <2>1. PICK p \in Programs :
          \/ ComputeScores(p) \/ Evaluate(p) \/ Calibrate(p) \/ Finalize(p)
          \/ Step(p) \/ Fail(p)
    BY Zenon, <1>2 DEF Next
  <2>2. CASE ComputeScores(p) \/ Evaluate(p) \/ Calibrate(p) \/ Finalize(p)
    BY <2>2 DEF ComputeScores, Evaluate, Calibrate, Finalize, Launch, RegistryMoves, Untouched
  <2>3. CASE Fail(p) BY <2>3 DEF Fail, RegistryMoves, Untouched
  <2> QED BY <2>1, <2>2, <2>3, ProgramMoves
<1> QED BY <1>1, <1>2

\* What the API can read of the tables is what the registry promises: programs that
\* interleave statement by statement, wait, raise and roll back only ever define a
\* model, replace all of its scores, or hand the service over in one step.
THEOREM PipelineImplementsRegistry == Spec => ImplementsRegistry
<1> DEFINE served(S) == IF S = {} THEN None ELSE CHOOSE m \in S : TRUE
           par == [m \in Models |-> IF m \in Stored THEN models[m].params ELSE None]
<1>1. Init => Registry!Init
  <2> SUFFICES ASSUME Init PROVE Registry!Init
    OBVIOUS
  <2>1. ActiveModels = {} BY DEF Init, ActiveModels, Stored
  <2>2. par \in [Models -> Params \cup {None}]
    BY SeedAssumption DEF Init, Stored
  <2> QED BY <2>1, <2>2 DEF Init, Registry!Init
<1>2. TypeInv /\ TypeInv' /\ RegistryInv /\ [Next]_vars => [Registry!Next]_(Registry!vars)
  <2> SUFFICES ASSUME TypeInv, TypeInv', RegistryMoves
               PROVE  Registry!Next \/ UNCHANGED Registry!vars
    BY EveryStepMoves
  <2>1. CASE Untouched
    BY <2>1 DEF Untouched, Registry!vars, Stored, ActiveModels
  <2>2. ASSUME NEW m \in Models, NEW v \in Params, Defined(m, v) PROVE Registry!Next
    <3>1. par' = [par EXCEPT ![m] = v]
      BY <2>2 DEF Defined
    <3>2. served(ActiveModels') = served(ActiveModels) /\ scores' = scores
      BY <2>2 DEF Defined
    <3> QED BY <3>1, <3>2 DEF Registry!Next, Registry!Define
  <2>3. ASSUME NEW m \in Models, NEW b \in Batch, Rescored(m, b) PROVE Registry!Next
    <3>1. par[m] # None
      BY <2>3, NoneAssumption DEF Rescored, TypeInv, TypeOK, Stored, Row
    <3>2. par' = par /\ served(ActiveModels') = served(ActiveModels)
      BY <2>3 DEF Rescored, Stored, ActiveModels
    <3>3. scores' = [scores EXCEPT ![m] = b] BY <2>3 DEF Rescored
    <3> QED BY <3>1, <3>2, <3>3 DEF Registry!Next, Registry!Rescore
  <2>4. ASSUME NEW m \in Models, Activated(m) PROVE Registry!Next
    <3>1. par[m] # None /\ scores[m] # None
      BY <2>4, NoneAssumption DEF Activated, TypeInv, TypeOK, Stored, Row
    <3>2. par' = par /\ scores' = scores BY <2>4 DEF Activated
    <3>3. served(ActiveModels') = m BY <2>4 DEF Activated
    <3> QED BY <3>1, <3>2, <3>3 DEF Registry!Next, Registry!Activate
  <2> QED BY <2>1, <2>2, <2>3, <2>4 DEF RegistryMoves
<1> QED BY <1>1, <1>2, RegistryInvariant, PTL DEF Spec, ImplementsRegistry, Registry!Spec

-----------------------------------------------------------------------------
(* What finalize publishes *)

\* The base model has passed, with these parameters or before they were changed.
Approved(b, par) ==
    \E i \in DOMAIN runs : /\ runs[i].model = b /\ runs[i].passed
                           /\ runs[i].params = par \/ b \in overwritten

\* A run has recorded the parameters of its model, which the row still has unless an
\* upsert has changed them.
RunsRecord ==
    \A i \in DOMAIN runs :
        /\ runs[i].model \in Stored
        /\ runs[i].model \in overwritten \/ runs[i].params = models[runs[i].model].params

\* So has finalize when it read its base model; what it is about to write is approved;
\* the run being judged has not passed yet.
Judging == {"JudgeContext", "CompleteRun"}
Vetted(c) ==
    /\ c.cmd = "finalize" => /\ c.base \in Stored
                             /\ c.base \in overwritten \/ c.basis = models[c.base].params
    /\ c.cmd = "finalize" /\ c.pc = "Upsert" => Approved(c.base, c.basis)
    /\ c.pc \in Judging => c.run \in DOMAIN runs /\ ~runs[c.run].passed

AllVetted == \A p \in Programs : Vetted(prog[p])

\* Every run is judged by the program that started it, and by no other.
OwnRuns ==
    \A p, q \in Programs :
        prog[p].pc \in Judging /\ prog[q].pc \in Judging /\ prog[p].run = prog[q].run => p = q

ApprovalInv == RunsRecord /\ AllVetted /\ OwnRuns /\ FinalsApproved

\* A run keeps what it has recorded; one that has passed stays so.
RunsKept ==
    \A i \in DOMAIN runs : /\ i \in DOMAIN runs'
                           /\ runs'[i].params = runs[i].params
                           /\ runs'[i].model = runs[i].model
                           /\ runs[i].passed => runs'[i].passed

\* A row keeps its parameters, or it is known that it has not.
RowsKept ==
    /\ Stored \subseteq Stored' /\ overwritten \subseteq overwritten'
    /\ \A m \in Stored : m \in overwritten' \/ models'[m].params = models[m].params

LEMMA ApprovedStays ==
    ASSUME RunsKept, RowsKept, NEW b, NEW par, Approved(b, par) PROVE Approved(b, par)'
BY DEF RunsKept, RowsKept, Approved

LEMMA NoProgramVetted == Vetted(NoProgram)
BY DEF Vetted, NoProgram, Judging

\* What a program relies on stays while another one moves.
LEMMA VettedStays ==
    ASSUME RunsKept, RowsKept, NEW q \in Programs, Vetted(prog[q]), prog'[q] = prog[q],
           prog[q].pc \in Judging => runs'[prog[q].run].passed = runs[prog[q].run].passed
    PROVE  Vetted(prog[q])'
<1>1. prog[q].cmd = "finalize" =>
        /\ prog[q].base \in Stored'
        /\ \/ prog[q].base \in overwritten'
           \/ prog[q].basis = models'[prog[q].base].params
  BY DEF Vetted, RowsKept
<1>2. prog[q].cmd = "finalize" /\ prog[q].pc = "Upsert" =>
        \E i \in DOMAIN runs' : /\ runs'[i].model = prog[q].base /\ runs'[i].passed
                                /\ \/ runs'[i].params = prog[q].basis
                                   \/ prog[q].base \in overwritten'
  BY DEF Vetted, Approved, RunsKept, RowsKept
<1>3. prog[q].pc \in Judging => prog[q].run \in DOMAIN runs' /\ ~runs'[prog[q].run].passed
  BY DEF Vetted, RunsKept
<1> QED BY <1>1, <1>2, <1>3 DEF Vetted, Approved

\* One program moves; the others stay where they were, or end.
LEMMA OthersVetted ==
    ASSUME ApprovalInv, RunsKept, RowsKept, NEW p \in Programs,
           \A q \in Programs : q # p => prog'[q] = prog[q] \/ prog'[q] = NoProgram,
           \A q \in Programs : q # p /\ prog[q].pc \in Judging =>
               runs'[prog[q].run].passed = runs[prog[q].run].passed,
           Vetted(prog[p])',
           prog'[p].pc \in Judging =>
               \A q \in Programs : q # p /\ prog[q].pc \in Judging => prog[q].run # prog'[p].run
    PROVE  AllVetted' /\ OwnRuns'
<1>1. NoProgram.pc \notin Judging /\ NoProgram.cmd # "finalize"
  BY DEF NoProgram, Judging
<1>2. ASSUME NEW q \in Programs PROVE Vetted(prog[q])'
  <2>1. CASE q = p
    BY <2>1
  <2>2. CASE prog'[q] = NoProgram
    BY <1>1, <2>2 DEF Vetted
  <2>3. CASE q # p /\ prog'[q] = prog[q]
    <3>1. Vetted(prog[q])
      BY DEF ApprovalInv, AllVetted
    <3> QED BY <2>3, <3>1, VettedStays
  <2> QED BY <2>1, <2>2, <2>3
<1>3. OwnRuns'
  BY <1>1 DEF ApprovalInv, OwnRuns
<1> QED BY <1>2, <1>3 DEF AllVetted

\* No run is added, no row is written by finalize.
LEMMA RunsStayRecorded ==
    ASSUME ApprovalInv, RunsKept, RowsKept, DOMAIN runs' \subseteq DOMAIN runs
    PROVE  RunsRecord'
BY DEF ApprovalInv, RunsRecord, RunsKept, RowsKept

LEMMA FinalsStayApproved ==
    ASSUME ApprovalInv, RunsKept, RowsKept, Stored' = Stored, source' = source,
           \A m \in Stored : models'[m].params = models[m].params
    PROVE  FinalsApproved'
<1> SUFFICES ASSUME NEW m \in Stored', source'[m] # None
             PROVE  Approved(source[m], models[m].params)'
  BY DEF FinalsApproved, Approved
<1>1. Approved(source[m], models[m].params)
  BY DEF ApprovalInv, FinalsApproved, Approved
<1>2. models'[m].params = models[m].params
  OBVIOUS
<1> QED BY <1>1, <1>2 DEF Approved, RunsKept, RowsKept

\* A program that goes on with the same errand, neither to the upsert nor to a run.
LEMMA SameErrand ==
    ASSUME ApprovalInv, NEW p \in Programs,
           Stored' = Stored, runs' = runs, source' = source, overwritten' = overwritten,
           \A m \in Stored : models'[m].params = models[m].params,
           \A q \in Programs : q # p => prog'[q] = prog[q] \/ prog'[q] = NoProgram,
           \/ prog'[p] = NoProgram
           \/ /\ prog'[p].pc \notin Judging \cup {"Upsert"}
              /\ prog'[p].cmd = prog[p].cmd /\ prog'[p].base = prog[p].base
              /\ prog'[p].basis = prog[p].basis
    PROVE  ApprovalInv'
<1>1. RunsKept /\ RowsKept
  BY DEF RunsKept, RowsKept
<1>2. NoProgram.pc \notin Judging /\ NoProgram.cmd # "finalize"
  BY DEF NoProgram, Judging
<1>3. Vetted(prog[p])'
  <2>1. CASE prog'[p] = NoProgram
    BY <1>2, <2>1 DEF Vetted
  <2>2. CASE prog'[p] # NoProgram
    <3>1. Vetted(prog[p])
      BY DEF ApprovalInv, AllVetted
    <3> QED BY <2>2, <3>1 DEF Vetted
  <2> QED BY <2>1, <2>2
<1>4. prog'[p].pc \notin Judging
  BY <1>2
<1>5. AllVetted' /\ OwnRuns'
  BY <1>1, <1>3, <1>4, OthersVetted
<1>6. RunsRecord' /\ FinalsApproved'
  BY <1>1, RunsStayRecorded, FinalsStayApproved
<1> QED BY <1>5, <1>6 DEF ApprovalInv

\* Where a program is after Goto.
LEMMA GotoGives ==
    ASSUME TypeInv, NEW p \in Programs, NEW c \in Program, NEW label \in Labels,
           Goto(p, c, label)
    PROVE  /\ \A q \in Programs : q # p => prog'[q] = prog[q]
           /\ prog'[p].pc = label /\ prog'[p].cmd = c.cmd /\ prog'[p].base = c.base
           /\ prog'[p].target = c.target /\ prog'[p].basis = c.basis
           /\ prog'[p].at = c.at /\ prog'[p].run = c.run
           /\ prog'[p].read = c.read /\ prog'[p].until = c.until
<1> DEFINE d == [c EXCEPT !.pc = label]
<1>1. /\ \A q \in Programs : q # p => prog'[q] = prog[q]
      /\ prog'[p] = d
  BY DEF Goto, TypeInv, TypeOK
<1>2. /\ d.pc = label /\ d.cmd = c.cmd /\ d.base = c.base /\ d.target = c.target
      /\ d.basis = c.basis /\ d.at = c.at /\ d.run = c.run
      /\ d.read = c.read /\ d.until = c.until
  BY MoveType
<1> HIDE DEF d
<1> QED BY <1>1, <1>2

LEMMA ExitGives ==
    ASSUME TypeInv, NEW p \in Programs, Stopped(p)
    PROVE  /\ \A q \in Programs : q # p => prog'[q] = prog[q]
           /\ prog'[p] = NoProgram
BY DEF Stopped, TypeInv, TypeOK

LEMMA LaunchVetted ==
    ASSUME TypeInv, TypeInv', ApprovalInv, NEW p \in Programs,
           ComputeScores(p) \/ Evaluate(p) \/ Calibrate(p) \/ Finalize(p)
    PROVE  ApprovalInv'
<1>1. /\ models' = models /\ runs' = runs /\ source' = source /\ overwritten' = overwritten
  BY DEF ComputeScores, Evaluate, Calibrate, Finalize, Launch
<1>2. RunsKept /\ RowsKept /\ Stored' = Stored
  BY <1>1 DEF RunsKept, RowsKept, Stored
<1>3. RunsRecord' /\ FinalsApproved'
  BY <1>1, <1>2, RunsStayRecorded, FinalsStayApproved
<1>4. ASSUME \A q \in Programs : q # p => prog'[q] = prog[q],
             Vetted(prog[p])', prog'[p].pc \notin Judging
      PROVE  ApprovalInv'
  <2>1. AllVetted' /\ OwnRuns'
    BY <1>1, <1>2, <1>4, OthersVetted
  <2> QED BY <1>3, <2>1 DEF ApprovalInv
<1>5. CASE Exit(p)
  <2>1. (\A q \in Programs : q # p => prog'[q] = prog[q]) /\ prog'[p] = NoProgram
    BY <1>5, ExitGives DEF Exit
  <2>2. NoProgram.pc \notin Judging /\ NoProgram.cmd # "finalize"
    BY DEF NoProgram, Judging
  <2> QED BY <1>4, <2>1, <2>2 DEF Vetted
<1>6. ASSUME NEW c \in Program, NEW label \in Labels \ Judging, Goto(p, c, label),
             c.cmd # "finalize"
      PROVE  ApprovalInv'
  <2>1. /\ \A q \in Programs : q # p => prog'[q] = prog[q]
        /\ prog'[p].pc = label /\ prog'[p].cmd = c.cmd
    BY <1>6, GotoGives
  <2>2. Vetted(prog[p])' /\ prog'[p].pc \notin Judging
    BY <1>6, <2>1 DEF Vetted
  <2> QED BY <1>4, <2>1, <2>2
<1>7. {"ReadModel", "StartRun", "Upsert", "FindApproval"} \subseteq Labels \ Judging
  BY DEF Labels, Judging
<1>8. CASE ComputeScores(p)
  <2>1. PICK m \in Scorable, until \in Dates \cup {None} :
          Goto(p, [NoProgram EXCEPT !.cmd = "compute", !.target = m, !.until = until],
               "ReadModel")
    BY Zenon, <1>8 DEF ComputeScores
  <2> DEFINE c == [NoProgram EXCEPT !.cmd = "compute", !.target = m, !.until = until]
  <2>2. c \in Program /\ c.cmd = "compute"
    BY NoProgramType, InstanceAssumption DEF Program, Cmds
  <2>3. Goto(p, c, "ReadModel")
    BY <2>1
  <2> HIDE DEF c
  <2> QED BY <1>6, <1>7, <2>2, <2>3
<1>9. CASE Evaluate(p)
  <2>1. PICK m \in Scorable, from \in Dates :
          Goto(p, [NoProgram EXCEPT !.cmd = "evaluate", !.target = m, !.testFrom = from],
               "StartRun")
    BY Zenon, <1>9 DEF Evaluate
  <2> DEFINE c == [NoProgram EXCEPT !.cmd = "evaluate", !.target = m, !.testFrom = from]
  <2>2. c \in Program /\ c.cmd = "evaluate"
    BY NoProgramType, InstanceAssumption DEF Program, Cmds
  <2>3. Goto(p, c, "StartRun")
    BY <2>1
  <2> HIDE DEF c
  <2> QED BY <1>6, <1>7, <2>2, <2>3
<1>10. CASE Calibrate(p) /\ ~Exit(p)
  <2>1. PICK b \in Bases, until \in Dates, from \in Dates, n \in 1..Candidates :
          /\ b \in Stored
          /\ Goto(p, [NoProgram EXCEPT !.cmd = "calibrate", !.base = b, !.until = until,
                                       !.testFrom = from, !.basis = models[b].params,
                                       !.at = 1, !.upto = n,
                                       !.target = CandidateName[b][1]],
                  "Upsert")
    BY Zenon, <1>10 DEF Calibrate
  <2> DEFINE c == [NoProgram EXCEPT !.cmd = "calibrate", !.base = b, !.until = until,
                                    !.testFrom = from, !.basis = models[b].params,
                                    !.at = 1, !.upto = n, !.target = CandidateName[b][1]]
  <2>2. models[b].params \in Params /\ b \in Models /\ CandidateName[b][1] \in Models
        /\ 1 \in 0..Candidates /\ n \in 0..Candidates
    <3>1. b \in Models /\ models[b] \in Row
      BY <2>1, InstanceAssumption DEF TypeInv, TypeOK, Stored
    <3>2. 1 \in 1..Candidates /\ 1 \in 0..Candidates /\ n \in 0..Candidates
      BY GridAssumption
    <3>3. CandidateName[b][1] \in Models
      BY <3>1, <3>2, GridAssumption
    <3> QED BY <3>1, <3>2, <3>3 DEF Row
  <2>3. c \in Program /\ c.cmd = "calibrate"
    BY <2>2, NoProgramType DEF Program, Cmds
  <2>4. Goto(p, c, "Upsert")
    BY <2>1
  <2> HIDE DEF c
  <2> QED BY <1>6, <1>7, <2>3, <2>4
<1>11. CASE Finalize(p) /\ ~Exit(p)
  <2>1. PICK b \in Bases, m \in Finals, until \in Dates, activate \in BOOLEAN :
          /\ b \in Stored
          /\ Goto(p, [NoProgram EXCEPT !.cmd = "finalize", !.base = b, !.target = m,
                                       !.basis = models[b].params, !.until = until,
                                       !.activate = activate],
                  "FindApproval")
    BY Zenon, <1>11 DEF Finalize
  <2> DEFINE c == [NoProgram EXCEPT !.cmd = "finalize", !.base = b, !.target = m,
                                    !.basis = models[b].params, !.until = until,
                                    !.activate = activate]
  <2>2. models[b].params \in Params /\ b \in Models /\ m \in Models
    BY <2>1, InstanceAssumption DEF TypeInv, TypeOK, Stored, Row
  <2>3. NoProgram \in Program
    BY NoProgramType
  <2>4. c \in Program /\ c.cmd = "finalize" /\ c.base = b /\ c.basis = models[b].params
    BY <2>2, <2>3 DEF Program, Cmds
  <2>5. Goto(p, c, "FindApproval") /\ "FindApproval" \in Labels \ Judging
    BY <1>7, <2>1
  <2> HIDE DEF c
  <2>6. /\ \A q \in Programs : q # p => prog'[q] = prog[q]
        /\ prog'[p].pc = "FindApproval" /\ prog'[p].cmd = "finalize" /\ prog'[p].base = b
        /\ prog'[p].basis = models[b].params
    BY <2>4, <2>5, GotoGives
  <2>7. Vetted(prog[p])' /\ prog'[p].pc \notin Judging
    BY <1>1, <1>2, <2>1, <2>5, <2>6 DEF Vetted
  <2> QED BY <1>4, <2>6, <2>7
<1> QED BY <1>5, <1>8, <1>9, <1>10, <1>11

LEMMA ApprovalVetted ==
    ASSUME TypeInv, TypeInv', ApprovalInv, NEW p \in Programs, FindApproval(p)
    PROVE  ApprovalInv'
<1> DEFINE c == prog[p]
<1>1. /\ c.pc = "FindApproval" /\ c \in Program
      /\ models' = models /\ runs' = runs /\ source' = source /\ overwritten' = overwritten
      /\ Exit(p) \/ (Passed(c.base) /\ Goto(p, c, "Upsert"))
  BY DEF FindApproval, At, TypeInv, TypeOK
<1>2. Stored' = Stored /\ RunsKept /\ RowsKept
  BY <1>1 DEF Stored, RunsKept, RowsKept
<1>3. CASE Exit(p)
  BY <1>1, <1>2, <1>3, ExitGives, SameErrand DEF Exit
<1>4. CASE Passed(c.base) /\ Goto(p, c, "Upsert")
  <2>1. "Upsert" \in Labels /\ "Upsert" \notin Judging
    BY DEF Labels, Judging
  <2>2. /\ \A q \in Programs : q # p => prog'[q] = prog[q]
        /\ prog'[p].pc = "Upsert" /\ prog'[p].cmd = c.cmd /\ prog'[p].base = c.base
        /\ prog'[p].basis = c.basis
    BY <1>1, <1>4, <2>1, GotoGives
  <2>3. Vetted(c) /\ RunsRecord
    BY DEF ApprovalInv, AllVetted
  <2>4. c.cmd = "finalize" => Approved(c.base, c.basis)
    BY <1>4, <2>3 DEF Passed, Approved, Vetted, RunsRecord
  <2> HIDE DEF c
  <2>5. Vetted(prog[p])' /\ prog'[p].pc \notin Judging
    BY <1>1, <1>2, <2>1, <2>2, <2>3, <2>4 DEF Vetted, Approved
  <2>6. AllVetted' /\ OwnRuns'
    BY <1>1, <1>2, <2>2, <2>5, OthersVetted
  <2>7. RunsRecord' /\ FinalsApproved'
    BY <1>1, <1>2, RunsStayRecorded, FinalsStayApproved
  <2> QED BY <2>6, <2>7 DEF ApprovalInv
<1> QED BY <1>1, <1>3, <1>4

\* The row is written: finalize has an approval for what it writes, and a row whose
\* parameters change is remembered as overwritten.
LEMMA UpsertVetted ==
    ASSUME TypeInv, TypeInv', ApprovalInv, NEW p \in Programs, Upsert(p)
    PROVE  ApprovalInv'
<1> DEFINE c == prog[p]
           m == c.target
           row == [params |-> NewParameters(c), until |-> c.until,
                   active |-> m \in ActiveModels]
           changed == {x \in {m} \cap Stored : models[x].params # row.params}
           from == IF c.cmd = "finalize" THEN c.base ELSE None
<1>1. /\ c.pc = "Upsert" /\ c \in Program
      /\ models' = [x \in Stored \cup {m} |-> IF x = m THEN row ELSE models[x]]
      /\ source' = [source EXCEPT ![m] = from]
      /\ overwritten' = overwritten \cup changed
      /\ runs' = runs
      /\ Goto(p, c, "ReadModel")
  BY DEF Upsert, At, AfterUpsert, TypeInv, TypeOK
<1>2. c.cmd \in {"calibrate", "finalize"} /\ m \in Models
  BY <1>1 DEF TypeInv, Known, Fits
<1>3. Vetted(c)
  BY DEF ApprovalInv, AllVetted
<1>4. row.params = NewParameters(c)
  OBVIOUS
<1>5. /\ Stored' = Stored \cup {m}
      /\ models'[m].params = NewParameters(c)
      /\ \A x \in Stored : x # m => models'[x] = models[x]
  <2> HIDE DEF row, c, m
  <2> QED BY <1>1, <1>4 DEF Stored
<1>6. \A x \in Models : source'[x] = IF x = m THEN from ELSE source[x]
  <2> HIDE DEF from, m, c
  <2> QED BY <1>1 DEF TypeInv, TypeOK
<1>7. "ReadModel" \in Labels /\ "ReadModel" \notin Judging
  BY DEF Labels, Judging
<1>8. /\ \A q \in Programs : q # p => prog'[q] = prog[q]
      /\ prog'[p].pc = "ReadModel" /\ prog'[p].cmd = c.cmd /\ prog'[p].base = c.base
      /\ prog'[p].basis = c.basis
  BY <1>1, <1>7, GotoGives
<1>9. m \in Stored => m \in overwritten' \/ models[m].params = NewParameters(c)
  BY <1>1, <1>4
<1>10. overwritten \subseteq overwritten'
  BY <1>1
<1> HIDE DEF row, changed
<1>11. RunsKept
  BY <1>1 DEF RunsKept
<1>12. RowsKept
  BY <1>5, <1>9, <1>10 DEF RowsKept
<1>13. Vetted(prog[p])' /\ prog'[p].pc \notin Judging
  BY <1>3, <1>7, <1>8, <1>12 DEF Vetted, RowsKept
<1>14. AllVetted' /\ OwnRuns'
  BY <1>1, <1>8, <1>11, <1>12, <1>13, OthersVetted
<1>15. RunsRecord'
  BY <1>1, <1>11, <1>12, RunsStayRecorded
<1>16. FinalsApproved'
  <2> SUFFICES ASSUME NEW x \in Stored', source'[x] # None
               PROVE  Approved(source[x], models[x].params)'
    BY DEF FinalsApproved, Approved
  <2>1. CASE x = m
    <3>1. c.cmd = "finalize" /\ source'[x] = c.base
      BY <1>2, <1>6, <2>1
    <3>2. Approved(c.base, c.basis) /\ models'[x].params = c.basis
      BY <1>1, <1>3, <1>5, <2>1, <3>1 DEF Vetted, NewParameters
    <3> QED BY <1>1, <1>10, <3>1, <3>2 DEF Approved
  <2>2. CASE x # m
    <3>1. x \in Stored /\ x \in Models /\ source'[x] = source[x] /\ models'[x] = models[x]
      BY <1>5, <1>6, <2>2 DEF TypeInv, TypeOK, Stored
    <3>2. Approved(source[x], models[x].params)
      BY <3>1 DEF ApprovalInv, FinalsApproved, Approved
    <3> QED BY <1>1, <1>10, <3>1, <3>2 DEF Approved
  <2> QED BY <2>1, <2>2
<1> QED BY <1>14, <1>15, <1>16 DEF ApprovalInv

\* The statements in between: scores, and the two UPDATEs of the activation.
LEMMA ErrandsVetted ==
    ASSUME TypeInv, TypeInv', RegistryInv, ApprovalInv, NEW p \in Programs,
           \/ ReadModel(p) \/ Rewrite(p) \/ CommitScores(p) \/ Deactivate(p)
           \/ DeactivateRows(p) \/ Activate(p) \/ CommitActivation(p) \/ Fail(p)
    PROVE  ApprovalInv'
<1> DEFINE c == prog[p]
<1>c. c \in Program
  BY DEF TypeInv, TypeOK
<1>1. /\ runs' = runs /\ Stored' = Stored /\ source' = source /\ overwritten' = overwritten
      /\ \A m \in Stored : models'[m].params = models[m].params
  <2>1. CASE CommitActivation(p)
    BY <2>1, CommitActivationKeeps DEF CommitActivation
  <2>2. CASE ~CommitActivation(p)
    <3>1. models' = models /\ runs' = runs /\ source' = source /\ overwritten' = overwritten
      BY <2>2 DEF ReadModel, Rewrite, CommitScores, Deactivate, DeactivateRows, Activate, Fail
    <3> QED BY <3>1 DEF Stored
  <2> QED BY <2>1, <2>2
<1>2. CASE Stopped(p)
  BY <1>1, <1>2, ExitGives, SameErrand
<1>3. ASSUME NEW d \in Program, NEW label \in Labels \ (Judging \cup {"Upsert"}), Goto(p, d, label),
             d.cmd = c.cmd, d.base = c.base, d.basis = c.basis
      PROVE  ApprovalInv'
  <2>1. /\ \A q \in Programs : q # p => prog'[q] = prog[q]
        /\ prog'[p].pc = label /\ prog'[p].cmd = d.cmd /\ prog'[p].base = d.base
        /\ prog'[p].basis = d.basis
    BY <1>3, GotoGives
  <2> QED BY <1>1, <1>3, <2>1, SameErrand
<1>4. CASE ReadModel(p)
  <2> DEFINE d == [c EXCEPT !.read = BatchOf(c.target)]
  <2>1. Exit(p) \/ (c.target \in Stored /\ Goto(p, d, "Rewrite"))
    BY <1>4 DEF ReadModel
  <2>2. c.target \in Stored => BatchOf(c.target) \in Batch
    BY DEF TypeInv, TypeOK, Stored, Row, Batch, BatchOf
  <2>3. /\ c.target \in Stored => d \in Program
        /\ d.cmd = c.cmd /\ d.base = c.base /\ d.basis = c.basis
    BY <1>c, <2>2 DEF Program
  <2>4. "Rewrite" \in Labels \ (Judging \cup {"Upsert"})
    BY DEF Labels, Judging
  <2> HIDE DEF d
  <2> QED BY <1>2, <1>3, <2>1, <2>3, <2>4 DEF Exit
<1>5. CASE Rewrite(p)
  <2>1. {"CommitScores", "Blocked"} \subseteq Labels \ (Judging \cup {"Upsert"})
    BY DEF Labels, Judging
  <2> QED BY <1>c, <1>3, <1>5, <2>1 DEF Rewrite
<1>6. CASE Deactivate(p) \/ DeactivateRows(p)
  <2>1. PICK S \in SUBSET Models, label \in {"DeactivateRows", "Activate"} :
          Goto(p, [c EXCEPT !.seen = S], label)
    BY <1>6 DEF Deactivate, DeactivateRows, ActiveModels, TypeInv, TypeOK, Stored
  <2> DEFINE d == [c EXCEPT !.seen = S]
  <2>2. d \in Program /\ d.cmd = c.cmd /\ d.base = c.base /\ d.basis = c.basis
    BY <1>c DEF Program
  <2>3. label \in Labels \ (Judging \cup {"Upsert"})
    BY DEF Labels, Judging
  <2>4. Goto(p, d, label)
    BY <2>1
  <2> HIDE DEF d
  <2> QED BY <1>3, <2>2, <2>3, <2>4
<1>7. CASE Activate(p)
  <2>1. "CommitActivation" \in Labels \ (Judging \cup {"Upsert"})
    BY DEF Labels, Judging
  <2> QED BY <1>c, <1>2, <1>3, <1>7, <2>1 DEF Activate, Exit
<1>8. CASE CommitScores(p)
  <2>1. prog' = [q \in Programs |->
                   IF q = p THEN AfterScores(c)
                   ELSE IF prog[q].pc = "Blocked" /\ prog[q].target = c.target
                   THEN NoProgram ELSE prog[q]]
    BY <1>8 DEF CommitScores
  <2>2. PICK label \in {"StartRun", "Deactivate"} :
          AfterScores(c) = [c EXCEPT !.pc = label] \/ AfterScores(c) = NoProgram
    BY DEF AfterScores
  <2>3. label \in Labels /\ label \notin Judging \cup {"Upsert"}
    BY DEF Labels, Judging
  <2> DEFINE d == [c EXCEPT !.pc = label]
  <2>4. d.pc = label /\ d.cmd = c.cmd /\ d.base = c.base /\ d.basis = c.basis
    BY <1>c, <2>3, MoveType
  <2>5. prog'[p] = d \/ prog'[p] = NoProgram
    BY <2>1, <2>2
  <2>6. \A q \in Programs : q # p => prog'[q] = prog[q] \/ prog'[q] = NoProgram
    BY <2>1
  <2> HIDE DEF d
  <2> QED BY <1>1, <2>3, <2>4, <2>5, <2>6, SameErrand
<1>9. CASE CommitActivation(p) \/ Fail(p)
  BY <1>2, <1>9 DEF CommitActivation, Fail, Exit
<1> QED BY <1>4, <1>5, <1>6, <1>7, <1>8, <1>9

\* A new run is nobody else's, and records the row of its model.
LEMMA StartRunVetted ==
    ASSUME TypeInv, TypeInv', ApprovalInv, NEW p \in Programs, StartRun(p)
    PROVE  ApprovalInv'
<1> DEFINE c == prog[p]
           m == c.target
           run == [model |-> m, params |-> models[m].params, until |-> models[m].until,
                   testFrom |-> c.testFrom, status |-> "running", passed |-> FALSE,
                   judged |-> {}]
           d == [c EXCEPT !.run = Len(runs) + 1, !.left = Contexts]
<1>1. /\ c.pc = "StartRun" /\ c \in Program /\ runs \in Seq(Run) /\ models' = models
      /\ source' = source /\ overwritten' = overwritten /\ Vetted(c)
  BY DEF StartRun, At, TypeInv, TypeOK, ApprovalInv, AllVetted
<1>2. \/ Exit(p) /\ runs' = runs
      \/ m \in Stored /\ runs' = Append(runs, run) /\ Goto(p, d, "JudgeContext")
  BY DEF StartRun
<1>3. Stored' = Stored
  BY <1>1 DEF Stored
<1>4. CASE Exit(p) /\ runs' = runs
  BY <1>1, <1>3, <1>4, ExitGives, SameErrand DEF Exit
<1>5. CASE m \in Stored /\ runs' = Append(runs, run) /\ Goto(p, d, "JudgeContext")
  <2>1. /\ run.model = m /\ run.params = models[m].params /\ run.passed = FALSE
    OBVIOUS
  <2>2. /\ d \in Program /\ d.cmd = c.cmd /\ d.base = c.base /\ d.basis = c.basis
        /\ d.run = Len(runs) + 1
    <3>1. Len(runs) + 1 \in Nat /\ Contexts \in 0..Contexts
      BY <1>1, BoundAssumption
    <3> HIDE DEF c, run
    <3> QED BY ZenonT(40), <1>1, <3>1 DEF Program
  <2>3. "JudgeContext" \in Labels
    BY DEF Labels
  <2> HIDE DEF d
  <2>4. /\ \A q \in Programs : q # p => prog'[q] = prog[q]
        /\ prog'[p].pc = "JudgeContext" /\ prog'[p].cmd = c.cmd /\ prog'[p].base = c.base
        /\ prog'[p].basis = c.basis /\ prog'[p].run = Len(runs) + 1
    BY <1>5, <2>2, <2>3, GotoGives
  <2> HIDE DEF run
  <2>5. /\ Len(runs) \in Nat /\ DOMAIN runs = 1..Len(runs)
        /\ DOMAIN runs' = 1..(Len(runs) + 1)
        /\ \A i \in DOMAIN runs : runs'[i] = runs[i]
        /\ runs'[Len(runs) + 1] = run
    BY <1>1, <1>5
  <2> HIDE DEF c, m
  <2>6. RunsKept /\ RowsKept
    BY <1>1, <1>3, <2>5 DEF RunsKept, RowsKept
  <2>7. Vetted(prog[p])'
    <3>1. prog'[p].cmd = "finalize" =>
            /\ prog'[p].base \in Stored'
            /\ prog'[p].base \in overwritten' \/ prog'[p].basis = models'[prog'[p].base].params
      BY <1>1, <1>3, <2>4 DEF Vetted
    <3>2. prog'[p].pc # "Upsert"
      BY <2>4
    <3>3. prog'[p].run \in DOMAIN runs' /\ ~runs'[prog'[p].run].passed
      BY <2>1, <2>4, <2>5
    <3> QED BY <3>1, <3>2, <3>3 DEF Vetted
  <2>8. \A q \in Programs : prog[q].pc \in Judging => prog[q].run \in DOMAIN runs
    BY DEF ApprovalInv, AllVetted, Vetted
  <2>9. AllVetted' /\ OwnRuns'
    BY <2>4, <2>5, <2>6, <2>7, <2>8, OthersVetted
  <2>10. FinalsApproved'
    BY <1>1, <1>3, <2>6, FinalsStayApproved
  <2>11. RunsRecord'
    <3> SUFFICES ASSUME NEW i \in DOMAIN runs'
                 PROVE  /\ runs'[i].model \in Stored'
                        /\ \/ runs'[i].model \in overwritten'
                           \/ runs'[i].params = models'[runs'[i].model].params
      BY DEF RunsRecord
    <3>1. CASE i \in DOMAIN runs
      BY <1>1, <1>3, <2>5, <3>1 DEF ApprovalInv, RunsRecord
    <3>2. CASE i = Len(runs) + 1
      BY <1>1, <1>3, <1>5, <2>1, <2>5, <3>2
    <3> QED BY <2>5, <3>1, <3>2
  <2> QED BY <2>9, <2>10, <2>11 DEF ApprovalInv
<1> QED BY <1>2, <1>4, <1>5

\* A context is judged, or the run is completed: nobody else writes this run.
LEMMA JudgingVetted ==
    ASSUME TypeInv, TypeInv', ApprovalInv, NEW p \in Programs,
           JudgeContext(p) \/ CompleteRun(p)
    PROVE  ApprovalInv'
<1> DEFINE c == prog[p]
           i == c.run
<1>1. /\ c.pc \in Judging /\ c \in Program /\ runs \in Seq(Run) /\ models' = models
      /\ source' = source /\ overwritten' = overwritten /\ Vetted(c)
  BY DEF JudgeContext, CompleteRun, At, Judging, TypeInv, TypeOK, ApprovalInv, AllVetted
<1>2. i \in DOMAIN runs /\ ~runs[i].passed
  BY <1>1 DEF Vetted
<1>3. Stored' = Stored /\ RowsKept
  BY <1>1 DEF Stored, RowsKept
<1>4. ASSUME DOMAIN runs' = DOMAIN runs,
             \A j \in DOMAIN runs : j # i => runs'[j] = runs[j],
             runs'[i].model = runs[i].model, runs'[i].params = runs[i].params,
             Vetted(prog[p])',
             \A q \in Programs : q # p => prog'[q] = prog[q],
             prog'[p].pc \in Judging => prog'[p].run = i
      PROVE  ApprovalInv'
  <2>1. \A q \in Programs : q # p /\ prog[q].pc \in Judging =>
                              prog[q].run # i /\ prog[q].run \in DOMAIN runs
    BY <1>1 DEF ApprovalInv, OwnRuns, AllVetted, Vetted
  <2> HIDE DEF i
  <2>2. RunsKept
    BY <1>2, <1>4 DEF RunsKept
  <2>3. AllVetted' /\ OwnRuns'
    BY <1>3, <1>4, <2>1, <2>2, OthersVetted
  <2>4. RunsRecord' /\ FinalsApproved'
    BY <1>1, <1>3, <1>4, <2>2, RunsStayRecorded, FinalsStayApproved
  <2> QED BY <2>3, <2>4 DEF ApprovalInv
<1>5. ASSUME NEW x \in Run, NEW S
      PROVE  /\ [x EXCEPT !.judged = S].model = x.model
             /\ [x EXCEPT !.judged = S].params = x.params
             /\ [x EXCEPT !.judged = S].passed = x.passed
             /\ [[x EXCEPT !.status = "completed"] EXCEPT !.passed = S].model = x.model
             /\ [[x EXCEPT !.status = "completed"] EXCEPT !.passed = S].params = x.params
  BY DEF Run
<1>6. runs[i] \in Run
  BY <1>1, <1>2
<1>7. CASE JudgeContext(p)
  <2> DEFINE d == [c EXCEPT !.left = @ - 1]
             S == runs[i].judged \cup {scores[c.target]}
  <2>1. c.left \in 1..Contexts
    BY <1>7 DEF JudgeContext, At, TypeInv, Known, Fits
  <2>2. /\ d \in Program /\ d.cmd = c.cmd /\ d.base = c.base /\ d.basis = c.basis
        /\ d.run = i
    <3>1. c.left - 1 \in 0..Contexts
      BY <2>1, BoundAssumption
    <3> QED BY <1>1, <3>1 DEF Program
  <2>3. PICK label \in Judging : Goto(p, d, label)
    BY <1>7 DEF JudgeContext, Judging
  <2>4. label \in Labels
    BY DEF Labels, Judging
  <2>5. runs' = [runs EXCEPT ![i] = [runs[i] EXCEPT !.judged = S]]
    BY <1>7 DEF JudgeContext
  <2> HIDE DEF d, S
  <2>6. /\ \A q \in Programs : q # p => prog'[q] = prog[q]
        /\ prog'[p].pc = label /\ prog'[p].cmd = c.cmd /\ prog'[p].base = c.base
        /\ prog'[p].basis = c.basis /\ prog'[p].run = i
    BY <2>2, <2>3, <2>4, GotoGives
  <2> HIDE DEF c, i
  <2>7. /\ DOMAIN runs' = DOMAIN runs
        /\ \A j \in DOMAIN runs : j # i => runs'[j] = runs[j]
        /\ runs'[i] = [runs[i] EXCEPT !.judged = S]
    BY <1>2, <2>5
  <2>8. /\ runs'[i].model = runs[i].model /\ runs'[i].params = runs[i].params
        /\ ~runs'[i].passed
    BY <1>2, <1>5, <1>6, <2>7
  <2>9. Vetted(prog[p])'
    <3>1. prog'[p].cmd = "finalize" =>
            /\ prog'[p].base \in Stored'
            /\ prog'[p].base \in overwritten' \/ prog'[p].basis = models'[prog'[p].base].params
      BY <1>1, <1>3, <2>6 DEF Vetted
    <3>2. prog'[p].pc # "Upsert"
      BY <2>6 DEF Judging
    <3>3. prog'[p].run \in DOMAIN runs' /\ ~runs'[prog'[p].run].passed
      BY <1>2, <2>6, <2>7, <2>8
    <3> QED BY <3>1, <3>2, <3>3 DEF Vetted
  <2> QED BY <1>4, <2>6, <2>7, <2>8, <2>9
<1>8. CASE CompleteRun(p)
  <2>1. PICK passed \in BOOLEAN :
          runs' = [runs EXCEPT ![i].status = "completed", ![i].passed = passed]
    BY <1>8 DEF CompleteRun, OwnRun
  <2>2. /\ DOMAIN runs' = DOMAIN runs
        /\ \A j \in DOMAIN runs : j # i => runs'[j] = runs[j]
        /\ runs'[i].model = runs[i].model /\ runs'[i].params = runs[i].params
    <3> HIDE DEF i
    <3>1. runs'[i] = [[runs[i] EXCEPT !.status = "completed"] EXCEPT !.passed = passed]
      BY <1>2, <2>1
    <3>2. /\ DOMAIN runs' = DOMAIN runs
          /\ \A j \in DOMAIN runs : j # i => runs'[j] = runs[j]
      BY <1>2, <2>1
    <3> QED BY <1>5, <1>6, <3>1, <3>2
  <2>3. CASE Exit(p)
    <3>1. (\A q \in Programs : q # p => prog'[q] = prog[q]) /\ prog'[p] = NoProgram
      BY <2>3, ExitGives DEF Exit
    <3>2. NoProgram.pc \notin Judging /\ NoProgram.cmd # "finalize"
      BY DEF NoProgram, Judging
    <3>3. Vetted(prog[p])' /\ prog'[p].pc \notin Judging
      BY <3>1, <3>2 DEF Vetted
    <3> QED BY <1>4, <2>2, <3>1, <3>3
  <2>4. CASE ~Exit(p)
    <3> DEFINE d == [c EXCEPT !.at = @ + 1, !.target = CandidateName[c.base][c.at + 1],
                              !.read = None, !.run = 0]
    <3>1. HasNext(c) /\ Goto(p, d, "Upsert")
      BY <1>8, <2>4 DEF CompleteRun
    <3>2. d.cmd = c.cmd /\ c.cmd = "calibrate"
      BY <1>1, <3>1 DEF HasNext, Program
    <3>3. \A q \in Programs : q # p => prog'[q] = prog[q]
      BY <3>1 DEF Goto, TypeInv, TypeOK
    <3>4. prog'[p].cmd = "calibrate" /\ prog'[p].pc = "Upsert"
      <4>1. prog'[p] = [d EXCEPT !.pc = "Upsert"] /\ prog'[p] \in Program
        BY <3>1 DEF Goto, TypeInv, TypeOK
      <4> HIDE DEF d, c
      <4>2. "cmd" \in DOMAIN d /\ "pc" \in DOMAIN d
        BY <4>1 DEF Program
      <4> QED BY <3>2, <4>1, <4>2
    <3>5. Vetted(prog[p])' /\ prog'[p].pc \notin Judging
      BY <3>4 DEF Vetted, Judging
    <3> QED BY <1>4, <2>2, <3>3, <3>5
  <2> QED BY <2>3, <2>4
<1> QED BY <1>7, <1>8

LEMMA ApprovalInit == Init => ApprovalInv
<1> SUFFICES ASSUME Init PROVE ApprovalInv
  OBVIOUS
<1>1. runs = <<>> /\ \A m \in Stored : source[m] = None
  BY SeedAssumption DEF Init, Stored
<1>2. \A p \in Programs : prog[p] = NoProgram
  BY DEF Init
<1>3. NoProgram.pc \notin Judging
  BY DEF NoProgram, Judging
<1>4. DOMAIN runs = {}
  BY <1>1
<1> QED
  BY <1>1, <1>2, <1>3, <1>4, NoProgramVetted
  DEF ApprovalInv, RunsRecord, AllVetted, OwnRuns, FinalsApproved

LEMMA ApprovalStep ==
    ASSUME TypeInv, TypeInv', RegistryInv, ApprovalInv, [Next]_vars
    PROVE  ApprovalInv'
<1>1. CASE Next
  <2>1. PICK p \in Programs :
          \/ ComputeScores(p) \/ Evaluate(p) \/ Calibrate(p) \/ Finalize(p)
          \/ Step(p) \/ Fail(p)
    BY Zenon, <1>1 DEF Next
  <2> QED
    BY <2>1, LaunchVetted, ApprovalVetted, UpsertVetted, ErrandsVetted, StartRunVetted,
       JudgingVetted DEF Step
<1>2. CASE UNCHANGED vars
  BY <1>2 DEF vars, ApprovalInv, RunsRecord, AllVetted, Vetted, Approved, OwnRuns,
              FinalsApproved, Stored
<1> QED BY <1>1, <1>2

\* What finalize publishes was approved, whatever is evaluated, calibrated, finalized
\* and written over meanwhile: the base model has passed an evaluation, and unless its
\* own parameters were ever changed by an upsert, with what is published.
THEOREM FinalsAlwaysApproved == Spec => []FinalsApproved
<1>1. TypeInv /\ TypeInv' /\ RegistryInv /\ ApprovalInv /\ [Next]_vars => ApprovalInv'
  BY ApprovalStep
<1>2. ApprovalInv => FinalsApproved
  BY DEF ApprovalInv
<1> QED BY <1>1, <1>2, ApprovalInit, RegistryInvariant, PTL DEF Spec

-----------------------------------------------------------------------------
(* Scores and runs of the models that are worked on by one program at a time *)

Coherent(m) == scores[m] # None => scores[m] = BatchOf(m)

\* The program has written the row of its target and is about to score it.
Mending(c) == c.cmd \in {"calibrate", "finalize"} /\ c.pc \in {"ReadModel"} \cup Scoring

\* What the program has read still is what the row says.
UpToDate(c) ==
    /\ c.pc = "ReadModel" /\ c.cmd \in {"calibrate", "finalize"} =>
         c.target \in Stored /\ c.until = models[c.target].until
    /\ c.pc \in Scoring => c.target \in Stored /\ c.read = BatchOf(c.target)
    /\ c.pc \in Judging =>
         /\ c.target \in Stored
         /\ BatchOf(c.target) = [params |-> runs[c.run].params, until |-> runs[c.run].until]

JudgesItsTarget(c) ==
    c.pc \in Judging => c.run \in DOMAIN runs /\ runs[c.run].model = c.target

JudgesItsOwn(r) == \A b \in r.judged \ {None} : b = [params |-> r.params, until |-> r.until]

\* Two programs work on the same model: that is recorded.
SharingRecorded ==
    \A p, q \in Programs :
        p # q /\ prog[p].target = prog[q].target => prog[p].target \notin Models \ disturbed

\* Nothing is claimed of a disturbed model, except that a run belongs to its program.
WorkInv ==
    /\ SharingRecorded
    /\ \A m \in Stored \ disturbed :
         Coherent(m) \/ \E p \in Programs : Mending(prog[p]) /\ prog[p].target = m
    /\ \A p \in Programs : /\ prog[p].target \in Models \ disturbed => UpToDate(prog[p])
                           /\ JudgesItsTarget(prog[p])
    /\ \A i \in DOMAIN runs : runs[i].model \notin disturbed => JudgesItsOwn(runs[i])

\* Only p moves, and may end programs that work on its model; if it shares its new
\* target with another one, that is recorded.
Moved(p) ==
    /\ disturbed \subseteq disturbed'
    /\ \A q \in Programs : q # p =>
         \/ prog'[q] = prog[q]
         \/ prog'[q] = NoProgram /\ prog[q].target = prog[p].target
    /\ \A q \in Programs : q # p /\ prog[q].target = prog'[p].target =>
         prog'[p].target \notin Models \ disturbed'

\* Only the row and the scores of m may change, and runs keep what they recorded.
TouchesOnly(m) ==
    /\ Stored \subseteq Stored' /\ Stored' \subseteq Stored \cup {m}
    /\ \A x \in Stored : x # m =>
         BatchOf(x)' = BatchOf(x) /\ models'[x].until = models[x].until /\ scores'[x] = scores[x]
    /\ \A i \in DOMAIN runs :
         /\ i \in DOMAIN runs' /\ runs'[i].model = runs[i].model
         /\ runs'[i].params = runs[i].params /\ runs'[i].until = runs[i].until

LEMMA NoProgramFacts ==
    /\ NoProgram.pc = "idle" /\ NoProgram.cmd = "none" /\ NoProgram.target = None
    /\ None \notin Models
BY NoneAssumption DEF NoProgram

LEMMA GotoMoves ==
    ASSUME TypeInv, TypeInv', NEW p \in Programs, NEW c, NEW label, Goto(p, c, label)
    PROVE  Moved(p)
<1>1. /\ \A q \in Programs : q # p => prog'[q] = prog[q]
      /\ prog'[p].target = c.target
  BY GotoFacts
<1>2. disturbed' = disturbed \cup Shared(p, c.target)
  BY DEF Goto
<1> QED BY <1>1, <1>2 DEF Moved, Shared

LEMMA StoppedMoves ==
    ASSUME TypeInv, NEW p \in Programs, Stopped(p), disturbed \subseteq disturbed'
    PROVE  Moved(p)
BY ExitGives, NoProgramFacts DEF Moved

\* What a program that does not move knows stays true.
LEMMA StaysUpToDate ==
    ASSUME TypeInv, WorkInv, NEW p \in Programs, Moved(p), TouchesOnly(prog[p].target),
           NEW q \in Programs, q # p, prog'[q] = prog[q],
           prog[q].target \in Models \ disturbed'
    PROVE  UpToDate(prog[q])'
<1>1. prog[q].target \in Models \ disturbed
  BY DEF Moved
<1>2. prog[q].target # prog[p].target
  BY <1>1 DEF WorkInv, SharingRecorded
<1>3. UpToDate(prog[q]) /\ JudgesItsTarget(prog[q])
  BY <1>1 DEF WorkInv
<1>4. prog[q].target \in Stored =>
        /\ prog[q].target \in Stored'
        /\ BatchOf(prog[q].target)' = BatchOf(prog[q].target)
        /\ models'[prog[q].target].until = models[prog[q].target].until
  BY <1>2 DEF TouchesOnly
<1>5. prog[q].pc \in Judging => /\ runs'[prog[q].run].params = runs[prog[q].run].params
                                /\ runs'[prog[q].run].until = runs[prog[q].run].until
  BY <1>3 DEF TouchesOnly, JudgesItsTarget
<1> QED BY <1>3, <1>4, <1>5 DEF UpToDate

\* The step of p keeps the invariant when p itself keeps its part of it.
LEMMA WorkKept ==
    ASSUME TypeInv, TypeInv', WorkInv, NEW p \in Programs, Moved(p), TouchesOnly(prog[p].target),
           prog'[p].target \in Models \ disturbed' => UpToDate(prog[p])',
           JudgesItsTarget(prog[p])',
           \A m \in Stored' \ disturbed' : m = prog[p].target =>
               Coherent(m)' \/ (Mending(prog'[p]) /\ prog'[p].target = m),
           \A i \in DOMAIN runs' : runs'[i].model \notin disturbed' => JudgesItsOwn(runs'[i])
    PROVE  WorkInv'
<1>1. SharingRecorded'
  <2> SUFFICES ASSUME NEW q \in Programs, NEW r \in Programs, q # r,
                      prog'[q].target = prog'[r].target, prog'[q].target \in Models \ disturbed'
               PROVE  FALSE
    BY DEF SharingRecorded
  <2>1. prog'[q] # NoProgram /\ prog'[r] # NoProgram
    BY NoProgramFacts
  <2>2. CASE q # p /\ r # p
    BY <2>1, <2>2 DEF Moved, WorkInv, SharingRecorded
  <2>3. CASE q = p \/ r = p
    BY <2>1, <2>3 DEF Moved
  <2> QED BY <2>2, <2>3
<1>2. ASSUME NEW m \in Stored' \ disturbed'
      PROVE  Coherent(m)' \/ \E q \in Programs : Mending(prog'[q]) /\ prog'[q].target = m
  <2>1. CASE m = prog[p].target
    BY <2>1
  <2>2. CASE m # prog[p].target
    <3>1. /\ m \in Stored \ disturbed /\ BatchOf(m)' = BatchOf(m) /\ scores'[m] = scores[m]
      BY <2>2 DEF TouchesOnly, Moved
    <3>2. CASE Coherent(m)
      BY <3>1, <3>2 DEF Coherent
    <3>3. ASSUME NEW q \in Programs, Mending(prog[q]), prog[q].target = m
          PROVE  Mending(prog'[q]) /\ prog'[q].target = m
      BY <2>2, <3>3 DEF Moved
    <3> QED BY <3>1, <3>2, <3>3 DEF WorkInv
  <2> QED BY <2>1, <2>2
<1>3. ASSUME NEW q \in Programs
      PROVE  /\ prog'[q].target \in Models \ disturbed' => UpToDate(prog[q])'
             /\ JudgesItsTarget(prog[q])'
  <2>1. CASE q = p
    BY <2>1
  <2>2. CASE q # p /\ prog'[q] = NoProgram
    BY <2>2, NoProgramFacts DEF JudgesItsTarget, Judging
  <2>3. CASE q # p /\ prog'[q] = prog[q]
    <3>1. prog'[q].target \in Models \ disturbed' => UpToDate(prog[q])'
      BY <2>3, StaysUpToDate
    <3>2. JudgesItsTarget(prog[q])
      BY DEF WorkInv
    <3>3. JudgesItsTarget(prog[q])'
      BY <2>3, <3>2 DEF JudgesItsTarget, TouchesOnly
    <3> QED BY <3>1, <3>3
  <2> QED BY <2>1, <2>2, <2>3 DEF Moved
<1>4. \A m \in Stored' \ disturbed' :
        Coherent(m)' \/ \E q \in Programs : Mending(prog'[q]) /\ prog'[q].target = m
  BY <1>2
<1> QED BY <1>1, <1>3, <1>4 DEF WorkInv, Mending

\* Only the program that mends a model may have left it incoherent.
LEMMA CoherentUnlessMended ==
    ASSUME WorkInv, NEW p \in Programs, NEW m \in Stored \ disturbed, m = prog[p].target,
           Stored \subseteq Models, ~Mending(prog[p])
    PROVE  Coherent(m)
BY DEF WorkInv, SharingRecorded

LEMMA RunsStayOwn ==
    ASSUME WorkInv, disturbed \subseteq disturbed', runs' = runs
    PROVE  \A i \in DOMAIN runs' : runs'[i].model \notin disturbed' => JudgesItsOwn(runs'[i])
BY DEF WorkInv

\* Steps that touch no row, no scores and no run, after which p relies on nothing.
LEMMA QuietWork ==
    ASSUME TypeInv, TypeInv', WorkInv, NEW p \in Programs, Moved(p),
           Mending(prog[p]) => prog[p].target \in disturbed',
           Stored' = Stored, scores' = scores, runs' = runs,
           \A m \in Stored : BatchOf(m)' = BatchOf(m) /\ models'[m].until = models[m].until,
           prog'[p].pc \notin Judging \cup Scoring,
           prog'[p].pc = "ReadModel" => prog'[p].cmd = "compute"
    PROVE  WorkInv'
<1>1. TouchesOnly(prog[p].target)
  BY DEF TouchesOnly
<1>2. UpToDate(prog[p])' /\ JudgesItsTarget(prog[p])'
  BY DEF UpToDate, JudgesItsTarget
<1>3. ASSUME NEW m \in Stored' \ disturbed', m = prog[p].target PROVE Coherent(m)'
  <2>1. m \in Stored \ disturbed /\ ~Mending(prog[p]) /\ Stored \subseteq Models
    BY <1>3 DEF Moved, TypeInv, TypeOK, Stored
  <2>2. Coherent(m)
    BY <1>3, <2>1, CoherentUnlessMended
  <2>3. BatchOf(m)' = BatchOf(m) /\ scores'[m] = scores[m]
    BY <2>1
  <2> QED BY <2>2, <2>3 DEF Coherent
<1>4. \A i \in DOMAIN runs' : runs'[i].model \notin disturbed' => JudgesItsOwn(runs'[i])
  BY RunsStayOwn DEF Moved
<1> QED BY <1>1, <1>2, <1>3, <1>4, WorkKept

\* Commands begin, finalize looks for its approval and activates, programs fail; a
\* failure leaves a row without its scores, which is recorded.
LEMMA QuietStepsWork ==
    ASSUME TypeInv, TypeInv', WorkInv, NEW p \in Programs,
           \/ ComputeScores(p) \/ Evaluate(p) \/ Calibrate(p) \/ Finalize(p)
           \/ FindApproval(p)
           \/ Deactivate(p) \/ DeactivateRows(p) \/ Activate(p) \/ CommitActivation(p)
           \/ Fail(p)
    PROVE  WorkInv'
<1>1. Mending(prog[p]) => prog[p].target \in disturbed'
  <2>1. CASE Fail(p)
    <3>1. Mending(prog[p]) => prog[p].target \in Unscored(prog[p])
      BY DEF TypeInv, Known, Fits, Mending, Scoring, Unscored
    <3> QED BY <2>1, <3>1 DEF Fail
  <2>2. CASE ~Fail(p)
    BY <2>2 DEF ComputeScores, Evaluate, Calibrate, Finalize, Launch, FindApproval, Deactivate,
                DeactivateRows, Activate, CommitActivation, At, Mending, Scoring
  <2> QED BY <2>1, <2>2
<1>2. /\ Stored' = Stored /\ scores' = scores /\ runs' = runs
      /\ \A m \in Stored : BatchOf(m)' = BatchOf(m) /\ models'[m].until = models[m].until
  <2>1. CASE CommitActivation(p)
    <3> DEFINE on(m) == m = prog[p].target \/ (models[m].active /\ m \notin prog[p].seen)
    <3>1. /\ scores' = scores /\ runs' = runs
          /\ models' = [m \in Stored |-> [models[m] EXCEPT !.active = on(m)]]
      BY <2>1 DEF CommitActivation
    <3>2. \A m \in Stored : models[m] \in Row
      BY DEF TypeInv, TypeOK, Stored
    <3> HIDE DEF on
    <3>3. \A m \in Stored : models'[m].params = models[m].params
                            /\ models'[m].until = models[m].until
      BY <3>1, <3>2 DEF Row
    <3>4. Stored' = Stored
      BY <3>1 DEF Stored
    <3> QED BY <3>1, <3>3, <3>4 DEF BatchOf
  <2>2. CASE ~CommitActivation(p)
    <3>1. models' = models /\ scores' = scores /\ runs' = runs
      BY <2>2 DEF ComputeScores, Evaluate, Calibrate, Finalize, Launch, FindApproval,
                  Deactivate, DeactivateRows, Activate, Fail
    <3> QED BY <3>1 DEF Stored, BatchOf
  <2> QED BY <2>1, <2>2
<1>3. CASE ComputeScores(p)
  <2>1. PICK m \in Scorable, until \in Dates \cup {None} :
          Goto(p, [NoProgram EXCEPT !.cmd = "compute", !.target = m, !.until = until],
               "ReadModel")
    BY Zenon, <1>3 DEF ComputeScores
  <2> DEFINE c == [NoProgram EXCEPT !.cmd = "compute", !.target = m, !.until = until]
  <2>2. c \in Program /\ c.cmd = "compute" /\ "ReadModel" \in Labels
    BY NoProgramType, InstanceAssumption DEF Program, Cmds, Labels
  <2>3. Goto(p, c, "ReadModel")
    BY <2>1
  <2> HIDE DEF c
  <2>4. Moved(p) /\ prog'[p].pc = "ReadModel" /\ prog'[p].cmd = "compute"
    BY <2>2, <2>3, GotoGives, GotoMoves
  <2> QED BY <1>1, <1>2, <2>4, QuietWork DEF Judging, Scoring
<1>4. CASE Stopped(p) /\ disturbed \subseteq disturbed'
  <2>1. Moved(p) /\ prog'[p].pc = "idle"
    BY <1>4, StoppedMoves, ExitFacts
  <2> QED BY <1>1, <1>2, <2>1, QuietWork DEF Judging, Scoring
<1>5. CASE ~ComputeScores(p) /\ ~(Stopped(p) /\ disturbed \subseteq disturbed')
  <2> DEFINE labels == {"StartRun", "Upsert", "FindApproval", "DeactivateRows", "Activate",
                        "CommitActivation"}
  <2>1. \E c : \E label \in labels : Goto(p, c, label)
    <3>1. CASE Evaluate(p) BY <3>1 DEF Evaluate
    <3>2. CASE Calibrate(p) BY Zenon, <1>5, <3>2 DEF Calibrate, Exit
    <3>3. CASE Finalize(p) BY Zenon, <1>5, <3>3 DEF Finalize, Exit
    <3>4. CASE FindApproval(p) BY Zenon, <1>5, <3>4 DEF FindApproval, Exit
    <3>5. CASE Deactivate(p) BY <3>5 DEF Deactivate
    <3>6. CASE DeactivateRows(p) BY <3>6 DEF DeactivateRows
    <3>7. CASE Activate(p) BY <1>5, <3>7 DEF Activate, Exit
    <3>8. CASE CommitActivation(p) BY <1>5, <3>8 DEF CommitActivation, Exit
    <3>9. CASE Fail(p) BY <1>5, <3>9 DEF Fail
    <3> QED BY <1>5, <3>1, <3>2, <3>3, <3>4, <3>5, <3>6, <3>7, <3>8, <3>9
  <2>2. Moved(p) /\ prog'[p].pc \in labels
    BY <2>1, GotoMoves, GotoFacts
  <2>3. prog'[p].pc \notin Judging \cup Scoring \cup {"ReadModel"}
    BY <2>2 DEF Judging, Scoring
  <2> QED BY <1>1, <1>2, <2>2, <2>3, QuietWork
<1> QED BY <1>3, <1>4, <1>5

\* The row is written: its scores are out of date, and the program will mend them.
LEMMA UpsertWorks ==
    ASSUME TypeInv, TypeInv', WorkInv, NEW p \in Programs, Upsert(p)
    PROVE  WorkInv'
<1> DEFINE c == prog[p]
           m == c.target
           row == [params |-> NewParameters(c), until |-> c.until, active |-> m \in ActiveModels]
<1>1. /\ c.pc = "Upsert" /\ c \in Program /\ Fits(c) /\ scores' = scores /\ runs' = runs
      /\ models' = [x \in Stored \cup {m} |-> IF x = m THEN row ELSE models[x]]
      /\ Goto(p, c, "ReadModel") /\ "ReadModel" \in Labels
  BY DEF Upsert, At, AfterUpsert, Labels, TypeInv, TypeOK, Known
<1>2. c.cmd \in {"calibrate", "finalize"}
  BY <1>1 DEF Fits
<1>3. /\ prog'[p].pc = "ReadModel" /\ prog'[p].cmd = c.cmd /\ prog'[p].target = m
      /\ prog'[p].until = c.until /\ Moved(p)
  BY <1>1, GotoGives, GotoMoves
<1>4. row.until = c.until
  OBVIOUS
<1> HIDE DEF row, m, c
<1>5. /\ Stored' = Stored \cup {m} /\ models'[m].until = c.until
      /\ \A x \in Stored : x # m => models'[x] = models[x]
  BY <1>1, <1>4 DEF Stored
<1>6. TouchesOnly(prog[p].target)
  BY <1>1, <1>5 DEF TouchesOnly, BatchOf, m, c
<1>7. UpToDate(prog[p])' /\ JudgesItsTarget(prog[p])' /\ Mending(prog'[p])
  BY <1>2, <1>3, <1>5 DEF UpToDate, JudgesItsTarget, Mending, Judging, Scoring
<1>8. \A i \in DOMAIN runs' : runs'[i].model \notin disturbed' => JudgesItsOwn(runs'[i])
  BY <1>1, <1>3, RunsStayOwn DEF Moved
<1>9. prog'[p].target = prog[p].target
  BY <1>3 DEF m, c
<1> QED BY <1>3, <1>6, <1>7, <1>8, <1>9, WorkKept

\* A program that goes on with the scores of its target, having read its row.
LEMMA ScoringGoesOn ==
    ASSUME TypeInv, TypeInv', WorkInv, NEW p \in Programs, Moved(p),
           models' = models, scores' = scores, runs' = runs,
           prog'[p].target = prog[p].target, prog'[p].cmd = prog[p].cmd,
           prog'[p].pc \in Scoring,
           prog[p].target \in Models \ disturbed =>
               prog[p].target \in Stored /\ prog'[p].read = BatchOf(prog[p].target),
           Mending(prog[p]) => Mending(prog'[p])
    PROVE  WorkInv'
<1>1. Stored' = Stored /\ \A m : BatchOf(m)' = BatchOf(m)
  BY DEF Stored, BatchOf
<1>2. TouchesOnly(prog[p].target)
  BY <1>1 DEF TouchesOnly
<1>3. JudgesItsTarget(prog[p])'
  BY DEF JudgesItsTarget, Judging, Scoring
<1>4. prog'[p].target \in Models \ disturbed' => UpToDate(prog[p])'
  <2> SUFFICES ASSUME prog'[p].target \in Models \ disturbed' PROVE UpToDate(prog[p])'
    OBVIOUS
  <2>1. prog[p].target \in Stored /\ prog'[p].read = BatchOf(prog[p].target)
    BY DEF Moved
  <2>2. BatchOf(prog[p].target)' = BatchOf(prog[p].target)
    BY DEF BatchOf
  <2> QED BY <1>1, <2>1, <2>2 DEF UpToDate, Judging, Scoring
<1>5. ASSUME NEW m \in Stored' \ disturbed', m = prog[p].target
      PROVE  Coherent(m)' \/ Mending(prog'[p])
  <2>1. m \in Stored \ disturbed /\ Stored \subseteq Models
    BY <1>1 DEF Moved, TypeInv, TypeOK, Stored
  <2>2. Coherent(m) \/ Mending(prog[p])
    BY <1>5, <2>1, CoherentUnlessMended
  <2> QED BY <1>1, <2>2 DEF Coherent
<1>6. \A i \in DOMAIN runs' : runs'[i].model \notin disturbed' => JudgesItsOwn(runs'[i])
  BY RunsStayOwn DEF Moved
<1> QED BY <1>2, <1>3, <1>4, <1>5, <1>6, WorkKept

\* The row is read back and scored from what was read.
LEMMA ScoringWorks ==
    ASSUME TypeInv, TypeInv', RegistryInv, WorkInv, NEW p \in Programs,
           ReadModel(p) \/ Rewrite(p)
    PROVE  WorkInv'
<1> DEFINE c == prog[p]
           m == c.target
<1>1. /\ c \in Program /\ models' = models /\ scores' = scores /\ runs' = runs
      /\ m \in Models \ disturbed => UpToDate(c)
  BY DEF ReadModel, Rewrite, TypeInv, TypeOK, WorkInv
<1>2. CASE ReadModel(p)
  <2> DEFINE d == [c EXCEPT !.read = BatchOf(m)]
  <2>1. /\ c.pc = "ReadModel"
        /\ \/ Exit(p) /\ (m \notin Stored \/ c.until \notin {None, models[m].until})
           \/ m \in Stored /\ Goto(p, d, "Rewrite")
    BY <1>2 DEF ReadModel, At
  <2>2. CASE Exit(p) /\ (m \notin Stored \/ c.until \notin {None, models[m].until})
    <3>1. Mending(c) => m \in Models
      BY <2>1 DEF TypeInv, Known, Fits
    <3>2. Mending(c) => m \in disturbed
      BY <1>1, <2>1, <2>2, <3>1 DEF UpToDate, Mending, Scoring
    <3>3. Moved(p) /\ prog'[p].pc = "idle" /\ disturbed' = disturbed
      BY <2>2, StoppedMoves, ExitFacts DEF Exit
    <3>4. Stored' = Stored /\ \A x : BatchOf(x)' = BatchOf(x)
      BY <1>1 DEF Stored, BatchOf
    <3> QED BY <1>1, <3>2, <3>3, <3>4, QuietWork DEF Judging, Scoring
  <2>3. CASE m \in Stored /\ Goto(p, d, "Rewrite")
    <3>1. /\ BatchOf(m) \in Batch /\ "Rewrite" \in Labels
      BY <2>3 DEF BatchOf, Batch, TypeInv, TypeOK, Stored, Row, Labels
    <3>2. d \in Program /\ d.cmd = c.cmd /\ d.target = m /\ d.read = BatchOf(m)
      BY <1>1, <3>1 DEF Program
    <3> HIDE DEF d
    <3>3. /\ prog'[p].pc = "Rewrite" /\ prog'[p].cmd = c.cmd /\ prog'[p].target = m
          /\ prog'[p].read = BatchOf(m) /\ Moved(p)
      BY <2>3, <3>1, <3>2, GotoGives, GotoMoves
    <3>4. prog'[p].pc \in Scoring /\ (Mending(c) => Mending(prog'[p]))
      BY <3>3 DEF Mending, Scoring
    <3> QED BY <1>1, <2>3, <3>3, <3>4, ScoringGoesOn
  <2> QED BY <2>1, <2>2, <2>3
<1>3. CASE Rewrite(p)
  <2>1. c.pc \in Scoring
    BY <1>3 DEF Rewrite, Scoring
  <2>2. PICK label \in {"CommitScores", "Blocked"} : Goto(p, c, label)
    BY <1>3 DEF Rewrite
  <2>3. label \in Labels /\ label \in Scoring
    BY DEF Labels, Scoring
  <2>4. /\ prog'[p].pc = label /\ prog'[p].cmd = c.cmd /\ prog'[p].target = m
        /\ prog'[p].read = c.read /\ Moved(p)
    BY <1>1, <2>2, <2>3, GotoGives, GotoMoves
  <2>5. m \in Models \ disturbed => m \in Stored /\ c.read = BatchOf(m)
    BY <1>1, <2>1 DEF UpToDate
  <2>6. Mending(c) => Mending(prog'[p])
    BY <2>3, <2>4 DEF Mending
  <2> QED BY <1>1, <2>3, <2>4, <2>5, <2>6, ScoringGoesOn
<1> QED BY <1>2, <1>3

\* The commit ends programs that waited for the same scores, and mends the model.
LEMMA CommitScoresWorks ==
    ASSUME TypeInv, TypeInv', RegistryInv, WorkInv, NEW p \in Programs, CommitScores(p)
    PROVE  WorkInv'
<1> DEFINE c == prog[p]
           m == c.target
<1>1. /\ c \in Program /\ c.pc \in Scoring /\ runs' = runs /\ disturbed' = disturbed
      /\ m \in Models \ disturbed => UpToDate(c)
  BY DEF CommitScores, At, Scoring, TypeInv, TypeOK, WorkInv
<1>2. m \in Stored /\ models' = models /\ scores' = [scores EXCEPT ![m] = c.read]
  BY CommitScoresKeeps
<1>3. m \in Models /\ scores \in [Models -> Batch \cup {None}]
  BY <1>2 DEF TypeInv, TypeOK, Stored
<1>4. /\ prog'[p] = AfterScores(c)
      /\ \A q \in Programs : q # p => \/ prog'[q] = prog[q]
                                      \/ prog'[q] = NoProgram /\ prog[q].target = m
  BY DEF CommitScores
<1>5. /\ AfterScores(c).pc \in {"StartRun", "Deactivate", "idle"}
      /\ AfterScores(c).target \in {m, None}
  <2>1. CASE AfterScores(c) = [c EXCEPT !.pc = "StartRun"]
    BY <1>1, <2>1, MoveType DEF Labels
  <2>2. CASE AfterScores(c) = [c EXCEPT !.pc = "Deactivate"]
    BY <1>1, <2>2, MoveType DEF Labels
  <2>3. CASE AfterScores(c) = NoProgram
    BY <2>3, NoProgramFacts
  <2> QED BY <2>1, <2>2, <2>3 DEF AfterScores
<1>6. Moved(p)
  <2>1. ASSUME NEW q \in Programs, q # p, prog[q].target = prog'[p].target
        PROVE  prog'[p].target \notin Models \ disturbed'
    BY <1>1, <1>4, <1>5, <2>1, NoProgramFacts DEF WorkInv, SharingRecorded
  <2> QED BY <1>1, <1>4, <2>1 DEF Moved
<1>7. Stored' = Stored /\ \A x : BatchOf(x)' = BatchOf(x)
  BY <1>2 DEF Stored, BatchOf
<1>8. UpToDate(prog[p])' /\ JudgesItsTarget(prog[p])'
  BY <1>4, <1>5 DEF UpToDate, JudgesItsTarget, Scoring, Judging
<1>9. m \notin disturbed' => scores'[m] = BatchOf(m)
  BY <1>1, <1>2, <1>3 DEF UpToDate
<1> HIDE DEF c, m
<1>10. TouchesOnly(prog[p].target)
  BY <1>1, <1>2, <1>3, <1>7 DEF TouchesOnly, TypeInv, TypeOK, Stored, m, c
<1>11. \A x \in Stored' \ disturbed' : x = prog[p].target => Coherent(x)'
  BY <1>7, <1>9 DEF Coherent, m, c
<1>12. \A i \in DOMAIN runs' : runs'[i].model \notin disturbed' => JudgesItsOwn(runs'[i])
  BY <1>1, RunsStayOwn
<1> QED BY <1>6, <1>8, <1>10, <1>11, <1>12, WorkKept

\* A run records what the row says.
LEMMA StartRunWorks ==
    ASSUME TypeInv, TypeInv', WorkInv, NEW p \in Programs, StartRun(p)
    PROVE  WorkInv'
<1> DEFINE c == prog[p]
           m == c.target
           run == [model |-> m, params |-> models[m].params, until |-> models[m].until,
                   testFrom |-> c.testFrom, status |-> "running", passed |-> FALSE,
                   judged |-> {}]
           d == [c EXCEPT !.run = Len(runs) + 1, !.left = Contexts]
<1>1. /\ c \in Program /\ ~Mending(c) /\ runs \in Seq(Run)
      /\ models' = models /\ scores' = scores
  BY DEF StartRun, At, TypeInv, TypeOK, Mending, Scoring
<1>2. Stored' = Stored /\ \A x : BatchOf(x)' = BatchOf(x)
  BY <1>1 DEF Stored, BatchOf
<1>3. \/ Exit(p) /\ runs' = runs
      \/ m \in Stored /\ runs' = Append(runs, run) /\ Goto(p, d, "JudgeContext")
  BY DEF StartRun
<1>4. CASE Exit(p) /\ runs' = runs
  <2>1. Moved(p) /\ prog'[p].pc = "idle"
    BY <1>4, StoppedMoves, ExitFacts DEF Exit
  <2> QED BY <1>1, <1>2, <1>4, <2>1, QuietWork DEF Judging, Scoring
<1>5. CASE m \in Stored /\ runs' = Append(runs, run) /\ Goto(p, d, "JudgeContext")
  <2>1. /\ run.model = m /\ run.params = models[m].params /\ run.until = models[m].until
        /\ run.judged = {}
    OBVIOUS
  <2>2. d \in Program /\ d.target = m /\ d.run = Len(runs) + 1 /\ "JudgeContext" \in Labels
    <3>1. Len(runs) + 1 \in Nat /\ Contexts \in 0..Contexts
      BY <1>1, BoundAssumption
    <3> HIDE DEF c, run
    <3> QED BY ZenonT(40), <1>1, <3>1 DEF Program, Labels, m
  <2> HIDE DEF d, run
  <2>3. /\ prog'[p].pc = "JudgeContext" /\ prog'[p].target = m
        /\ prog'[p].run = Len(runs) + 1 /\ Moved(p)
    BY <1>5, <2>2, GotoGives, GotoMoves
  <2>4. /\ Len(runs) \in Nat /\ DOMAIN runs = 1..Len(runs)
        /\ DOMAIN runs' = 1..(Len(runs) + 1)
        /\ \A i \in DOMAIN runs : runs'[i] = runs[i]
        /\ runs'[Len(runs) + 1] = run
    BY <1>1, <1>5
  <2>5. TouchesOnly(prog[p].target)
    BY <1>1, <1>2, <2>4 DEF TouchesOnly
  <2>6. ASSUME NEW x \in Stored' \ disturbed', x = prog[p].target PROVE Coherent(x)'
    <3>1. x \in Stored \ disturbed /\ Stored \subseteq Models
      BY <1>2, <2>3, <2>6 DEF Moved, TypeInv, TypeOK, Stored
    <3>2. Coherent(x)
      BY <1>1, <2>6, <3>1, CoherentUnlessMended
    <3> QED BY <1>1, <1>2, <3>2 DEF Coherent
  <2> HIDE DEF c, m
  <2>7. UpToDate(prog[p])'
    BY <1>2, <1>5, <2>1, <2>3, <2>4 DEF UpToDate, BatchOf, Scoring, Judging
  <2>8. JudgesItsTarget(prog[p])'
    BY <2>1, <2>3, <2>4 DEF JudgesItsTarget
  <2>9. JudgesItsOwn(run)
    BY <2>1 DEF JudgesItsOwn
  <2>10. \A i \in DOMAIN runs' : runs'[i].model \notin disturbed' => JudgesItsOwn(runs'[i])
    BY <2>3, <2>4, <2>9 DEF WorkInv, Moved
  <2> QED BY <2>3, <2>5, <2>6, <2>7, <2>8, <2>10, WorkKept
<1> QED BY <1>3, <1>4, <1>5

\* The run is judged by the scores of its model and completed; while nobody else works
\* on the model these are the scores of what the run has recorded.
LEMMA JudgingWorks ==
    ASSUME TypeInv, TypeInv', WorkInv, NEW p \in Programs, JudgeContext(p) \/ CompleteRun(p)
    PROVE  WorkInv'
<1> DEFINE c == prog[p]
           m == c.target
           i == c.run
<1>1. /\ c \in Program /\ ~Mending(c) /\ c.pc \in Judging /\ runs \in Seq(Run)
      /\ models' = models /\ scores' = scores
      /\ m \in Models \ disturbed => UpToDate(c)
  BY DEF JudgeContext, CompleteRun, At, TypeInv, TypeOK, Mending, Scoring, Judging, WorkInv
<1>2. Stored' = Stored /\ \A x : BatchOf(x)' = BatchOf(x)
  BY <1>1 DEF Stored, BatchOf
<1>3. m \in Models /\ i \in DOMAIN runs /\ runs[i] \in Run /\ runs[i].model = m
  BY <1>1 DEF TypeInv, Known, Fits, WorkInv, JudgesItsTarget, Judging
<1>4. m \notin disturbed =>
        /\ m \in Stored /\ Coherent(m) /\ JudgesItsOwn(runs[i])
        /\ BatchOf(m) = [params |-> runs[i].params, until |-> runs[i].until]
  <2> SUFFICES ASSUME m \notin disturbed
               PROVE  /\ m \in Stored /\ Coherent(m) /\ JudgesItsOwn(runs[i])
                      /\ BatchOf(m) = [params |-> runs[i].params, until |-> runs[i].until]
    OBVIOUS
  <2>1. /\ m \in Stored
        /\ BatchOf(m) = [params |-> runs[i].params, until |-> runs[i].until]
    BY <1>1, <1>3 DEF UpToDate
  <2>2. Stored \subseteq Models
    BY DEF TypeInv, TypeOK, Stored
  <2>3. Coherent(m)
    BY <1>1, <2>1, <2>2, CoherentUnlessMended
  <2>4. JudgesItsOwn(runs[i])
    BY <1>3 DEF WorkInv
  <2> QED BY <2>1, <2>3, <2>4
<1>5. ASSUME NEW x \in Stored' \ disturbed', x = prog[p].target, Moved(p) PROVE Coherent(x)'
  BY <1>1, <1>2, <1>4, <1>5 DEF Coherent, Moved
<1>6. ASSUME NEW x \in Run, NEW S
      PROVE  /\ [x EXCEPT !.judged = S].model = x.model
             /\ [x EXCEPT !.judged = S].params = x.params
             /\ [x EXCEPT !.judged = S].until = x.until
             /\ [x EXCEPT !.judged = S].judged = S
             /\ [[x EXCEPT !.status = "completed"] EXCEPT !.passed = S].model = x.model
             /\ [[x EXCEPT !.status = "completed"] EXCEPT !.passed = S].params = x.params
             /\ [[x EXCEPT !.status = "completed"] EXCEPT !.passed = S].until = x.until
             /\ [[x EXCEPT !.status = "completed"] EXCEPT !.passed = S].judged = x.judged
  BY DEF Run
<1>7. ASSUME Moved(p), DOMAIN runs' = DOMAIN runs,
             \A j \in DOMAIN runs : j # i => runs'[j] = runs[j],
             runs'[i].model = runs[i].model, runs'[i].params = runs[i].params,
             runs'[i].until = runs[i].until,
             m \notin disturbed => JudgesItsOwn(runs'[i]),
             UpToDate(prog[p])' \/ m \in disturbed,
             prog'[p].pc \in Judging => prog'[p].run = i /\ prog'[p].target = m,
             prog'[p].pc \in Judging \cup {"idle", "Upsert"}
      PROVE  WorkInv'
  <2>1. TouchesOnly(prog[p].target)
    BY <1>1, <1>2, <1>7 DEF TouchesOnly
  <2>2. JudgesItsTarget(prog[p])'
    BY <1>3, <1>7 DEF JudgesItsTarget
  <2>3. \A j \in DOMAIN runs' : runs'[j].model \notin disturbed' => JudgesItsOwn(runs'[j])
    BY <1>3, <1>7 DEF WorkInv, Moved
  <2>4. prog'[p].target \in Models \ disturbed' => UpToDate(prog[p])'
    <3>1. CASE prog'[p].pc \in Judging
      BY <1>7, <3>1 DEF Moved
    <3>2. CASE prog'[p].pc \notin Judging
      BY <1>7, <3>2 DEF UpToDate, Scoring
    <3> QED BY <3>1, <3>2
  <2> QED BY <1>5, <1>7, <2>1, <2>2, <2>3, <2>4, WorkKept
<1>8. CASE JudgeContext(p)
  <2> DEFINE d == [c EXCEPT !.left = @ - 1]
             S == runs[i].judged \cup {scores[m]}
  <2>1. c.left \in 1..Contexts
    BY <1>8 DEF JudgeContext, At, TypeInv, Known, Fits
  <2>2. d \in Program /\ d.target = m /\ d.run = i
    <3>1. c.left - 1 \in 0..Contexts
      BY <2>1, BoundAssumption
    <3> QED BY <1>1, <3>1 DEF Program
  <2>3. PICK label \in Judging : Goto(p, d, label)
    BY <1>8 DEF JudgeContext, Judging
  <2>4. label \in Labels
    BY DEF Labels, Judging
  <2>5. runs' = [runs EXCEPT ![i] = [runs[i] EXCEPT !.judged = S]]
    BY <1>8 DEF JudgeContext
  <2> HIDE DEF d
  <2>6. prog'[p].pc = label /\ prog'[p].target = m /\ prog'[p].run = i /\ Moved(p)
    BY <2>2, <2>3, <2>4, GotoGives, GotoMoves
  <2>7. m \notin disturbed =>
          (scores[m] # None => scores[m] = [params |-> runs[i].params, until |-> runs[i].until])
    BY <1>4 DEF Coherent
  <2> HIDE DEF c, m, i, S
  <2>8. /\ DOMAIN runs' = DOMAIN runs
        /\ \A j \in DOMAIN runs : j # i => runs'[j] = runs[j]
        /\ runs'[i] = [runs[i] EXCEPT !.judged = S]
    BY <1>3, <2>5
  <2>9. /\ runs'[i].model = runs[i].model /\ runs'[i].params = runs[i].params
        /\ runs'[i].until = runs[i].until /\ runs'[i].judged = S
    BY <1>3, <1>6, <2>8
  <2>10. m \notin disturbed => JudgesItsOwn(runs'[i])
    BY <1>4, <2>7, <2>9 DEF JudgesItsOwn, S
  <2>11. UpToDate(prog[p])' \/ m \in disturbed
    BY <1>2, <1>4, <2>6, <2>9 DEF UpToDate, Scoring, Judging
  <2> QED BY <1>7, <2>6, <2>8, <2>9, <2>10, <2>11
<1>9. CASE CompleteRun(p)
  <2>1. PICK passed \in BOOLEAN :
          runs' = [runs EXCEPT ![i].status = "completed", ![i].passed = passed]
    BY <1>9 DEF CompleteRun, OwnRun
  <2>2. Exit(p) \/ \E d : Goto(p, d, "Upsert")
    BY <1>9 DEF CompleteRun
  <2>3. prog'[p].pc \in {"idle", "Upsert"} /\ Moved(p)
    BY <2>2, ExitFacts, GotoFacts, StoppedMoves, GotoMoves DEF Exit
  <2> HIDE DEF c, m, i
  <2>4. runs'[i] = [[runs[i] EXCEPT !.status = "completed"] EXCEPT !.passed = passed]
    BY <1>3, <2>1
  <2>5. /\ DOMAIN runs' = DOMAIN runs
        /\ \A j \in DOMAIN runs : j # i => runs'[j] = runs[j]
    BY <1>3, <2>1
  <2>6. /\ runs'[i].model = runs[i].model /\ runs'[i].params = runs[i].params
        /\ runs'[i].until = runs[i].until /\ runs'[i].judged = runs[i].judged
    BY <1>3, <1>6, <2>4
  <2>7. m \notin disturbed => JudgesItsOwn(runs'[i])
    BY <1>4, <2>6 DEF JudgesItsOwn
  <2>8. UpToDate(prog[p])' /\ prog'[p].pc \notin Judging
    BY <2>3 DEF UpToDate, Scoring, Judging
  <2> QED BY <1>7, <2>3, <2>5, <2>6, <2>7, <2>8
<1> QED BY <1>8, <1>9

LEMMA WorkInit == Init => WorkInv
<1> SUFFICES ASSUME Init PROVE WorkInv
  OBVIOUS
<1>1. runs = <<>> /\ (\A m \in Stored : scores[m] = None) /\ \A p \in Programs : prog[p] = NoProgram
  BY SeedAssumption DEF Init, Stored
<1>2. DOMAIN runs = {}
  BY <1>1
<1> QED BY <1>1, <1>2, NoProgramFacts
        DEF WorkInv, SharingRecorded, UpToDate, JudgesItsTarget, Coherent, Scoring, Judging

LEMMA WorkStep ==
    ASSUME TypeInv, TypeInv', RegistryInv, WorkInv, [Next]_vars
    PROVE  WorkInv'
<1>1. CASE Next
  <2>1. PICK p \in Programs :
          \/ ComputeScores(p) \/ Evaluate(p) \/ Calibrate(p) \/ Finalize(p)
          \/ Step(p) \/ Fail(p)
    BY Zenon, <1>1 DEF Next
  <2> QED
    BY <2>1, QuietStepsWork, UpsertWorks, ScoringWorks, CommitScoresWorks, StartRunWorks,
       JudgingWorks DEF Step
<1>2. CASE UNCHANGED vars
  <2>1. Stored' = Stored /\ \A m : BatchOf(m)' = BatchOf(m) /\ Coherent(m)' = Coherent(m)
    BY <1>2 DEF vars, Stored, BatchOf, Coherent
  <2>2. \A p : UpToDate(prog[p])' = UpToDate(prog[p])
    BY <1>2 DEF vars, Stored, BatchOf, UpToDate
  <2> QED BY <1>2, <2>1, <2>2 DEF vars, WorkInv, SharingRecorded, JudgesItsTarget
<1> QED BY <1>1, <1>2

LEMMA WorkInvariant == Spec => [](TypeInv /\ WorkInv)
<1>1. TypeInv /\ TypeInv' /\ RegistryInv /\ WorkInv /\ [Next]_vars => WorkInv'
  BY WorkStep
<1> QED BY <1>1, WorkInit, RegistryInvariant, PTL DEF Spec

\* However many programs run and fail, a model that nobody works on has the scores of
\* its row, or none, when the programs that worked on it did so one after the other and
\* none of them failed between the row and its scores.
THEOREM ScoresStayCurrent == Spec => []ScoresCurrent
<1>1. TypeInv /\ WorkInv => ScoresCurrent
  BY DEF TypeInv, TypeOK, WorkInv, ScoresCurrent, Coherent, Stored
<1> QED BY <1>1, WorkInvariant, PTL

\* Under the same conditions the scores that a run of the model has judged are those of
\* the parameters and the date it records.
THEOREM RunsJudgeWhatTheyRecord == Spec => []JudgedAsRecorded
<1>1. WorkInv => JudgedAsRecorded
  BY DEF WorkInv, JudgesItsOwn, JudgedAsRecorded
<1> QED BY <1>1, WorkInvariant, PTL

=============================================================================
