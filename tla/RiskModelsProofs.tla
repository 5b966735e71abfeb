-------------------------- MODULE RiskModelsProofs --------------------------
(* Proofs about RiskModels, for any constants that satisfy its assumptions. *)
EXTENDS RiskModels, SequenceTheorems, TLAPS

\* What a program knows when it is about to execute a statement: typing alone is
\* not inductive, the rows it writes are typed only because of this.
Scoring == {"Rewrite", "Blocked", "CommitScores"}
Fits(c) ==
    /\ c.pc # "idle" => c.target \in Models
    /\ c.cmd = "calibrate" => /\ c.base \in Models
                              /\ c.basis \in Params
                              /\ c.until \in Dates
                              /\ c.testFrom \in Dates
                              /\ c.at \in 1..Candidates
    /\ c.pc \in {"FindApproval", "Upsert"} => /\ c.cmd \in {"calibrate", "finalize"}
                                              /\ c.basis \in Params
                                              /\ c.until \in Dates
    /\ c.pc \in Scoring => c.read \in Batch
    /\ c.pc = "StartRun" => c.testFrom \in Dates
    /\ c.pc = "JudgeContext" => c.left \in 1..Contexts

Known == \A q \in Programs : Fits(prog[q])

ProgramsTyped == prog \in [Programs -> Program] /\ Known

TypeInv == TypeOK /\ Known

LEMMA NoProgramType == NoProgram \in Program /\ Fits(NoProgram)
BY GridAssumption, BoundAssumption
   DEF NoProgram, Program, Fits, Cmds, Labels, Scoring

\* A program that goes on at another label carries the same.
LEMMA MoveType ==
    ASSUME NEW c \in Program, NEW label \in Labels
    PROVE  LET d == [c EXCEPT !.pc = label] IN
           /\ d \in Program
           /\ d.pc = label /\ d.cmd = c.cmd /\ d.base = c.base /\ d.target = c.target
           /\ d.basis = c.basis /\ d.until = c.until /\ d.testFrom = c.testFrom
           /\ d.read = c.read /\ d.at = c.at /\ d.upto = c.upto /\ d.run = c.run
           /\ d.left = c.left /\ d.activate = c.activate /\ d.seen = c.seen
BY DEF Program

LEMMA GotoType ==
    ASSUME ProgramsTyped, NEW p \in Programs, NEW c \in Program, NEW label \in Labels,
           Goto(p, c, label), Fits([c EXCEPT !.pc = label])
    PROVE  ProgramsTyped'
<1> DEFINE d == [c EXCEPT !.pc = label]
<1>1. d \in Program BY MoveType
<1>2. prog' = [prog EXCEPT ![p] = d] BY DEF Goto
<1>3. Fits(d) OBVIOUS
<1> HIDE DEF d
<1>4. prog' \in [Programs -> Program] BY <1>1, <1>2 DEF ProgramsTyped
<1>5. ASSUME NEW q \in Programs PROVE Fits(prog'[q])
  <2>1. prog'[q] = IF q = p THEN d ELSE prog[q] BY <1>2 DEF ProgramsTyped
  <2> QED BY <1>3, <2>1 DEF ProgramsTyped, Known
<1> QED BY <1>4, <1>5 DEF ProgramsTyped, Known

LEMMA ExitType ==
    ASSUME ProgramsTyped, NEW p \in Programs, Stopped(p)
    PROVE  ProgramsTyped'
<1>1. prog' = [prog EXCEPT ![p] = NoProgram] BY DEF Stopped
<1>2. prog' \in [Programs -> Program] BY <1>1, NoProgramType DEF ProgramsTyped
<1>3. ASSUME NEW q \in Programs PROVE Fits(prog'[q])
  <2>1. prog'[q] = IF q = p THEN NoProgram ELSE prog[q] BY <1>1 DEF ProgramsTyped
  <2> QED BY <2>1, NoProgramType DEF ProgramsTyped, Known
<1> QED BY <1>2, <1>3 DEF ProgramsTyped, Known

\* The commands an operator starts.
LEMMA LaunchTyped ==
    ASSUME TypeInv, NEW p \in Programs,
           ComputeScores(p) \/ Evaluate(p) \/ Calibrate(p) \/ Finalize(p)
    PROVE  ProgramsTyped'
<1>0. ProgramsTyped BY DEF TypeInv, TypeOK, ProgramsTyped
<1>1. CASE ComputeScores(p)
  <2>1. PICK m \in Scorable, until \in Dates \cup {None} :
          Goto(p, [NoProgram EXCEPT !.cmd = "compute", !.target = m, !.until = until],
               "ReadModel")
    BY Zenon, <1>1 DEF ComputeScores
  <2> DEFINE c == [NoProgram EXCEPT !.cmd = "compute", !.target = m, !.until = until]
  <2>2. c \in Program /\ c.cmd = "compute" /\ c.target \in Models
    BY NoProgramType, InstanceAssumption DEF NoProgram, Program, Cmds
  <2> HIDE DEF c
  <2>3. Fits([c EXCEPT !.pc = "ReadModel"])
    BY <2>2, MoveType DEF Fits, Labels, Scoring
  <2>4. Goto(p, c, "ReadModel") BY <2>1 DEF c
  <2> QED BY <1>0, <2>2, <2>3, <2>4, GotoType DEF Labels
<1>2. CASE Evaluate(p)
  <2>1. PICK m \in Scorable, from \in Dates :
          Goto(p, [NoProgram EXCEPT !.cmd = "evaluate", !.target = m, !.testFrom = from],
               "StartRun")
    BY Zenon, <1>2 DEF Evaluate
  <2> DEFINE c == [NoProgram EXCEPT !.cmd = "evaluate", !.target = m, !.testFrom = from]
  <2>2. c \in Program /\ c.cmd = "evaluate" /\ c.target \in Models /\ c.testFrom \in Dates
    BY NoProgramType, InstanceAssumption DEF NoProgram, Program, Cmds
  <2> HIDE DEF c
  <2>3. Fits([c EXCEPT !.pc = "StartRun"])
    BY <2>2, MoveType DEF Fits, Labels, Scoring
  <2>4. Goto(p, c, "StartRun") BY <2>1 DEF c
  <2> QED BY <1>0, <2>2, <2>3, <2>4, GotoType DEF Labels
<1>3. CASE Calibrate(p)
  <2>1. PICK b \in Bases, until \in Dates, from \in Dates, n \in 1..Candidates :
          \/ Exit(p)
          \/ /\ b \in Stored
             /\ Goto(p, [NoProgram EXCEPT !.cmd = "calibrate", !.base = b, !.until = until,
                                          !.testFrom = from, !.basis = models[b].params,
                                          !.at = 1, !.upto = n,
                                          !.target = CandidateName[b][1]],
                     "Upsert")
    BY Zenon, <1>3 DEF Calibrate
  <2> DEFINE par == models[b].params
             name == CandidateName[b][1]
             c == [NoProgram EXCEPT !.cmd = "calibrate", !.base = b, !.until = until,
                                    !.testFrom = from, !.basis = par,
                                    !.at = 1, !.upto = n, !.target = name]
  <2>2. CASE b \in Stored /\ Goto(p, c, "Upsert")
    <3>1. par \in Params BY <2>2 DEF TypeInv, TypeOK, Row, Stored
    <3>2. name \in Models BY GridAssumption, InstanceAssumption
    <3>5. b \in Models /\ 1 \in 1..Candidates /\ 1 \in 0..Candidates /\ n \in 0..Candidates
      BY InstanceAssumption, GridAssumption
    <3> HIDE DEF par, name
    <3>3. /\ c \in Program /\ c.cmd = "calibrate" /\ c.target = name /\ c.base = b
          /\ c.basis = par /\ c.until = until /\ c.testFrom = from /\ c.at = 1
      BY <3>1, <3>2, <3>5, NoProgramType DEF NoProgram, Program, Cmds
    <3> HIDE DEF c
    <3>4. Fits([c EXCEPT !.pc = "Upsert"])
      BY <3>1, <3>2, <3>3, <3>5, MoveType DEF Fits, Labels, Scoring
    <3> QED BY <1>0, <2>2, <3>3, <3>4, GotoType DEF Labels
  <2> QED BY <1>0, <2>1, <2>2, ExitType DEF Exit
<1>4. CASE Finalize(p)
  <2>1. PICK b \in Bases, m \in Finals, until \in Dates, activate \in BOOLEAN :
          \/ Exit(p)
          \/ /\ b \in Stored
             /\ Goto(p, [NoProgram EXCEPT !.cmd = "finalize", !.base = b, !.target = m,
                                          !.basis = models[b].params, !.until = until,
                                          !.activate = activate],
                     "FindApproval")
    BY Zenon, <1>4 DEF Finalize
  <2> DEFINE par == models[b].params
             c == [NoProgram EXCEPT !.cmd = "finalize", !.base = b, !.target = m,
                                    !.basis = par, !.until = until,
                                    !.activate = activate]
  <2>2. CASE b \in Stored /\ Goto(p, c, "FindApproval")
    <3>1. par \in Params BY <2>2 DEF TypeInv, TypeOK, Row, Stored
    <3> HIDE DEF par
    <3>3. /\ c \in Program /\ c.cmd = "finalize" /\ c.target = m
          /\ c.basis = par /\ c.until = until
      BY <3>1, NoProgramType, InstanceAssumption
         DEF NoProgram, Program, Cmds
    <3> HIDE DEF c
    <3>4. Fits([c EXCEPT !.pc = "FindApproval"])
      BY <3>1, <3>3, MoveType, InstanceAssumption DEF Fits, Labels, Scoring
    <3> QED BY <1>0, <2>2, <3>3, <3>4, GotoType DEF Labels
  <2> QED BY <1>0, <2>1, <2>2, ExitType DEF Exit
<1> QED BY <1>1, <1>2, <1>3, <1>4

\* The program part of every statement but the commit of the scores.
LEMMA StatementsTyped ==
    ASSUME TypeInv, NEW p \in Programs,
           \/ FindApproval(p) \/ Upsert(p) \/ ReadModel(p) \/ Rewrite(p)
           \/ StartRun(p) \/ JudgeContext(p) \/ CompleteRun(p)
           \/ Deactivate(p) \/ DeactivateRows(p) \/ Activate(p) \/ CommitActivation(p)
           \/ Fail(p)
    PROVE  ProgramsTyped'
<1>0. ProgramsTyped BY DEF TypeInv, TypeOK, ProgramsTyped
<1> DEFINE c == prog[p]
<1>c. c \in Program /\ Fits(c) BY DEF TypeInv, TypeOK, Known
<1>1. CASE FindApproval(p)
  <2>1. c.pc = "FindApproval" /\ (Goto(p, c, "Upsert") \/ Exit(p))
    BY <1>1 DEF FindApproval, At
  <2> HIDE DEF c
  <2>2. Fits([c EXCEPT !.pc = "Upsert"]) BY <1>c, <2>1, MoveType DEF Fits, Labels, Scoring
  <2> QED BY <1>0, <1>c, <2>1, <2>2, GotoType, ExitType DEF Labels, Exit
<1>2. CASE Upsert(p)
  <2>1. c.pc = "Upsert" /\ Goto(p, c, "ReadModel") BY <1>2 DEF Upsert, At, AfterUpsert
  <2> HIDE DEF c
  <2>2. Fits([c EXCEPT !.pc = "ReadModel"]) BY <1>c, <2>1, MoveType DEF Fits, Labels, Scoring
  <2> QED BY <1>0, <1>c, <2>1, <2>2, GotoType DEF Labels
<1>3. CASE ReadModel(p)
  <2> DEFINE b == BatchOf(c.target)
             d == [c EXCEPT !.read = b]
  <2>1. /\ c.pc = "ReadModel"
        /\ Exit(p) \/ (c.target \in Stored /\ Goto(p, d, "Rewrite"))
    BY <1>3 DEF ReadModel, At
  <2>2. CASE c.target \in Stored /\ Goto(p, d, "Rewrite")
    <3>1. b \in Batch BY <2>2 DEF BatchOf, Batch, Stored, TypeInv, TypeOK, Row
    <3> HIDE DEF b, c
    <3>2. /\ d \in Program /\ d.cmd = c.cmd /\ d.base = c.base /\ d.target = c.target
          /\ d.basis = c.basis /\ d.until = c.until /\ d.testFrom = c.testFrom
          /\ d.at = c.at /\ d.read = b
      BY <1>c, <3>1 DEF Program
    <3> HIDE DEF d
    <3>3. Fits([d EXCEPT !.pc = "Rewrite"])
      BY <1>c, <2>1, <3>1, <3>2, MoveType DEF Fits, Labels, Scoring
    <3> QED BY <1>0, <2>2, <3>2, <3>3, GotoType DEF Labels
  <2> QED BY <1>0, <2>1, <2>2, ExitType DEF Exit
<1>4. CASE Rewrite(p)
  <2>1. /\ c.pc \in Scoring
        /\ Goto(p, c, "CommitScores") \/ Goto(p, c, "Blocked")
    BY <1>4 DEF Rewrite, Scoring
  <2> HIDE DEF c
  <2>2. Fits([c EXCEPT !.pc = "CommitScores"]) /\ Fits([c EXCEPT !.pc = "Blocked"])
    BY <1>c, <2>1, MoveType DEF Fits, Labels, Scoring
  <2> QED BY <1>0, <1>c, <2>1, <2>2, GotoType DEF Labels
<1>5. CASE StartRun(p)
  <2> DEFINE n == Len(runs) + 1
             d == [c EXCEPT !.run = n, !.left = Contexts]
  <2>1. c.pc = "StartRun" /\ (Exit(p) \/ Goto(p, d, "JudgeContext"))
    BY <1>5 DEF StartRun, At
  <2>2. n \in Nat /\ Contexts \in 0..Contexts /\ Contexts \in 1..Contexts
    BY BoundAssumption DEF TypeInv, TypeOK
  <2> HIDE DEF n, c
  <2>3. /\ d \in Program /\ d.cmd = c.cmd /\ d.base = c.base /\ d.target = c.target
        /\ d.basis = c.basis /\ d.until = c.until /\ d.testFrom = c.testFrom
        /\ d.at = c.at /\ d.left = Contexts
    BY <1>c, <2>2 DEF Program
  <2> HIDE DEF d
  <2>4. Fits([d EXCEPT !.pc = "JudgeContext"])
    BY <1>c, <2>1, <2>2, <2>3, MoveType DEF Fits, Labels, Scoring
  <2> QED BY <1>0, <2>1, <2>3, <2>4, GotoType, ExitType DEF Labels, Exit
<1>6. CASE JudgeContext(p)
  <2> DEFINE n == c.left - 1
             d == [c EXCEPT !.left = n]
  <2>1. /\ c.pc = "JudgeContext"
        /\ Goto(p, d, IF c.left = 1 THEN "CompleteRun" ELSE "JudgeContext")
    BY <1>c, <1>6 DEF JudgeContext, At, Program
  <2>2. c.left \in 1..Contexts BY <1>c, <2>1 DEF Fits
  <2>3. n \in 0..Contexts /\ (c.left # 1 => n \in 1..Contexts) BY <2>2, BoundAssumption
  <2> HIDE DEF n, c
  <2>4. /\ d \in Program /\ d.cmd = c.cmd /\ d.base = c.base /\ d.target = c.target
        /\ d.basis = c.basis /\ d.until = c.until /\ d.testFrom = c.testFrom
        /\ d.at = c.at /\ d.left = n
    BY <1>c, <2>3 DEF Program
  <2> HIDE DEF d
  <2>5. /\ Fits([d EXCEPT !.pc = "CompleteRun"])
        /\ c.left # 1 => Fits([d EXCEPT !.pc = "JudgeContext"])
    BY <1>c, <2>1, <2>3, <2>4, MoveType DEF Fits, Labels, Scoring
  <2> QED BY <1>0, <2>1, <2>4, <2>5, GotoType DEF Labels
<1>7. CASE CompleteRun(p)
  <2> DEFINE n == c.at + 1
             name == CandidateName[c.base][c.at + 1]
             d == [c EXCEPT !.at = n, !.target = name, !.read = None, !.run = 0]
  <2>1. Exit(p) \/ (HasNext(c) /\ Goto(p, d, "Upsert"))
    BY <1>c, <1>7 DEF CompleteRun, At, Program
  <2>2. CASE HasNext(c) /\ Goto(p, d, "Upsert")
    <3>1. c.cmd = "calibrate" /\ c.base \in Models /\ n \in 1..Candidates
      BY <1>c, <2>2, GridAssumption DEF HasNext, Fits, Program
    <3>2. name \in Models BY <3>1, GridAssumption
    <3>3. n \in 0..Candidates BY <3>1
    <3> HIDE DEF n, name, c
    <3>4. /\ d \in Program /\ d.cmd = c.cmd /\ d.base = c.base /\ d.target = name
          /\ d.basis = c.basis /\ d.until = c.until /\ d.testFrom = c.testFrom
          /\ d.at = n
      BY <1>c, <3>2, <3>3 DEF Program
    <3> HIDE DEF d
    <3>5. Fits([d EXCEPT !.pc = "Upsert"])
      BY <1>c, <3>1, <3>2, <3>4, MoveType DEF Fits, Labels, Scoring
    <3> QED BY <1>0, <2>2, <3>4, <3>5, GotoType DEF Labels
  <2> QED BY <1>0, <2>1, <2>2, ExitType DEF Exit
<1>8. CASE Deactivate(p) \/ DeactivateRows(p)
  <2>1. PICK S \in SUBSET Models, label \in {"DeactivateRows", "Activate"} :
          /\ c.pc \in {"Deactivate", "DeactivateRows"}
          /\ Goto(p, [c EXCEPT !.seen = S], label)
    <3>1. ActiveModels \in SUBSET Models BY DEF ActiveModels, Stored, TypeInv, TypeOK
    <3>2. CASE Deactivate(p) BY <3>1, <3>2 DEF Deactivate, At
    <3>3. CASE DeactivateRows(p)
      <4>1. c.seen \cap ActiveModels \in SUBSET Models BY <3>1
      <4> QED BY <3>3, <4>1 DEF DeactivateRows, At
    <3> QED BY <1>8, <3>2, <3>3
  <2> DEFINE d == [c EXCEPT !.seen = S]
  <2> HIDE DEF c
  <2>2. /\ d \in Program /\ d.cmd = c.cmd /\ d.base = c.base /\ d.target = c.target
        /\ d.basis = c.basis /\ d.until = c.until /\ d.testFrom = c.testFrom
        /\ d.at = c.at
    BY <1>c DEF Program
  <2> HIDE DEF d
  <2>3. Fits([d EXCEPT !.pc = label])
    BY <1>c, <2>1, <2>2, MoveType DEF Fits, Labels, Scoring
  <2>4. Goto(p, d, label) BY <2>1 DEF d
  <2> QED BY <1>0, <2>2, <2>3, <2>4, GotoType DEF Labels
<1>9. CASE Activate(p)
  <2>1. c.pc = "Activate" /\ (Goto(p, c, "CommitActivation") \/ Exit(p))
    BY <1>9 DEF Activate, At
  <2> HIDE DEF c
  <2>2. Fits([c EXCEPT !.pc = "CommitActivation"])
    BY <1>c, <2>1, MoveType DEF Fits, Labels, Scoring
  <2> QED BY <1>0, <1>c, <2>1, <2>2, GotoType, ExitType DEF Labels, Exit
<1>10. CASE CommitActivation(p) \/ Fail(p)
  BY <1>0, <1>10, ExitType DEF CommitActivation, Fail, Exit
<1> QED BY <1>1, <1>2, <1>3, <1>4, <1>5, <1>6, <1>7, <1>8, <1>9, <1>10

\* The commit of the scores, which also ends the programs that waited for it.
LEMMA CommitScoresTyped ==
    ASSUME TypeInv, NEW p \in Programs, CommitScores(p)
    PROVE  ProgramsTyped' /\ scores' \in [Models -> Batch \cup {None}]
<1> DEFINE c == prog[p]
           d == AfterScores(c)
<1>c. c \in Program /\ Fits(c) BY DEF TypeInv, TypeOK, Known
<1>1. /\ c.pc = "CommitScores"
      /\ scores' = [scores EXCEPT ![c.target] = c.read]
      /\ prog' = [q \in Programs |->
                   IF q = p THEN d
                   ELSE IF prog[q].pc = "Blocked" /\ prog[q].target = c.target
                   THEN NoProgram ELSE prog[q]]
  BY DEF CommitScores, At
<1>2. c.read \in Batch BY <1>c, <1>1 DEF Fits, Scoring
<1>3. d \in Program /\ Fits(d)
  <2> HIDE DEF c
  <2>1. CASE d = [c EXCEPT !.pc = "StartRun"] /\ c.cmd = "calibrate"
    <3>1. [c EXCEPT !.pc = "StartRun"] \in Program BY <1>c, MoveType DEF Labels
    <3>2. Fits([c EXCEPT !.pc = "StartRun"])
      BY <1>c, <1>1, <2>1, MoveType DEF Fits, Labels, Scoring
    <3> QED BY <2>1, <3>1, <3>2
  <2>2. CASE d = [c EXCEPT !.pc = "Deactivate"]
    <3>1. [c EXCEPT !.pc = "Deactivate"] \in Program BY <1>c, MoveType DEF Labels
    <3>2. Fits([c EXCEPT !.pc = "Deactivate"])
      BY <1>c, <1>1, MoveType DEF Fits, Labels, Scoring
    <3> QED BY <2>2, <3>1, <3>2
  <2>3. CASE d = NoProgram BY <2>3, NoProgramType
  <2> QED BY <2>1, <2>2, <2>3 DEF AfterScores
<1>4. scores' \in [Models -> Batch \cup {None}] BY <1>1, <1>2 DEF TypeInv, TypeOK
<1> HIDE DEF c, d
<1>5. ASSUME NEW q \in Programs PROVE prog'[q] \in Program /\ Fits(prog'[q])
  <2>1. prog'[q] \in {d, NoProgram, prog[q]} BY <1>1
  <2>2. prog[q] \in Program /\ Fits(prog[q]) BY DEF TypeInv, TypeOK, Known
  <2> QED BY <1>3, <2>1, <2>2, NoProgramType
<1>6. prog' = [q \in Programs |-> prog'[q]] BY <1>1
<1> QED BY <1>4, <1>5, <1>6 DEF ProgramsTyped, Known

\* What programs write into the runs table stays typed.
LEMMA RunUpdate ==
    ASSUME NEW table \in Seq(Run), NEW i \in DOMAIN table, NEW run \in Run
    PROVE  [table EXCEPT ![i] = run] \in Seq(Run)
<1>1. i \in 1..Len(table) OBVIOUS
<1> QED BY <1>1, ExceptSeq

LEMMA RunsTyped ==
    ASSUME TypeInv, NEW p \in Programs, StartRun(p) \/ JudgeContext(p) \/ CompleteRun(p)
    PROVE  runs' \in Seq(Run)
<1> DEFINE c == prog[p]
<1>c. c \in Program /\ Fits(c) BY DEF TypeInv, TypeOK, Known
<1>1. CASE StartRun(p)
  <2> DEFINE m == c.target
             run == [model |-> m, params |-> models[m].params, until |-> models[m].until,
                     testFrom |-> c.testFrom, status |-> "running", passed |-> FALSE,
                     judged |-> {}]
  <2>1. c.pc = "StartRun" /\ (UNCHANGED runs \/ (m \in Stored /\ runs' = Append(runs, run)))
    BY <1>1 DEF StartRun, At
  <2>2. CASE m \in Stored /\ runs' = Append(runs, run)
    <3>1. m \in Models /\ c.testFrom \in Dates /\ models[m] \in Row
      BY <1>c, <2>1, <2>2 DEF Fits, Stored, TypeInv, TypeOK
    <3>2. run \in Run BY <3>1 DEF Run, Row
    <3> HIDE DEF run
    <3> QED BY <2>2, <3>2 DEF TypeInv, TypeOK
  <2> QED BY <2>1, <2>2 DEF TypeInv, TypeOK
<1>2. CASE JudgeContext(p)
  <2> DEFINE b == scores[c.target]
  <2>1. c.pc = "JudgeContext" /\ runs' = [runs EXCEPT ![c.run].judged = @ \cup {b}]
    BY <1>2 DEF JudgeContext, At
  <2>2. b \in Batch \cup {None} BY <1>c, <2>1 DEF Fits, TypeInv, TypeOK
  <2> HIDE DEF b
  <2>3. CASE c.run \in DOMAIN runs
    <3> DEFINE run == [runs[c.run] EXCEPT !.judged = @ \cup {b}]
    <3>1. runs[c.run] \in Run BY <2>3 DEF TypeInv, TypeOK
    <3>2. run \in Run BY <2>2, <3>1 DEF Run
    <3>3. runs' = [runs EXCEPT ![c.run] = run] BY <2>1
    <3> HIDE DEF run, c
    <3> QED BY <2>3, <3>2, <3>3, RunUpdate DEF TypeInv, TypeOK
  <2>4. CASE c.run \notin DOMAIN runs
    <3>1. runs' = runs BY <2>1, <2>4 DEF TypeInv, TypeOK
    <3> QED BY <3>1 DEF TypeInv, TypeOK
  <2> QED BY <2>3, <2>4
<1>3. CASE CompleteRun(p)
  <2>1. PICK passed \in BOOLEAN :
          runs' = [runs EXCEPT ![c.run].status = "completed", ![c.run].passed = passed]
    BY <1>3 DEF CompleteRun, At, OwnRun
  <2>3. CASE c.run \in DOMAIN runs
    <3> DEFINE run == [[runs[c.run] EXCEPT !.status = "completed"] EXCEPT !.passed = passed]
    <3>1. runs[c.run] \in Run BY <2>3 DEF TypeInv, TypeOK
    <3>2. run \in Run BY <3>1 DEF Run
    <3>3. runs' = [runs EXCEPT ![c.run] = run] BY <2>1, <2>3
    <3> HIDE DEF run, c
    <3> QED BY <2>3, <3>2, <3>3, RunUpdate DEF TypeInv, TypeOK
  <2>4. CASE c.run \notin DOMAIN runs
    <3>1. runs' = runs BY <2>1, <2>4 DEF TypeInv, TypeOK
    <3> QED BY <3>1 DEF TypeInv, TypeOK
  <2> QED BY <2>3, <2>4
<1> QED BY <1>1, <1>2, <1>3

\* The models table, in the two statements that write it.
LEMMA ModelsTyped ==
    ASSUME TypeInv, NEW p \in Programs, Upsert(p) \/ CommitActivation(p)
    PROVE  DOMAIN models' \subseteq Models /\ models' \in [DOMAIN models' -> Row]
<1> DEFINE c == prog[p]
<1>c. c \in Program /\ Fits(c) BY DEF TypeInv, TypeOK, Known
<1>1. CASE Upsert(p)
  <2> DEFINE par == NewParameters(c)
             row == [params |-> par, until |-> c.until, active |-> c.target \in ActiveModels]
  <2>1. /\ c.pc = "Upsert"
        /\ models' = [x \in Stored \cup {c.target} |->
                        IF x = c.target THEN row ELSE models[x]]
    BY <1>1 DEF Upsert, At
  <2>2. /\ c.target \in Models /\ c.until \in Dates /\ c.basis \in Params
        /\ c.cmd = "calibrate" => c.at \in 1..Candidates
    BY <1>c, <2>1 DEF Fits
  <2>3. par \in Params BY <2>2, GridAssumption DEF NewParameters
  <2>4. row \in Row BY <2>2, <2>3 DEF Row
  <2> HIDE DEF row, par, c
  <2> QED BY <2>1, <2>2, <2>4 DEF TypeInv, TypeOK, Stored
<1>2. CASE CommitActivation(p)
  <2> DEFINE on(m) == m = c.target \/ (models[m].active /\ m \notin c.seen)
  <2>1. models' = [m \in Stored |-> [models[m] EXCEPT !.active = on(m)]]
    BY <1>2 DEF CommitActivation
  <2>2. ASSUME NEW m \in Stored PROVE [models[m] EXCEPT !.active = on(m)] \in Row
    <3>1. models[m] \in Row BY DEF TypeInv, TypeOK, Stored
    <3>2. on(m) \in BOOLEAN BY <3>1 DEF Row
    <3> HIDE DEF on
    <3> QED BY <3>1, <3>2 DEF Row
  <2> HIDE DEF on
  <2> QED BY <2>1, <2>2 DEF TypeInv, TypeOK, Stored
<1> QED BY <1>1, <1>2

\* Locks are given to the program that asks and returned by anyone.
LEMMA LocksTyped ==
    ASSUME TypeInv, Next
    PROVE  /\ rowLock' \in [Models -> Programs \cup {None}]
           /\ scoreLock' \in [Models -> Programs \cup {None}]
           /\ launched' \in [Cmds -> Nat]
<1>1. PICK q \in Programs :
        \/ ComputeScores(q) \/ Evaluate(q) \/ Calibrate(q) \/ Finalize(q)
        \/ Step(q) \/ Fail(q)
  BY Zenon DEF Next
<1>2. /\ rowLock \in [Models -> Programs \cup {None}]
      /\ scoreLock \in [Models -> Programs \cup {None}]
      /\ launched \in [Cmds -> Nat]
  BY DEF TypeInv, TypeOK
<1>3. /\ RowsReleased(q) \in [Models -> Programs \cup {None}]
      /\ ScoresReleased(q) \in [Models -> Programs \cup {None}]
  BY <1>2 DEF RowsReleased, ScoresReleased
<1>4. CASE ComputeScores(q) \/ Evaluate(q) \/ Calibrate(q) \/ Finalize(q)
  <2>1. PICK cmd \in Cmds : Launch(q, cmd)
    BY Zenon, <1>4 DEF ComputeScores, Evaluate, Calibrate, Finalize, Cmds
  <2> QED BY <1>2, <2>1 DEF Launch
<1>5. CASE Fail(q) BY <1>2, <1>3, <1>5 DEF Fail, RollBack
<1>6. CASE FindApproval(q) \/ Upsert(q) \/ ReadModel(q) \/ Deactivate(q)
  BY <1>2, <1>6 DEF FindApproval, Upsert, ReadModel, Deactivate, At
<1>7. CASE StartRun(q) \/ JudgeContext(q) \/ CompleteRun(q)
  BY <1>2, <1>7 DEF StartRun, JudgeContext, CompleteRun, At
<1>8. CASE Rewrite(q) BY <1>2, <1>8 DEF Rewrite
<1>9. CASE CommitScores(q) BY <1>2, <1>3, <1>9 DEF CommitScores, At
<1>10. CASE DeactivateRows(q) BY <1>2, <1>10 DEF DeactivateRows, At
<1>11. CASE Activate(q) BY <1>2, <1>3, <1>11 DEF Activate, At
<1>12. CASE CommitActivation(q) BY <1>2, <1>3, <1>12 DEF CommitActivation, At
<1> QED BY <1>1, <1>4, <1>5, <1>6, <1>7, <1>8, <1>9, <1>10, <1>11, <1>12 DEF Step

\* The tables, whichever program takes whichever step.
LEMMA TablesTyped ==
    ASSUME TypeInv, NEW p \in Programs,
           \/ ComputeScores(p) \/ Evaluate(p) \/ Calibrate(p) \/ Finalize(p)
           \/ Step(p) \/ Fail(p)
    PROVE  /\ DOMAIN models' \subseteq Models
           /\ models' \in [DOMAIN models' -> Row]
           /\ scores' \in [Models -> Batch \cup {None}]
           /\ runs' \in Seq(Run)
<1>1. /\ DOMAIN models \subseteq Models
      /\ models \in [DOMAIN models -> Row]
      /\ scores \in [Models -> Batch \cup {None}]
      /\ runs \in Seq(Run)
  BY DEF TypeInv, TypeOK
<1>2. CASE ComputeScores(p) \/ Evaluate(p) \/ Calibrate(p) \/ Finalize(p) \/ Fail(p)
  BY <1>1, <1>2 DEF ComputeScores, Evaluate, Calibrate, Finalize, Launch, Fail
<1>3. CASE FindApproval(p) \/ ReadModel(p) \/ Rewrite(p)
  BY <1>1, <1>3 DEF FindApproval, ReadModel, Rewrite
<1>4. CASE Deactivate(p) \/ DeactivateRows(p) \/ Activate(p)
  BY <1>1, <1>4 DEF Deactivate, DeactivateRows, Activate
<1>5. CASE Upsert(p) \/ CommitActivation(p)
  BY <1>1, <1>5, ModelsTyped DEF Upsert, CommitActivation
<1>6. CASE StartRun(p) \/ JudgeContext(p) \/ CompleteRun(p)
  BY <1>1, <1>6, RunsTyped DEF StartRun, JudgeContext, CompleteRun
<1>7. CASE CommitScores(p) BY <1>1, <1>7, CommitScoresTyped DEF CommitScores
<1> QED BY <1>2, <1>3, <1>4, <1>5, <1>6, <1>7 DEF Step

\* What is only remembered: the source of a row, and what has been done to it.
LEMMA HistoryTyped ==
    ASSUME TypeInv, NEW p \in Programs,
           \/ ComputeScores(p) \/ Evaluate(p) \/ Calibrate(p) \/ Finalize(p)
           \/ Step(p) \/ Fail(p)
    PROVE  /\ source' \in [Models -> Models \cup {None}]
           /\ overwritten' \subseteq Models
           /\ disturbed' \subseteq Models
<1>1. /\ source \in [Models -> Models \cup {None}]
      /\ overwritten \subseteq Models /\ disturbed \subseteq Models
  BY DEF TypeInv, TypeOK
<1>2. CASE Upsert(p)
  <2> DEFINE c == prog[p]
  <2>1. PICK changed \in SUBSET Stored :
          /\ source' = [source EXCEPT ![c.target] = IF c.cmd = "finalize" THEN c.base ELSE None]
          /\ overwritten' = overwritten \cup changed
    BY <1>2 DEF Upsert
  <2>2. c.base \in Models \cup {None} /\ Stored \subseteq Models
    BY DEF TypeInv, TypeOK, Program, Stored
  <2>3. disturbed' \subseteq Models
    BY <1>1, <1>2 DEF Upsert, Goto, Shared
  <2> HIDE DEF c
  <2> QED BY <1>1, <2>1, <2>2, <2>3
<1>3. CASE CommitScores(p)
  BY <1>1, <1>3 DEF CommitScores
<1>4. CASE ~Upsert(p) /\ ~CommitScores(p)
  <2>1. source' = source /\ overwritten' = overwritten
    <3>1. CASE ComputeScores(p) \/ Evaluate(p) \/ Calibrate(p) \/ Finalize(p) \/ Fail(p)
      BY <3>1 DEF ComputeScores, Evaluate, Calibrate, Finalize, Launch, Fail
    <3>2. CASE FindApproval(p) \/ ReadModel(p) \/ Rewrite(p) \/ Deactivate(p)
      BY <3>2 DEF FindApproval, ReadModel, Rewrite, Deactivate
    <3>3. CASE StartRun(p) \/ JudgeContext(p) \/ CompleteRun(p)
      BY <3>3 DEF StartRun, JudgeContext, CompleteRun
    <3>4. CASE DeactivateRows(p) \/ Activate(p) \/ CommitActivation(p)
      BY <3>4 DEF DeactivateRows, Activate, CommitActivation
    <3> QED BY <1>4, <3>1, <3>2, <3>3, <3>4 DEF Step
  <2>2. Fail(p) \/ Exit(p) \/ \E c, label : Goto(p, c, label)
    <3>1. CASE ComputeScores(p) \/ Evaluate(p) \/ Calibrate(p) \/ Finalize(p) \/ Fail(p)
      BY Zenon, <3>1 DEF ComputeScores, Evaluate, Calibrate, Finalize
    <3>2. CASE FindApproval(p) \/ ReadModel(p) \/ Rewrite(p) \/ Deactivate(p)
      BY <3>2 DEF FindApproval, ReadModel, Rewrite, Deactivate
    <3>3. CASE StartRun(p) \/ JudgeContext(p) \/ CompleteRun(p)
      BY <3>3 DEF StartRun, JudgeContext, CompleteRun
    <3>4. CASE DeactivateRows(p) \/ Activate(p) \/ CommitActivation(p)
      BY <3>4 DEF DeactivateRows, Activate, CommitActivation
    <3> QED BY <1>4, <3>1, <3>2, <3>3, <3>4 DEF Step
  <2>3. ASSUME NEW c, NEW label, Goto(p, c, label) PROVE disturbed' \subseteq Models
    BY <1>1, <2>3 DEF Goto, Shared
  <2>4. CASE Exit(p) BY <1>1, <2>1, <2>4 DEF Exit
  <2>5. CASE Fail(p)
    <3>1. disturbed' = disturbed \cup Unscored(prog[p]) BY <2>5 DEF Fail
    <3>2. Unscored(prog[p]) \subseteq Models BY Zenon DEF Unscored
    <3> QED BY <1>1, <2>1, <3>1, <3>2
  <2> QED BY <1>1, <2>1, <2>2, <2>3, <2>4, <2>5
<1> QED BY <1>2, <1>3, <1>4

LEMMA TypeInit == Init => TypeInv
<1> SUFFICES ASSUME Init PROVE TypeInv
  OBVIOUS
<1>1. prog = [q \in Programs |-> NoProgram] BY DEF Init
<1>2. prog \in [Programs -> Program] /\ Known BY <1>1, NoProgramType DEF Known
<1>3. models \in [DOMAIN models -> Row] /\ DOMAIN models \subseteq Models
  BY SeedAssumption, BoundAssumption DEF Init, Row, Dates
<1> QED BY <1>2, <1>3 DEF Init, TypeInv, TypeOK

LEMMA TypeStep == TypeInv /\ [Next]_vars => TypeInv'
<1> SUFFICES ASSUME TypeInv, [Next]_vars PROVE TypeInv'
  OBVIOUS
<1>1. CASE Next
  <2>1. PICK p \in Programs :
          \/ ComputeScores(p) \/ Evaluate(p) \/ Calibrate(p) \/ Finalize(p)
          \/ Step(p) \/ Fail(p)
    BY Zenon, <1>1 DEF Next
  <2>2. ProgramsTyped'
    BY <2>1, LaunchTyped, StatementsTyped, CommitScoresTyped DEF Step
  <2> QED BY <1>1, <2>1, <2>2, LocksTyped, TablesTyped, HistoryTyped
          DEF TypeInv, TypeOK, ProgramsTyped
<1>2. CASE UNCHANGED vars
  BY <1>2 DEF vars, TypeInv, TypeOK, Known
<1> QED BY <1>1, <1>2

LEMMA TypeInvariant == Spec => []TypeInv
BY TypeInit, TypeStep, PTL DEF Spec

\* In every reachable state the tables, the locks and what the programs carry have
\* their types: no program writes a row without parameters or a date, scores that
\* were computed from nothing, or a candidate beyond the grid.
THEOREM PipelineTypeCorrect == Spec => []TypeOK
<1>1. TypeInv => TypeOK
  BY DEF TypeInv
<1> QED BY <1>1, TypeInvariant, PTL

=============================================================================
