----------------------------- MODULE RiskModels -----------------------------
(***************************************************************************)
(* etl/risk_network_kde: the life of a risk model, from calibration to the *)
(* activation of the model the API serves.                                 *)
(*                                                                         *)
(* compute-scores, evaluate, calibrate and finalize are programs an        *)
(* operator starts, possibly several at a time.  They share the database   *)
(* and nothing else.  A step is one transaction; the transactions that can *)
(* wait for, or fail because of, another one (the rewriting of the scores  *)
(* and the activation) take a step per statement.  calibrate and finalize  *)
(* call compute_scores.run and evaluate.run, each with a connection of its *)
(* own, so nothing holds a transaction open across those calls.            *)
(*                                                                         *)
(* Scores are identified by what they were computed from: the parameters   *)
(* and train_until that compute-scores read from the row of the model.     *)
(***************************************************************************)
EXTENDS Naturals, Sequences, FiniteSets

CONSTANTS
    Models,       \* risk_model_versions.name, UNIQUE
    Seed,         \* the evaluation model the migration inserts
    Params,       \* values of risk_model_versions.parameters
    SeedParams,   \* those of the seed
    Candidates,   \* calibrate's grid: its combinations have numbers 1..Candidates
    CandidateName,\* [Models -> [1..Candidates -> Models]], the name of a candidate
    Override,     \* [Params -> [1..Candidates -> Params]], params.update(overrides)
    Contexts,     \* the number of contexts an evaluation reads one by one
    MaxDate,      \* bound: dates are 0..MaxDate
    Programs,     \* slots: at most Cardinality(Programs) programs run at once
    MaxCommands,  \* bound: how many times the operator starts each command
    Scorable,     \* models named with --model in this instance
    Bases,        \* models named with --base-model in this instance
    Finals,       \* models named with --final-model in this instance
    Events,       \* what else happens in this instance: failures
    None          \* SQL NULL, no model, no program, an argument left out

Cmds == {"compute", "evaluate", "calibrate", "finalize"}
Dates == 0..MaxDate

\* What the scores of a model were computed from.
Batch == [params: Params, until: Dates]

ASSUME NoneAssumption ==
    None \notin Models \cup Params \cup Programs \cup Dates /\ None \notin Batch
ASSUME SeedAssumption == Seed \in Models /\ SeedParams \in Params
ASSUME GridAssumption ==
    /\ Candidates \in Nat \ {0}
    /\ CandidateName \in [Models -> [1..Candidates -> Models]]
    /\ Override \in [Params -> [1..Candidates -> Params]]
ASSUME BoundAssumption ==
    Contexts \in Nat \ {0} /\ MaxDate \in Nat /\ MaxCommands \in [Cmds -> Nat]
ASSUME InstanceAssumption ==
    /\ Events \subseteq {"failure"}
    /\ Scorable \subseteq Models /\ Bases \subseteq Models /\ Finals \subseteq Models

VARIABLES
    models,      \* risk_model_versions: its DOMAIN is the set of stored rows
    scores,      \* edge_risk_scores and _components of a model, None: no rows
    runs,        \* risk_model_evaluation_runs, by id
    rowLock,     \* the program whose activation locks the row of the model
    scoreLock,   \* the program that has rewritten, not committed, its scores
    launched,    \* how many times each command has been started
    prog         \* what each running program carries

\* History, which no step reads and only properties do.
VARIABLES
    source,      \* the base model whose parameters finalize put in the row of the
                 \* model, None: the row is the seed's or calibrate's
    overwritten, \* models whose parameters an upsert has changed
    disturbed    \* models that two programs have worked on at the same time, or
                 \* that a failure has left with a new row and without its scores

vars == <<models, scores, runs, rowLock, scoreLock, launched, prog, source,
          overwritten, disturbed>>

Labels == {"idle", "FindApproval", "Upsert", "ReadModel", "Rewrite", "Blocked",
           "CommitScores", "StartRun", "JudgeContext", "CompleteRun",
           "Deactivate", "DeactivateRows", "Activate", "CommitActivation"}

Row == [params: Params, until: Dates, active: BOOLEAN]

\* judged: history, the scores the evaluation has found in the contexts it read.
Run == [model: Models, params: Params, until: Dates, testFrom: Dates,
        status: {"running", "completed"}, passed: BOOLEAN,
        judged: SUBSET (Batch \cup {None})]

\* target: the model being written, scored or judged; basis: the parameters of
\* the base model, as read at the start; read: what compute_scores has read of
\* the target; at, upto: the candidate calibrate is at, and its last one; left:
\* contexts not read yet; seen: the active rows the activation found.
Program == [cmd: Cmds \cup {"none"}, pc: Labels, base: Models \cup {None},
            target: Models \cup {None}, basis: Params \cup {None},
            until: Dates \cup {None}, testFrom: Dates \cup {None},
            read: Batch \cup {None}, at: 0..Candidates, upto: 0..Candidates,
            run: Nat, left: 0..Contexts,
            activate: BOOLEAN, seen: SUBSET Models]

NoProgram == [cmd |-> "none", pc |-> "idle", base |-> None, target |-> None,
              basis |-> None, until |-> None, testFrom |-> None, read |-> None,
              at |-> 0, upto |-> 0, run |-> 0, left |-> 0,
              activate |-> FALSE, seen |-> {}]

TypeOK ==
    /\ DOMAIN models \subseteq Models
    /\ models \in [DOMAIN models -> Row]
    /\ scores \in [Models -> Batch \cup {None}]
    /\ runs \in Seq(Run)
    /\ rowLock \in [Models -> Programs \cup {None}]
    /\ scoreLock \in [Models -> Programs \cup {None}]
    /\ launched \in [Cmds -> Nat]
    /\ prog \in [Programs -> Program]
    /\ source \in [Models -> Models \cup {None}]
    /\ overwritten \subseteq Models
    /\ disturbed \subseteq Models

Init ==
    /\ models = [m \in {Seed} |-> [params |-> SeedParams, until |-> 0, active |-> FALSE]]
    /\ scores = [m \in Models |-> None]
    /\ runs = <<>>
    /\ rowLock = [m \in Models |-> None]
    /\ scoreLock = [m \in Models |-> None]
    /\ launched = [cmd \in Cmds |-> 0]
    /\ prog = [p \in Programs |-> NoProgram]
    /\ source = [m \in Models |-> None]
    /\ overwritten = {}
    /\ disturbed = {}

-----------------------------------------------------------------------------
(* Helpers *)

Stored == DOMAIN models

ActiveModels == {m \in Stored : models[m].active}

\* Mutant of BatchOf: train_until is not taken from the row.
BatchWithoutDate(m) == [params |-> models[m].params, until |-> None]

\* What scores computed from the row of the model now would be computed from.
BatchOf(m) == [params |-> models[m].params, until |-> models[m].until]

\* The model that p is about to work on, when another program does so too.
Shared(p, m) == {x \in Models : x = m /\ \E q \in Programs \ {p} : prog[q].target = m}

Goto(p, c, label) ==
    /\ prog' = [prog EXCEPT ![p] = [c EXCEPT !.pc = label]]
    /\ disturbed' = disturbed \cup Shared(p, c.target)

\* The program ends; it closes its connection.
Stopped(p) == prog' = [prog EXCEPT ![p] = NoProgram]
Exit(p) == Stopped(p) /\ UNCHANGED disturbed

At(p, label) == prog[p].pc = label /\ UNCHANGED launched

\* The row locks left when the transaction of p ends.
RowsReleased(p) == [m \in Models |-> IF rowLock[m] = p THEN None ELSE rowLock[m]]
ScoresReleased(p) == [m \in Models |-> IF scoreLock[m] = p THEN None ELSE scoreLock[m]]

-----------------------------------------------------------------------------
(* The operator starts a command *)

Launch(p, cmd) ==
    /\ prog[p].pc = "idle"
    /\ launched[cmd] < MaxCommands[cmd]
    /\ launched' = [launched EXCEPT ![cmd] = @ + 1]
    /\ UNCHANGED <<models, scores, runs, rowLock, scoreLock, source, overwritten>>

\* --train-until may be left out.
ComputeScores(p) ==
    /\ Launch(p, "compute")
    /\ \E m \in Scorable, until \in Dates \cup {None} :
         Goto(p, [NoProgram EXCEPT !.cmd = "compute", !.target = m, !.until = until],
              "ReadModel")

Evaluate(p) ==
    /\ Launch(p, "evaluate")
    /\ \E m \in Scorable, from \in Dates :
         Goto(p, [NoProgram EXCEPT !.cmd = "evaluate", !.target = m, !.testFrom = from],
              "StartRun")

\* get_model(base) is the first statement of calibrate and of finalize;
\* --max-candidates cuts the grid short.
Calibrate(p) ==
    /\ Launch(p, "calibrate")
    /\ \E b \in Bases, until \in Dates, from \in Dates, n \in 1..Candidates :
         \/ b \notin Stored /\ Exit(p)
         \/ /\ b \in Stored
            /\ Goto(p, [NoProgram EXCEPT !.cmd = "calibrate", !.base = b, !.until = until,
                                         !.testFrom = from, !.basis = models[b].params,
                                         !.at = 1, !.upto = n,
                                         !.target = CandidateName[b][1]],
                    "Upsert")

\* --train-until is a date, or "latest", the last date a crime is known of.
Finalize(p) ==
    /\ Launch(p, "finalize")
    /\ \E b \in Bases, m \in Finals, until \in Dates, activate \in BOOLEAN :
         \/ b \notin Stored /\ Exit(p)
         \/ /\ b \in Stored
            /\ Goto(p, [NoProgram EXCEPT !.cmd = "finalize", !.base = b, !.target = m,
                                         !.basis = models[b].params, !.until = until,
                                         !.activate = activate],
                    "FindApproval")

-----------------------------------------------------------------------------
(* finalize and calibrate: the row of the new model *)

\* Mutant of Passed: a completed run will do.
Completed(b) ==
    \E i \in DOMAIN runs : runs[i].model = b /\ runs[i].status = "completed"

\* PASSED_RUN_SQL: any run of the base model that has ever passed.
Passed(b) ==
    \E i \in DOMAIN runs : /\ runs[i].model = b
                           /\ runs[i].status = "completed"
                           /\ runs[i].passed

FindApproval(p) ==
    /\ At(p, "FindApproval")
    /\ IF Passed(prog[p].base) THEN Goto(p, prog[p], "Upsert") ELSE Exit(p)
    /\ UNCHANGED <<models, scores, runs, rowLock, scoreLock, source, overwritten>>

\* Mutant of AfterUpsert: finalize activates before it scores.
ActivateFirst(c) == IF c.cmd = "finalize" /\ c.activate THEN "Deactivate" ELSE "ReadModel"

AfterUpsert(c) == "ReadModel"

\* What the program writes: the parameters of the base model, a candidate's with
\* the combination of the grid on top.
NewParameters(c) == IF c.cmd = "calibrate" THEN Override[c.basis][c.at] ELSE c.basis

\* INSERT ... ON CONFLICT (name) DO UPDATE, then commit.  An existing row keeps
\* is_active; the statement waits for its row lock.
Upsert(p) ==
    /\ At(p, "Upsert")
    /\ LET c == prog[p]
           m == c.target
           row == [params |-> NewParameters(c), until |-> c.until,
                   active |-> m \in ActiveModels]
           changed == {x \in {m} \cap Stored : models[x].params # row.params}
       IN /\ rowLock[m] = None
          /\ models' = [x \in Stored \cup {m} |-> IF x = m THEN row ELSE models[x]]
          /\ source' = [source EXCEPT ![m] = IF c.cmd = "finalize" THEN c.base ELSE None]
          /\ overwritten' = overwritten \cup changed
          /\ Goto(p, c, AfterUpsert(c))
    /\ UNCHANGED <<scores, runs, rowLock, scoreLock>>

-----------------------------------------------------------------------------
(* compute_scores.run *)

\* get_model and the check of --train-until against the row.
ReadModel(p) ==
    /\ At(p, "ReadModel")
    /\ LET c == prog[p]
           m == c.target
           refused == m \notin Stored \/ c.until \notin {None, models[m].until}
       IN IF refused THEN Exit(p)
                     ELSE Goto(p, [c EXCEPT !.read = BatchOf(m)], "Rewrite")
    /\ UNCHANGED <<models, scores, runs, rowLock, scoreLock, source, overwritten>>

\* DELETE and INSERT of the rows of the model, of which another program has
\* uncommitted ones: the statement waits.
Rewrite(p) ==
    /\ prog[p].pc \in {"Rewrite", "Blocked"}
    /\ LET m == prog[p].target
       IN \/ /\ scoreLock[m] = None
             /\ scoreLock' = [scoreLock EXCEPT ![m] = p]
             /\ Goto(p, prog[p], "CommitScores")
          \/ /\ scoreLock[m] # None
             /\ prog[p].pc = "Rewrite"
             /\ Goto(p, prog[p], "Blocked")
             /\ UNCHANGED scoreLock
    /\ UNCHANGED <<models, scores, runs, rowLock, launched, source, overwritten>>

\* Where the caller of compute_scores.run goes on.
AfterScores(c) ==
    CASE c.cmd = "calibrate" -> [c EXCEPT !.pc = "StartRun"]
      [] c.cmd = "finalize" /\ c.activate -> [c EXCEPT !.pc = "Deactivate"]
      [] OTHER -> NoProgram

\* The commit.  Programs that waited for these rows find their primary keys
\* taken: their DELETE did not see the new rows, their INSERT fails.
CommitScores(p) ==
    /\ At(p, "CommitScores")
    /\ LET c == prog[p]
           beaten(q) == prog[q].pc = "Blocked" /\ prog[q].target = c.target
       IN /\ scores' = [scores EXCEPT ![c.target] = c.read]
          /\ prog' = [q \in Programs |-> IF q = p THEN AfterScores(c)
                                         ELSE IF beaten(q) THEN NoProgram ELSE prog[q]]
    /\ scoreLock' = ScoresReleased(p)
    /\ UNCHANGED <<models, runs, rowLock, source, overwritten, disturbed>>

-----------------------------------------------------------------------------
(* evaluate.run *)

\* "test window must start after train_until (no leakage)"
Leaks(m, from) == models[m].until >= from

\* get_model, the checks, and the run inserted as running; then the labels,
\* which belong to the run alone.
StartRun(p) ==
    /\ At(p, "StartRun")
    /\ LET c == prog[p]
           m == c.target
           run == [model |-> m, params |-> models[m].params, until |-> models[m].until,
                   testFrom |-> c.testFrom, status |-> "running", passed |-> FALSE,
                   judged |-> {}]
       IN IF m \notin Stored \/ Leaks(m, c.testFrom)
          THEN Exit(p) /\ UNCHANGED runs
          ELSE /\ runs' = Append(runs, run)
               /\ Goto(p, [c EXCEPT !.run = Len(runs) + 1, !.left = Contexts], "JudgeContext")
    /\ UNCHANGED <<models, scores, rowLock, scoreLock, source, overwritten>>

\* CONTEXT_FRAME_SQL, one statement per context: each sees the scores that are
\* committed when it starts.
JudgeContext(p) ==
    /\ At(p, "JudgeContext")
    /\ LET c == prog[p]
       IN /\ runs' = [runs EXCEPT ![c.run].judged = @ \cup {scores[c.target]}]
          /\ Goto(p, [c EXCEPT !.left = @ - 1],
                  IF c.left = 1 THEN "CompleteRun" ELSE "JudgeContext")
    /\ UNCHANGED <<models, scores, rowLock, scoreLock, source, overwritten>>

OwnRun(c) == c.run

\* calibrate has another combination of the grid to try.
HasNext(c) == c.cmd = "calibrate" /\ c.at < c.upto

\* The gate is applied to the metrics, which this module does not compute: it
\* may go either way.  calibrate goes on whether the candidate passed or not.
CompleteRun(p) ==
    /\ At(p, "CompleteRun")
    /\ LET c == prog[p]
       IN /\ \E passed \in BOOLEAN :
               runs' = [runs EXCEPT ![OwnRun(c)].status = "completed",
                                    ![OwnRun(c)].passed = passed]
          /\ IF HasNext(c)
             THEN Goto(p, [c EXCEPT !.at = @ + 1, !.target = CandidateName[c.base][c.at + 1],
                                    !.read = None, !.run = 0], "Upsert")
             ELSE Exit(p)
    /\ UNCHANGED <<models, scores, rowLock, scoreLock, source, overwritten>>

-----------------------------------------------------------------------------
(* finalize --activate: two UPDATEs in one transaction *)

\* UPDATE ... SET is_active = false WHERE is_active begins: it works on the rows
\* that are active now.
Deactivate(p) ==
    /\ At(p, "Deactivate")
    /\ Goto(p, [prog[p] EXCEPT !.seen = ActiveModels], "DeactivateRows")
    /\ UNCHANGED <<models, scores, runs, rowLock, scoreLock, source, overwritten>>

\* Mutant of DeactivateRows: connections in autocommit mode.
DeactivateRowsAutocommit(p) ==
    /\ At(p, "DeactivateRows")
    /\ \A m \in prog[p].seen : rowLock[m] = None
    /\ models' = [m \in Stored |->
                    [models[m] EXCEPT !.active = @ /\ m \notin prog[p].seen]]
    /\ Goto(p, prog[p], "Activate")
    /\ UNCHANGED <<scores, runs, rowLock, scoreLock, source, overwritten>>

\* It waits for their locks, looks at is_active again and locks those it sets.
DeactivateRows(p) ==
    /\ At(p, "DeactivateRows")
    /\ LET c == prog[p]
           hit == c.seen \cap ActiveModels
       IN /\ \A m \in c.seen : rowLock[m] = None
          /\ rowLock' = [m \in Models |-> IF m \in hit THEN p ELSE rowLock[m]]
          /\ Goto(p, [c EXCEPT !.seen = hit], "Activate")
    /\ UNCHANGED <<models, scores, runs, scoreLock, source, overwritten>>

\* Mutant of Conflicts: no idx_one_active_risk_model.
NoConflicts(p) == {}

\* Rows that idx_one_active_risk_model does not let the target be active with.
Conflicts(p) == ActiveModels \ (prog[p].seen \cup {prog[p].target})

\* UPDATE ... SET is_active = true WHERE name = ...: waits for the lock of the
\* row, and for transactions that decide on the active rows it conflicts with;
\* against a committed one the partial unique index raises.
Activate(p) ==
    /\ At(p, "Activate")
    /\ LET m == prog[p].target
       IN /\ rowLock[m] \in {None, p}
          /\ \A x \in Conflicts(p) : rowLock[x] = None
          /\ \A q \in Programs \ {p} : prog[q].pc # "CommitActivation"
          /\ \/ /\ Conflicts(p) = {}
                /\ rowLock' = [rowLock EXCEPT ![m] = p]
                /\ Goto(p, prog[p], "CommitActivation")
             \/ /\ Conflicts(p) # {}
                /\ rowLock' = RowsReleased(p)
                /\ Exit(p)
    /\ UNCHANGED <<models, scores, runs, scoreLock, source, overwritten>>

CommitActivation(p) ==
    /\ At(p, "CommitActivation")
    /\ LET c == prog[p]
       IN models' = [m \in Stored |->
                       [models[m] EXCEPT !.active = m = c.target \/ (@ /\ m \notin c.seen)]]
    /\ rowLock' = RowsReleased(p)
    /\ Exit(p)
    /\ UNCHANGED <<scores, runs, scoreLock, source, overwritten>>

-----------------------------------------------------------------------------
(* A statement fails, or the program is interrupted: the exception leaves    *)
(* run(), conn.close() rolls back what was not committed.                    *)

\* Mutant of RollBack: the transaction stays open.
NoRollBack(p) == UNCHANGED <<rowLock, scoreLock>>

RollBack(p) == rowLock' = RowsReleased(p) /\ scoreLock' = ScoresReleased(p)

\* The model that c has upserted and not yet scored.
Unscored(c) ==
    {m \in Models : /\ m = c.target /\ c.cmd \in {"calibrate", "finalize"}
                    /\ c.pc \in {"ReadModel", "Rewrite", "Blocked", "CommitScores"}}

Fail(p) ==
    /\ "failure" \in Events
    /\ prog[p].pc # "idle"
    /\ RollBack(p)
    /\ Stopped(p)
    /\ disturbed' = disturbed \cup Unscored(prog[p])
    /\ UNCHANGED <<models, scores, runs, launched, source, overwritten>>

Step(p) ==
    \/ FindApproval(p) \/ Upsert(p)
    \/ ReadModel(p) \/ Rewrite(p) \/ CommitScores(p)
    \/ StartRun(p) \/ JudgeContext(p) \/ CompleteRun(p)
    \/ Deactivate(p) \/ DeactivateRows(p) \/ Activate(p) \/ CommitActivation(p)

Next ==
    \E p \in Programs :
        \/ ComputeScores(p) \/ Evaluate(p) \/ Calibrate(p) \/ Finalize(p)
        \/ Step(p) \/ Fail(p)

Spec == Init /\ [][Next]_vars

\* A program that can take a step takes it.  Commands are started at the
\* operator's leisure; a waiting program is served in the end, because only
\* finitely many programs can overtake it.
FairSpec == Spec /\ \A p \in Programs : WF_vars(Step(p))

-----------------------------------------------------------------------------
(* Properties *)

\* At most one model is active, whatever two activations do at the same time
\* (idx_one_active_risk_model lets only one of them through).
OneActive == \A m, n \in ActiveModels : m = n

\* The API never serves a model without scores: finalize activates a model only
\* after its scores were committed, and nothing deletes them for good.
ActiveIsScored == \A m \in ActiveModels : scores[m] # None

\* What finalize publishes has been approved: the base model has passed an
\* evaluation, and with the very parameters that are published, unless an upsert
\* has changed those of the base model (calibrate and finalize write over the row of
\* a name that exists).  Base models are evaluated, rewritten and finalized at the
\* same time, and finalize reads the parameters before it looks for the approval.
FinalsApproved ==
    \A m \in Stored : source[m] # None =>
        \E i \in DOMAIN runs : /\ runs[i].model = source[m] /\ runs[i].passed
                               /\ \/ runs[i].params = models[m].params
                                  \/ source[m] \in overwritten

\* Statements, locks and commits of any number of programs implement the registry
\* the API relies on: scores are replaced in one step, and once a model has been
\* activated the service is never without one, not between the two UPDATEs.
Registry == INSTANCE ModelRegistry WITH
    Batches <- Batch,
    parameters <- [m \in Models |-> IF m \in Stored THEN models[m].params ELSE None],
    active <- IF ActiveModels = {} THEN None ELSE CHOOSE m \in ActiveModels : TRUE
ImplementsRegistry == Registry!Spec

\* Every program ends, whoever it waits for and whoever fails.
ProgramsEnd == \A p \in Programs : prog[p].pc # "idle" ~> prog[p].pc = "idle"

\* While nobody works on a model, its scores are those of its row: of its parameters
\* and its train_until as they are, whatever else goes on and fails, if the programs
\* that worked on it did so one at a time and scored what they upserted.
ScoresCurrent ==
    \A m \in Stored \ disturbed :
        scores[m] # None /\ (\A p \in Programs : prog[p].target # m) =>
            scores[m] = BatchOf(m)

\* A run judges the scores of the parameters it records, although it reads them
\* context by context in statements of their own, under the same conditions.
JudgedAsRecorded ==
    \A i \in DOMAIN runs :
        runs[i].status = "completed" /\ runs[i].model \notin disturbed =>
            \A b \in runs[i].judged \ {None} :
                b = [params |-> runs[i].params, until |-> runs[i].until]

\* "A model that fails the gate MUST NOT be finalized" (risk-scoring/spec.md:144):
\* finalize aborts for a base model whose last evaluation has not passed.
FailedModelsStayOut ==
    \A p \in Programs :
        prog[p].cmd = "finalize" /\ prog[p].pc = "Upsert" =>
            LET judged == {i \in DOMAIN runs : /\ runs[i].model = prog[p].base
                                              /\ runs[i].status = "completed"}
            IN \E i \in judged : runs[i].passed /\ \A j \in judged : j <= i

=============================================================================
