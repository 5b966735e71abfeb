---------------------------- MODULE ModelRegistry ----------------------------
(***************************************************************************)
(* What the risk pipeline promises the API, without programs, statements   *)
(* or locks: models are defined and redefined, scored and rescored, and    *)
(* once a model has been activated some model always is, exactly one, and  *)
(* it has scores.  RiskModels implements it.                               *)
(***************************************************************************)
CONSTANTS Models, Params, Batches, None

VARIABLES
    parameters,   \* [Models -> Params \cup {None}], None: no such model
    scores,       \* [Models -> Batches \cup {None}], None: not scored yet
    active        \* the model that is served, or None

vars == <<parameters, scores, active>>

Init ==
    /\ parameters \in [Models -> Params \cup {None}]
    /\ scores = [m \in Models |-> None]
    /\ active = None

Define(m, p) ==
    /\ parameters' = [parameters EXCEPT ![m] = p]
    /\ UNCHANGED <<scores, active>>

\* All the scores of a model are replaced in one step.
Rescore(m, b) ==
    /\ parameters[m] # None
    /\ scores' = [scores EXCEPT ![m] = b]
    /\ UNCHANGED <<parameters, active>>

Activate(m) ==
    /\ parameters[m] # None
    /\ scores[m] # None
    /\ active' = m
    /\ UNCHANGED <<parameters, scores>>

Next ==
    \E m \in Models :
        \/ \E p \in Params : Define(m, p)
        \/ \E b \in Batches : Rescore(m, b)
        \/ Activate(m)

Spec == Init /\ [][Next]_vars

=============================================================================
