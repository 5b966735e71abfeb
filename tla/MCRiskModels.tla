---------------------------- MODULE MCRiskModels ----------------------------
(* Instances of RiskModels for TLC. *)
EXTENDS RiskModels, TLC

\* The names calibrate derives: one family of candidates, whatever the base.
CONSTANTS seed, first, second, final

OneName == [m \in Models |-> <<first>>]
TwoNames == [m \in Models |-> <<first, second>>]

\* params.update(overrides) replaces every parameter of the grid, so a candidate's
\* parameters depend on its number alone.
CONSTANTS p0, p1, p2
OneOverride == [q \in Params |-> <<p1>>]
TwoOverrides == [q \in Params |-> <<p1, p2>>]

\* How many times each command is started.
Evaluations == [compute |-> 0, evaluate |-> 1, calibrate |-> 1, finalize |-> 2]
Waits == [compute |-> 1, evaluate |-> 0, calibrate |-> 1, finalize |-> 2]
OneOfEach == [compute |-> 1, evaluate |-> 1, calibrate |-> 1, finalize |-> 1]

Symmetry == Permutations(Programs)

=============================================================================
