--------------------------- MODULE MCCrimesPaging ---------------------------
(* The instance of CrimesPaging for TLC. *)
EXTENDS CrimesPaging, TLC

\* Missing, one, two, too large, negative.
SomeLimits == {0, 1, 2, 4, -1}

\* The crimes are stored in any order, so that they are interchangeable.
Symmetry == Permutations(Sources)

=============================================================================
