--------------------------- MODULE MCAuthSessions ---------------------------
(* Instances of AuthSessions for TLC. *)
EXTENDS AuthSessions, TLC

\* Every spelling normalises to the one account.
OneUserNormal == [raw \in RawEmails |-> CHOOSE e \in Emails : TRUE]

\* Two accounts and a blank address.
CONSTANTS ana, bob
TwoUsersNormal == ("ANA " :> ana) @@ ("bob" :> bob) @@ (" " :> None)

Symmetry == Permutations(Sessions) \cup Permutations(Requests)

=============================================================================
