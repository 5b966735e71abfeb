---------------------------- MODULE SessionStore ----------------------------
(***************************************************************************)
(* What the refresh-session repository promises, without requests, locks,  *)
(* transactions or time: a session is absent, then live, then revoked, and *)
(* nothing else; revoking it and putting its replacement in its place is   *)
(* one step, and the replacement is new and belongs to the same user.      *)
(* AuthSessions implements it.                                             *)
(***************************************************************************)
CONSTANTS Sessions, Users, None

VARIABLES
    state,       \* [Sessions -> {"absent", "live", "revoked"}]
    holder,      \* the user of a session, None while it is absent
    successor    \* the session that replaced it, or None

vars == <<state, holder, successor>>

Init ==
    /\ state = [s \in Sessions |-> "absent"]
    /\ holder = [s \in Sessions |-> None]
    /\ successor = [s \in Sessions |-> None]

\* A login, or a rotation that lost the race for the old session.
Issue(s, u) ==
    /\ state[s] = "absent"
    /\ state' = [state EXCEPT ![s] = "live"]
    /\ holder' = [holder EXCEPT ![s] = u]
    /\ UNCHANGED successor

Rotate(s, t) ==
    /\ state[s] = "live"
    /\ state[t] = "absent"
    /\ state' = [state EXCEPT ![s] = "revoked", ![t] = "live"]
    /\ holder' = [holder EXCEPT ![t] = holder[s]]
    /\ successor' = [successor EXCEPT ![s] = t]

Revoke(s) ==
    /\ state[s] = "live"
    /\ state' = [state EXCEPT ![s] = "revoked"]
    /\ UNCHANGED <<holder, successor>>

Next ==
    \E s \in Sessions :
        \/ \E u \in Users : Issue(s, u)
        \/ \E t \in Sessions : Rotate(s, t)
        \/ Revoke(s)

Spec == Init /\ [][Next]_vars

=============================================================================
