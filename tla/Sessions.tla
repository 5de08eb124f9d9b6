------------------------------ MODULE Sessions ------------------------------
(***************************************************************************)
(* What logins and logouts promise: a login is logged in from when its     *)
(* cookies arrive until a logout of its user, which ends all of them at    *)
(* once; nothing else ends or revives one, and refreshes change nothing.   *)
(***************************************************************************)
CONSTANTS Users, Logins

VARIABLES
    sessions, \* users -> the logins by which they are logged in
    started   \* every login there has been

sessionVars == <<sessions, started>>

Init ==
    /\ sessions = [u \in Users |-> {}]
    /\ started = {}

Login(u, l) ==
    /\ l \notin started
    /\ started' = started \cup {l}
    /\ sessions' = [sessions EXCEPT ![u] = @ \cup {l}]

(* A logout was committed before the login's cookies arrived.              *)
Overtaken(l) ==
    /\ l \notin started
    /\ started' = started \cup {l}
    /\ UNCHANGED sessions

Logout(u) ==
    /\ sessions' = [sessions EXCEPT ![u] = {}]
    /\ UNCHANGED started

Next ==
    \/ \E u \in Users, l \in Logins : Login(u, l)
    \/ \E l \in Logins : Overtaken(l)
    \/ \E u \in Users : Logout(u)

Spec == Init /\ [][Next]_sessionVars
=============================================================================
