----------------------------- MODULE Standings -----------------------------
(***************************************************************************)
(* What the migrations promise: who somebody is on the platform does not   *)
(* depend on the schema it is stored in.  People enroll, a student becomes *)
(* an instructor by the wizard, the whole database may be given up, and    *)
(* nothing else ever happens to a standing.                                *)
(***************************************************************************)
CONSTANTS Users, None

VARIABLE standing

Kinds == {"student", "instructor", "ADMIN", "SUPER_ADMIN"}

Init == standing = [u \in Users |-> None]

Enroll(u) ==
    /\ standing[u] = None
    /\ \E k \in Kinds : standing' = [standing EXCEPT ![u] = k]

Become(u) ==
    /\ standing[u] = "student"
    /\ standing' = [standing EXCEPT ![u] = "instructor"]

(* Downgraded to nothing: the users table itself is dropped.               *)
Clear == standing' = [u \in Users |-> None]

Next == Clear \/ \E u \in Users : Enroll(u) \/ Become(u)

Spec == Init /\ [][Next]_standing
=============================================================================
