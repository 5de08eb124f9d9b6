------------------------- MODULE MCProtectedRoutes -------------------------
(* An instance of ProtectedRoutes for TLC.                                 *)
EXTENDS ProtectedRoutes, TLC

CONSTANTS ada, root, old, r1, r2, a1, a2

AllUsers == {ada, root, old}
OneStaff == {root}
OneLegacy == {old}
TwoRequests == {r1, r2}
TwoAnswers == {a1, a2}

(* One user's rows change in a behaviour, any one's: a request here        *)
(* depends on its own user's rows and on no other's.                       *)
Touched(u) == past[u] # {0} \/ profile[u] # None \/ ~account[u].active
OneUserTouched == Cardinality({u \in Users : Touched(u)}) <= 1

Symmetry == Permutations(Requests) \cup Permutations(Answers)
=============================================================================
