--------------------------- MODULE MCSessionTokens ---------------------------
(* Instances of SessionTokens for TLC.                                     *)
EXTENDS SessionTokens, TLC

CONSTANTS alice, root, r1, r2, r3, g1, g2, g3

OneUser == {alice}
TwoUsers == {alice, root}
OneStaff == {root}
NoStaff == {}
TwoRequests == {r1, r2}
ThreeRequests == {r1, r2, r3}
OneLogout == {r1}
TwoLogouts == {r1, r2}
TwoGrants == {g1, g2}
ThreeGrants == {g1, g2, g3}

(* Grants are interchangeable, and so are the slots that never log out.    *)
Symmetry == Permutations(Grants) \cup Permutations(Requests \ LogoutRequests)
=============================================================================
