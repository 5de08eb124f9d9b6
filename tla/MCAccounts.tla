----------------------------- MODULE MCAccounts -----------------------------
(* Instances of Accounts for TLC.                                          *)
EXTENDS Accounts, TLC

CONSTANTS u1, u2, u3, ada, admin, g1, g2, r1, r2, r3

TwoUsers == {u1, u2}
ThreeUsers == {u1, u2, u3}
TwoEmails == {ada, admin}
TwoGoogleIds == {g1, g2}

(* Every pairing: Google lets an address move from one account to another. *)
AllTokens == GoogleIds \X Emails

TwoRequests == {r1, r2}
ThreeRequests == {r1, r2, r3}
OnlyFirst == {r1}
FirstTwo == {r1, r2}

Symmetry == Permutations(Users) \cup Permutations(GoogleIds)
            \cup Permutations(GoogleRequests)
            \cup Permutations(Requests \ GoogleRequests)
=============================================================================
