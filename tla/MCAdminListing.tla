--------------------------- MODULE MCAdminListing ---------------------------
(* Five accounts, one of them staff; a search that leaves one out.         *)
EXTENDS AdminListing, TLC

CONSTANTS u1, u2, u3, u4, boss, blank, ada

MCUsers == {u1, u2, u3, u4, boss}
MCStaff == {boss}
MCSearches == {blank, ada}
MCMatches == blank :> MCUsers @@ ada :> {u1, u2, u3, boss}

Symmetry == Permutations({u1, u2, u3})
=============================================================================
