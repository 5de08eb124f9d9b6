---------------------------- MODULE MCRateLimit ----------------------------
(* An instance of RateLimit for TLC.                                       *)
EXTENDS RateLimit, TLC

CONSTANTS ip1, ip2

TwoIps == {ip1, ip2}

(* Both buckets, one path with slashes behind it, and requests that are    *)
(* not counted.  Limits are on: one of the origins is public and https.    *)
SomeLines ==
    {[method |-> m, path |-> p, slashed |-> FALSE] :
        m \in {"POST", "OPTIONS"}, p \in {"/auth/verify-otp", "/admin/login", "/auth/refresh"}}
    \cup {[method |-> "POST", path |-> "/admin/login", slashed |-> TRUE],
          [method |-> "GET", path |-> "/", slashed |-> FALSE],
          [method |-> "GET", path |-> "/docs", slashed |-> TRUE]}

SomeOrigins == {[scheme |-> "http", host |-> "localhost"],
                [scheme |-> "https", host |-> "app.skillquest.com"]}

Symmetry == Permutations(TwoIps)

(* The auth bucket is the smaller one, as in the code; its window and the  *)
(* other's differ, unlike in the code, to tell them apart.                 *)
SmallMaxHits == [b \in Buckets |-> IF b = "auth" THEN 2 ELSE 3]
SmallWindow == [b \in Buckets |-> IF b = "auth" THEN 2 ELSE 3]
=============================================================================
