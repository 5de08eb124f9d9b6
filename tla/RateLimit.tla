----------------------------- MODULE RateLimit -----------------------------
(***************************************************************************)
(* RateLimitMiddleware: one process's table of recent hits, by bucket and  *)
(* client IP.  Between reading the table and writing it back the           *)
(* middleware never awaits, so a request is one step.  A stamp of the      *)
(* Python list is kept with the number of its request, because two         *)
(* requests may be stamped alike; the order of the list plays no part.     *)
(***************************************************************************)
EXTENDS Naturals, FiniteSets, Routing

CONSTANTS
    Ips,            \* client addresses; _client_ip's "unknown" is one of them
    MaxHits,        \* AUTH_MAX and API_MAX, by bucket
    WindowSeconds,  \* AUTH_WINDOW_SECONDS and API_WINDOW_SECONDS, by bucket
    Asked,          \* the request lines clients send
    Origins,        \* FRONTEND_ORIGINS, as [scheme, host]
    MaxTime,        \* bound: the clock stops here
    MaxRequests     \* bound: so many counted requests

Buckets == {"auth", "api"}

ASSUME ConstantsOK ==
    /\ MaxHits \in [Buckets -> Nat]
    /\ WindowSeconds \in [Buckets -> Nat]
    /\ Asked \subseteq Lines
    /\ MaxTime \in Nat /\ MaxRequests \in Nat

Keys == Buckets \X Ips

LOCAL_HOSTS == {"localhost", "127.0.0.1", "::1", "0.0.0.0", "app.localhost"}

(* rate_limit_enabled_for_origin holds of some entry; the last host stands *)
(* for every one that ends in .localhost.                                  *)
Enabled == \E o \in Origins : o.scheme = "https" /\ o.host \notin LOCAL_HOSTS \cup {""}

KeyOf(line, ip) == <<bucket_for(line), ip>>

VARIABLES
    clock,    \* time.monotonic()
    count,    \* counted requests so far; numbers them
    hits,     \* self._hits, as [id, at]; no entry counts as the empty list
    admitted, \* history: every hit let through since the process started
    answer    \* what the last request got

vars == <<clock, count, hits, admitted, answer>>

Hit == [id : Nat, at : Nat]

TypeOK ==
    /\ clock \in Nat
    /\ count \in Nat
    /\ hits \in [Keys -> SUBSET Hit]
    /\ admitted \in [Keys -> SUBSET Hit]
    /\ answer \in {"none", "pass", "429"}

Init ==
    /\ clock = 0
    /\ count = 0
    /\ hits = [k \in Keys |-> {}]
    /\ admitted = [k \in Keys |-> {}]
    /\ answer = "none"

(* Mutation: a hit leaves the window one tick early.                       *)
Remaining_Short(k) == {h \in hits[k] : h.at + WindowSeconds[k[1]] > clock + 1}

(* [stamp for stamp in hits if stamp > now - window_seconds]               *)
Remaining(k) == {h \in hits[k] : h.at + WindowSeconds[k[1]] > clock}

(* Mutation: the cut-off is recorded in place of now.                      *)
ThisHit_CutOff == [id |-> count, at |-> clock - WindowSeconds["auth"]]

ThisHit == [id |-> count, at |-> clock]

(* allow_request lets the request through and records it.                  *)
Pass(line, ip) ==
    LET k == KeyOf(line, ip)
    IN  /\ Enabled /\ ~is_skipped(line) /\ count < MaxRequests
        /\ Cardinality(Remaining(k)) < MaxHits[k[1]]
        /\ hits' = [hits EXCEPT ![k] = Remaining(k) \cup {ThisHit}]
        /\ admitted' = [admitted EXCEPT ![k] = @ \cup {ThisHit}]
        /\ answer' = "pass"
        /\ count' = count + 1
        /\ UNCHANGED clock

(* Mutation: rejected requests are recorded too.                           *)
Reject_Recorded(line, ip) ==
    LET k == KeyOf(line, ip)
    IN  /\ Enabled /\ ~is_skipped(line) /\ count < MaxRequests
        /\ Cardinality(Remaining(k)) >= MaxHits[k[1]]
        /\ hits' = [hits EXCEPT ![k] = Remaining(k) \cup {ThisHit}]
        /\ answer' = "429"
        /\ count' = count + 1
        /\ UNCHANGED <<clock, admitted>>

(* 429: the pruned list is stored, the request leaves no stamp in it.      *)
Reject(line, ip) ==
    LET k == KeyOf(line, ip)
    IN  /\ Enabled /\ ~is_skipped(line) /\ count < MaxRequests
        /\ Cardinality(Remaining(k)) >= MaxHits[k[1]]
        /\ hits' = [hits EXCEPT ![k] = Remaining(k)]
        /\ answer' = "429"
        /\ count' = count + 1
        /\ UNCHANGED <<clock, admitted>>

(* Limits off, or a request that is not counted: no look at the table.     *)
Uncounted(line, ip) ==
    /\ ~Enabled \/ is_skipped(line)
    /\ answer' = "pass"
    /\ UNCHANGED <<clock, count, hits, admitted>>

(* The table lives in the process.                                         *)
Restart ==
    /\ hits' = [k \in Keys |-> {}]
    /\ admitted' = [k \in Keys |-> {}]
    /\ answer' = "none"
    /\ UNCHANGED <<clock, count>>

Tick ==
    /\ clock < MaxTime
    /\ clock' = clock + 1
    /\ UNCHANGED <<count, hits, admitted, answer>>

Next ==
    \/ \E line \in Asked, ip \in Ips :
           Pass(line, ip) \/ Reject(line, ip) \/ Uncounted(line, ip)
    \/ Restart \/ Tick

Spec == Init /\ [][Next]_vars

-----------------------------------------------------------------------------
(* The hits of a key's window that ends with the hit h, h included.        *)
WindowUpTo(k, h) ==
    {g \in admitted[k] : g.id <= h.id /\ g.at + WindowSeconds[k[1]] > h.at}

(* Seen back from any request that was let through, its key's window held  *)
(* no more than the cap, although allow_request had forgotten, by then,    *)
(* whatever earlier requests pruned.                                       *)
AtMostMaxPerWindow ==
    \A k \in Keys : \A h \in admitted[k] :
        Cardinality(WindowUpTo(k, h)) <= MaxHits[k[1]]

(* The pruned table decides as the complete log would: no request too many *)
(* is let through, and none is turned away that the log would let through. *)
SW == INSTANCE SlidingWindow WITH
          MaxHits <- [k \in Keys |-> MaxHits[k[1]]],
          WindowSeconds <- [k \in Keys |-> WindowSeconds[k[1]]],
          log <- admitted

ImplementsSlidingWindow == SW!Spec
=============================================================================
