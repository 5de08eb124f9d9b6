--------------------------- MODULE SlidingWindow ---------------------------
(***************************************************************************)
(* What a rate limiter promises: it decides every counted request by the   *)
(* complete log of the requests it has let through, and lets one through   *)
(* exactly when fewer than MaxHits[k] of its key's are younger than the    *)
(* key's window.                                                           *)
(***************************************************************************)
EXTENDS Naturals, FiniteSets

CONSTANTS Keys, MaxHits, WindowSeconds

VARIABLES
    clock,   \* time.monotonic()
    count,   \* how many counted requests have been decided
    log,     \* by key: the requests let through, as [id, at]
    answer   \* what the last request got

swVars == <<clock, count, log, answer>>

Init ==
    /\ clock \in Nat
    /\ count = 0
    /\ log = [k \in Keys |-> {}]
    /\ answer = "none"

Recent(k) == {h \in log[k] : h.at + WindowSeconds[k] > clock}

Pass(k) ==
    /\ Cardinality(Recent(k)) < MaxHits[k]
    /\ log' = [log EXCEPT ![k] = @ \cup {[id |-> count, at |-> clock]}]
    /\ answer' = "pass"
    /\ count' = count + 1
    /\ UNCHANGED clock

Reject(k) ==
    /\ Cardinality(Recent(k)) >= MaxHits[k]
    /\ answer' = "429"
    /\ count' = count + 1
    /\ UNCHANGED <<clock, log>>

(* A request that is not counted passes.                                   *)
Uncounted == answer' = "pass" /\ UNCHANGED <<clock, count, log>>

(* A restarted server starts over.                                         *)
Restart == log' = [k \in Keys |-> {}] /\ answer' = "none" /\ UNCHANGED <<clock, count>>

Tick == clock' > clock /\ clock' \in Nat /\ UNCHANGED <<count, log, answer>>

Next == (\E k \in Keys : Pass(k) \/ Reject(k)) \/ Uncounted \/ Restart \/ Tick

Spec == Init /\ [][Next]_swVars
=============================================================================
