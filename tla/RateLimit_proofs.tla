-------------------------- MODULE RateLimit_proofs --------------------------
(***************************************************************************)
(* Proofs about RateLimit: the cap holds in every window, and the pruned   *)
(* table implements the sliding window over the complete log.              *)
(***************************************************************************)
EXTENDS RateLimit, FiniteSetTheorems, TLAPS

(* What makes both inductive: a hit that was let through and is no longer  *)
(* in the table has left the window for good, because the clock only grows. *)
Pruned(k) ==
    /\ hits[k] \subseteq admitted[k]
    /\ IsFiniteSet(admitted[k])
    /\ \A h \in admitted[k] : h.id < count /\ h.at <= clock
    /\ \A h \in admitted[k] \ hits[k] : h.at + WindowSeconds[k[1]] <= clock

IInv ==
    /\ TypeOK
    /\ \A k \in Keys : Pruned(k)
    /\ AtMostMaxPerWindow

(* The bucket of a key has a window and a cap.                             *)
LEMMA KeyConstants ==
    ASSUME NEW k \in Keys
    PROVE  WindowSeconds[k[1]] \in Nat /\ MaxHits[k[1]] \in Nat
<1>1. k[1] \in Buckets
  BY DEF Keys
<1>2. QED
  BY <1>1, ConstantsOK

(* Every request has a key.                                                *)
LEMMA KeyTyped == \A line : \A ip \in Ips : KeyOf(line, ip) \in Keys
<1>1. QED
  BY DEF KeyOf, bucket_for, Keys, Buckets

(* What the table keeps is what the complete log calls recent.             *)
LEMMA RemainingIsRecent ==
    ASSUME TypeOK, NEW k \in Keys, Pruned(k)
    PROVE  Remaining(k) = SW!Recent(k) /\ IsFiniteSet(Remaining(k))
<1>1. /\ WindowSeconds[k[1]] \in Nat
      /\ hits[k] \subseteq Hit /\ admitted[k] \subseteq Hit
      /\ clock \in Nat
  BY KeyConstants DEF TypeOK
<1>2. SW!Recent(k) = {h \in admitted[k] : h.at + WindowSeconds[k[1]] > clock}
  BY DEF SW!Recent
<1>3. \A h \in admitted[k] : h \notin hits[k] => ~(h.at + WindowSeconds[k[1]] > clock)
  BY <1>1 DEF Pruned, Hit
<1>4. Remaining(k) = SW!Recent(k)
  BY <1>2, <1>3 DEF Remaining, Pruned
<1>5. Remaining(k) \subseteq admitted[k]
  BY DEF Remaining, Pruned
<1>6. IsFiniteSet(Remaining(k))
  BY <1>5, FS_Subset DEF Pruned
<1>7. QED
  BY <1>4, <1>6

(* The instance carries its own copy of the library's operator.            *)
LEMMA SameCardinality == \A S : SW!Cardinality(S) = Cardinality(S)
<1>1. QED
  BY DEF Cardinality, SW!Cardinality

LEMMA InitIInv == Init => IInv
<1>1. SUFFICES ASSUME Init PROVE IInv
  OBVIOUS
<1>2. TypeOK
  BY <1>1 DEF Init, TypeOK
<1>3. \A k \in Keys : Pruned(k)
  BY <1>1, FS_EmptySet DEF Init, Pruned
<1>4. AtMostMaxPerWindow
  BY <1>1 DEF Init, AtMostMaxPerWindow
<1>5. QED
  BY <1>2, <1>3, <1>4 DEF IInv

(* Letting a request through.                                              *)
LEMMA PassIInv ==
    ASSUME IInv, NEW line, NEW ip \in Ips, NEW k \in Keys, k = KeyOf(line, ip), Pass(line, ip)
    PROVE  IInv'
<1> USE DEF IInv
<1>1. /\ ThisHit \in Hit /\ ThisHit.id = count /\ ThisHit.at = clock
      /\ clock \in Nat /\ count \in Nat /\ clock' = clock /\ count' = count + 1
  BY DEF Pass, TypeOK, ThisHit, Hit
<1>2. /\ hits' = [hits EXCEPT ![k] = Remaining(k) \cup {ThisHit}]
      /\ admitted' = [admitted EXCEPT ![k] = @ \cup {ThisHit}]
  BY DEF Pass
<1>3. \A j \in Keys : hits[j] \subseteq Hit /\ admitted[j] \subseteq Hit
  BY DEF TypeOK
<1>4. /\ Remaining(k) \subseteq hits[k]
      /\ Remaining(k) = SW!Recent(k) /\ IsFiniteSet(Remaining(k))
  BY RemainingIsRecent DEF Remaining
<1>5. hits'[k] = Remaining(k) \cup {ThisHit} /\ admitted'[k] = admitted[k] \cup {ThisHit}
  BY <1>2 DEF TypeOK
<1>6. \A j \in Keys : j # k => hits'[j] = hits[j] /\ admitted'[j] = admitted[j]
  BY <1>2 DEF TypeOK
<1>7. TypeOK'
  <2>1. hits' \in [Keys -> SUBSET Hit] /\ admitted' \in [Keys -> SUBSET Hit]
    BY <1>1, <1>2, <1>3, <1>4 DEF TypeOK
  <2>2. QED
    BY <1>1, <2>1 DEF TypeOK, Pass
<1>8. ASSUME NEW j \in Keys PROVE Pruned(j)'
  <2>1. CASE j # k
    BY <1>1, <1>3, <1>6, <2>1 DEF Pruned, Hit
  <2>2. CASE j = k
    <3>1. hits'[k] \subseteq admitted'[k]
      BY <1>4, <1>5 DEF Pruned
    <3>2. IsFiniteSet(admitted'[k])
      <4>1. IsFiniteSet(admitted[k])
        BY DEF Pruned
      <4>2. IsFiniteSet(admitted[k] \cup {ThisHit})
        BY <4>1, FS_AddElement
      <4>3. QED
        BY <1>5, <4>2
    <3>3. \A h \in admitted'[k] : h.id < count' /\ h.at <= clock'
      BY <1>1, <1>3, <1>5 DEF Pruned, Hit
    <3>4. \A h \in admitted'[k] \ hits'[k] : h.at + WindowSeconds[k[1]] <= clock'
      <4>1. TAKE h \in admitted'[k] \ hits'[k]
      <4>2. h \in admitted[k] /\ h \in Hit /\ h \notin Remaining(k)
        BY <1>3, <1>5
      <4>3. CASE h \in hits[k]
        BY <1>1, <4>2, <4>3, KeyConstants DEF Remaining, Hit
      <4>4. CASE h \notin hits[k]
        BY <1>1, <4>2, <4>4 DEF Pruned
      <4>5. QED
        BY <4>3, <4>4
    <3>5. QED
      BY <2>2, <3>1, <3>2, <3>3, <3>4 DEF Pruned
  <2>3. QED
    BY <2>1, <2>2
<1>9. ASSUME NEW j \in Keys, NEW h \in admitted'[j]
      PROVE  Cardinality(WindowUpTo(j, h)') <= MaxHits[j[1]]
  <2>1. CASE j # k
    BY <1>6, <2>1 DEF WindowUpTo, AtMostMaxPerWindow
  <2>2. CASE j = k /\ h \in admitted[k]
    <3>1. ~(ThisHit.id <= h.id)
      BY <1>1, <1>3, <2>2 DEF Pruned, Hit
    <3>2. WindowUpTo(k, h)' = WindowUpTo(k, h)
      BY <1>5, <3>1 DEF WindowUpTo
    <3>3. QED
      BY <2>2, <3>2 DEF AtMostMaxPerWindow
  <2>3. CASE j = k /\ h = ThisHit
    <3>1. WindowUpTo(k, h)' \subseteq SW!Recent(k) \cup {ThisHit}
      BY <1>1, <1>5, <2>3 DEF WindowUpTo, SW!Recent
    <3>2. /\ IsFiniteSet(Remaining(k) \cup {ThisHit})
          /\ Cardinality(Remaining(k) \cup {ThisHit}) <= Cardinality(Remaining(k)) + 1
      <4> DEFINE R == Remaining(k)
      <4>1. IsFiniteSet(R) /\ Cardinality(R) \in Nat
        BY <1>4, FS_CardinalityType
      <4> HIDE DEF R
      <4>2. /\ IsFiniteSet(R \cup {ThisHit})
            /\ \/ Cardinality(R \cup {ThisHit}) = Cardinality(R)
               \/ Cardinality(R \cup {ThisHit}) = Cardinality(R) + 1
        BY <4>1, FS_AddElement
      <4>3. IsFiniteSet(R \cup {ThisHit}) /\ Cardinality(R \cup {ThisHit}) <= Cardinality(R) + 1
        BY <4>1, <4>2
      <4>4. QED
        BY <4>3 DEF R
    <3>3. /\ IsFiniteSet(WindowUpTo(k, h)')
          /\ Cardinality(WindowUpTo(k, h)') <= Cardinality(Remaining(k) \cup {ThisHit})
      BY <1>4, <3>1, <3>2, FS_Subset
    <3>4. Cardinality(Remaining(k)) < MaxHits[k[1]]
      BY DEF Pass
    <3>5. /\ Cardinality(Remaining(k)) \in Nat
          /\ Cardinality(Remaining(k) \cup {ThisHit}) \in Nat
          /\ Cardinality(WindowUpTo(k, h)') \in Nat
          /\ MaxHits[k[1]] \in Nat
      BY <1>4, <3>2, <3>3, FS_CardinalityType, KeyConstants
    <3>6. QED
      BY <2>3, <3>2, <3>3, <3>4, <3>5
  <2>4. QED
    BY <1>5, <2>1, <2>2, <2>3
<1>10. AtMostMaxPerWindow'
  BY <1>9 DEF AtMostMaxPerWindow
<1>11. QED
  BY <1>7, <1>8, <1>10

(* Turning one away.                                                       *)
LEMMA RejectIInv ==
    ASSUME IInv, NEW line, NEW ip \in Ips, NEW k \in Keys, k = KeyOf(line, ip), Reject(line, ip)
    PROVE  IInv'
<1> USE DEF IInv
<1>1. /\ hits' = [hits EXCEPT ![k] = Remaining(k)]
      /\ admitted' = admitted /\ clock' = clock /\ count' = count + 1
      /\ clock \in Nat /\ count \in Nat
  BY DEF Reject, TypeOK
<1>2. \A j \in Keys : hits[j] \subseteq Hit /\ admitted[j] \subseteq Hit
  BY DEF TypeOK
<1>3. Remaining(k) \subseteq hits[k]
  BY DEF Remaining
<1>4. TypeOK'
  BY <1>1, <1>2, <1>3 DEF TypeOK, Reject
<1>5. ASSUME NEW j \in Keys PROVE Pruned(j)'
  <2>1. hits'[j] \subseteq hits[j] /\ hits'[j] \subseteq admitted'[j]
    BY <1>1, <1>3 DEF TypeOK, Pruned
  <2>2. \A h \in admitted'[j] : h.id < count' /\ h.at <= clock'
    BY <1>1, <1>2 DEF Pruned, Hit
  <2>3. \A h \in admitted'[j] \ hits'[j] : h.at + WindowSeconds[j[1]] <= clock'
    <3>1. TAKE h \in admitted'[j] \ hits'[j]
    <3>2. h \in admitted[j] /\ h \in Hit
      BY <1>1, <1>2
    <3>3. CASE h \notin hits[j]
      BY <1>1, <3>2, <3>3 DEF Pruned
    <3>4. CASE h \in hits[j]
      <4>1. j = k /\ h \notin Remaining(k)
        BY <1>1, <3>4 DEF TypeOK
      <4>2. QED
        BY <1>1, <3>2, <3>4, <4>1, KeyConstants DEF Remaining, Hit
    <3>5. QED
      BY <3>3, <3>4
  <2>4. QED
    BY <1>1, <2>1, <2>2, <2>3 DEF Pruned
<1>6. AtMostMaxPerWindow'
  BY <1>1 DEF AtMostMaxPerWindow, WindowUpTo
<1>7. QED
  BY <1>4, <1>5, <1>6

(* A request that is not counted.                                          *)
LEMMA UncountedIInv ==
    ASSUME IInv, NEW line, NEW ip \in Ips, Uncounted(line, ip)
    PROVE  IInv'
<1>1. /\ clock' = clock /\ count' = count /\ hits' = hits /\ admitted' = admitted
      /\ answer' = "pass"
  BY DEF Uncounted
<1>2. TypeOK'
  BY <1>1 DEF IInv, TypeOK
<1>3. (\A k \in Keys : Pruned(k))' /\ AtMostMaxPerWindow'
  BY <1>1 DEF IInv, Pruned, AtMostMaxPerWindow, WindowUpTo
<1>4. QED
  BY <1>2, <1>3 DEF IInv

LEMMA NextIInv == IInv /\ [Next]_vars => IInv'
<1>1. SUFFICES ASSUME IInv, [Next]_vars PROVE IInv'
  OBVIOUS
<1>2. ASSUME NEW line \in Asked, NEW ip \in Ips,
             Pass(line, ip) \/ Reject(line, ip) \/ Uncounted(line, ip)
      PROVE IInv'
  BY <1>1, <1>2, KeyTyped, PassIInv, RejectIInv, UncountedIInv
<1>3. CASE Restart
  <2>1. TypeOK'
    BY <1>1, <1>3 DEF Restart, IInv, TypeOK
  <2>2. \A k \in Keys : hits'[k] = {} /\ admitted'[k] = {}
    BY <1>3 DEF Restart
  <2>3. (\A k \in Keys : Pruned(k))'
    BY <2>2, FS_EmptySet DEF Pruned
  <2>4. AtMostMaxPerWindow'
    BY <2>2 DEF AtMostMaxPerWindow
  <2>5. QED
    BY <2>1, <2>3, <2>4 DEF IInv
<1>4. CASE Tick
  <2>1. /\ clock \in Nat /\ clock' = clock + 1
        /\ hits' = hits /\ admitted' = admitted /\ count' = count
    BY <1>1, <1>4 DEF Tick, IInv, TypeOK
  <2>2. TypeOK'
    BY <1>1, <1>4, <2>1 DEF Tick, IInv, TypeOK
  <2>3. ASSUME NEW k \in Keys PROVE Pruned(k)'
    <3>1. admitted[k] \subseteq Hit /\ WindowSeconds[k[1]] \in Nat
      BY <1>1, KeyConstants DEF IInv, TypeOK
    <3>2. QED
      BY <1>1, <2>1, <3>1 DEF IInv, Pruned, Hit
  <2>4. AtMostMaxPerWindow'
    BY <1>1, <2>1 DEF IInv, AtMostMaxPerWindow, WindowUpTo
  <2>5. QED
    BY <2>2, <2>3, <2>4 DEF IInv
<1>5. CASE UNCHANGED vars
  BY <1>1, <1>5 DEF vars, IInv, TypeOK, Pruned, AtMostMaxPerWindow, WindowUpTo
<1>6. QED
  BY <1>1, <1>2, <1>3, <1>4, <1>5 DEF Next

LEMMA IInvHolds == Spec => []IInv
<1>1. QED
  BY InitIInv, NextIInv, PTL DEF Spec

(* Every reachable state of the limiter is well typed.                     *)
THEOREM TypeCorrect == Spec => []TypeOK
<1>1. IInv => TypeOK
  BY DEF IInv
<1>2. QED
  BY <1>1, IInvHolds, PTL

(* In every window that ends with a request let through, the middleware    *)
(* let through no more requests of that key than the bucket's cap.         *)
THEOREM CapHolds == Spec => []AtMostMaxPerWindow
<1>1. IInv => AtMostMaxPerWindow
  BY DEF IInv
<1>2. QED
  BY <1>1, IInvHolds, PTL

(* allow_request over its pruned list decides exactly as the sliding       *)
(* window over the complete log: never more lenient, never more strict.    *)
THEOREM PrunedTableImplementsSlidingWindow == Spec => ImplementsSlidingWindow
<1>1. Init => SW!Init
  BY DEF Init, SW!Init
<1>2. ASSUME IInv, [Next]_vars PROVE [SW!Next]_(SW!swVars)
  <2>1. ASSUME NEW line, NEW ip \in Ips, NEW k \in Keys, k = KeyOf(line, ip), Pass(line, ip)
        PROVE  SW!Pass(k)
    <3>1. Remaining(k) = SW!Recent(k)
      BY <1>2, RemainingIsRecent DEF IInv
    <3>2. [j \in Keys |-> MaxHits[j[1]]][k] = MaxHits[k[1]]
      OBVIOUS
    <3>3. SW!Cardinality(SW!Recent(k)) < [j \in Keys |-> MaxHits[j[1]]][k]
      BY <2>1, <3>1, <3>2, SameCardinality DEF Pass
    <3>4. QED
      BY <2>1, <3>3 DEF Pass, SW!Pass, ThisHit
  <2>2. ASSUME NEW line, NEW ip \in Ips, NEW k \in Keys, k = KeyOf(line, ip), Reject(line, ip)
        PROVE  SW!Reject(k)
    <3>1. Remaining(k) = SW!Recent(k)
      BY <1>2, RemainingIsRecent DEF IInv
    <3>2. [j \in Keys |-> MaxHits[j[1]]][k] = MaxHits[k[1]]
      OBVIOUS
    <3>3. SW!Cardinality(SW!Recent(k)) >= [j \in Keys |-> MaxHits[j[1]]][k]
      BY <2>2, <3>1, <3>2, SameCardinality DEF Reject
    <3>4. QED
      BY <2>2, <3>3 DEF Reject, SW!Reject
  <2>3. ASSUME NEW line, NEW ip \in Ips, Uncounted(line, ip) PROVE SW!Next
    BY <2>3 DEF Uncounted, SW!Next, SW!Uncounted
  <2>4. CASE Restart
    BY <2>4 DEF Restart, SW!Next, SW!Restart
  <2>5. CASE Tick
    <3>1. clock' > clock /\ clock' \in Nat
      BY <1>2, <2>5 DEF Tick, IInv, TypeOK
    <3>2. QED
      BY <2>5, <3>1 DEF Tick, SW!Next, SW!Tick
  <2>6. CASE UNCHANGED vars
    BY <2>6 DEF vars, SW!swVars
  <2>7. QED
    BY <1>2, <2>1, <2>2, <2>3, <2>4, <2>5, <2>6, KeyTyped DEF Next, SW!Next
<1>3. QED
  BY <1>1, <1>2, IInvHolds, PTL DEF Spec, ImplementsSlidingWindow, SW!Spec
=============================================================================
