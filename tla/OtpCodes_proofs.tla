--------------------------- MODULE OtpCodes_proofs ---------------------------
(***************************************************************************)
(* Proofs about OtpCodes, for every number of rows and concurrent          *)
(* requests and every setting of the limits.  A rule that an issue checks  *)
(* at its start holds of the row it stores much later towards all the rows *)
(* that were stored when it began.                                         *)
(***************************************************************************)
EXTENDS OtpCodes, FiniteSetTheorems, TLAPS

Issues(r)   == tx[r].kind = "issue"
Verifies(r) == tx[r].kind = "verify"

(* Rows an issue decided at e - Life found inside the window.              *)
Recent(S, e) == {g \in S : otp[g].at + Window + Life >= e}

Decided(S, e) == \A g \in S : otp[g].at + Cooldown + Life <= e

(* Rows that the transaction has superseded or is still to visit.          *)
Reached(r) == tx[r].rows \cup IF pc[r] = "invalidate" THEN tx[r].todo \cup {tx[r].want} ELSE {}

Sound(r) ==
    /\ pc[r] = "idle" <=> tx[r].kind = "none"
    /\ pc[r] \in {"latest", "count", "mail"} => Issues(r)
    /\ pc[r] \in {"select", "verified", "mark", "respond"} => Verifies(r)
    /\ {tx[r].rows, tx[r].todo, tx[r].knew} \subseteq SUBSET Stored
    /\ pc[r] \in {"verified", "mark", "invalidate"} => tx[r].want \in Stored
    /\ Verifies(r) \/ pc[r] = "commit" => tx[r].code \in Codes
    /\ Verifies(r) /\ pc[r] # "select" => tx[r].own \in Stored
    /\ Issues(r) => tx[r].own \in Otps \ Stored
    /\ Issues(r) /\ pc[r] # "latest" => Decided(tx[r].knew, tx[r].exp)
    /\ Issues(r) /\ pc[r] \notin {"latest", "count"} =>
           Cardinality(Recent(tx[r].knew, tx[r].exp)) < OtpMax
    /\ pc[r] \in {"invalidate", "mail", "respond", "commit"} =>
           \A g \in tx[r].knew : otp[g].used \/ g \in Reached(r)

(* The same of a row that is stored.                                       *)
Kept(h) ==
    /\ knew[h] \subseteq Stored
    /\ Decided(knew[h], otp[h].exp)
    /\ Cardinality(Recent(knew[h], otp[h].exp)) < OtpMax
    /\ \A g \in knew[h] : otp[g].used

(* Of a row that was stored when a login began that has committed.         *)
Ended(g) == g \in Stored /\ otp[g].used

OwnRows == \A r, s \in Requests : r # s /\ Issues(r) /\ Issues(s) => tx[r].own # tx[s].own

IInv ==
    /\ TypeOK
    /\ \A r \in Requests : Sound(r)
    /\ OwnRows
    /\ \A h \in Stored : Kept(h)
    /\ \A g \in ended : Ended(g)
    /\ IsFiniteSet(Stored)

LEMMA NoTxFacts ==
    /\ NoTx \in Tx /\ NoTx.kind = "none"
    /\ NoTx.rows = {} /\ NoTx.todo = {} /\ NoTx.knew = {}
<1>1. QED
  BY DEF NoTx, Tx

LEMMA InitIInv == Init => IInv
<1>1. SUFFICES ASSUME Init PROVE IInv
  OBVIOUS
<1>2. TypeOK
  <2>1. MaxTime \in Nat
    BY ConstantsOK
  <2>2. clock \in 0..MaxTime
    BY <1>1, <2>1 DEF Init
  <2>3. QED
    BY <1>1, <2>2, NoTxFacts DEF Init, TypeOK, PCs
<1>3. Stored = {}
  BY <1>1 DEF Init, Stored
<1>3a. ended = {}
  BY <1>1 DEF Init
<1>4. \A r \in Requests : pc[r] = "idle" /\ tx[r] = NoTx
  BY <1>1 DEF Init
<1>5. \A r \in Requests : Sound(r)
  BY <1>4, NoTxFacts DEF Sound, Issues, Verifies
<1>6. OwnRows
  BY <1>4, NoTxFacts DEF OwnRows, Issues
<1>7. QED
  BY <1>2, <1>3, <1>3a, <1>5, <1>6, FS_EmptySet DEF IInv

(***************************************************************************)
(* Steps that commit nothing                                               *)
(***************************************************************************)

LEMMA MoveStep ==
    ASSUME IInv, NEW r \in Requests, NEW p \in PCs, NEW t \in Tx,
           pc' = [pc EXCEPT ![r] = p], tx' = [tx EXCEPT ![r] = t],
           UNCHANGED <<clock, otp, emailVerified, ended, knew>>,
           mailed' \in [Otps -> [at : Nat, exp : Nat] \cup {None}],
           Sound(r)',
           \A s \in Requests \ {r} : t.kind = "issue" /\ Issues(s) => t.own # tx[s].own
    PROVE  IInv'
<1>1. TypeOK'
  BY DEF IInv, TypeOK
<1>2. /\ \A s \in Requests \ {r} : pc'[s] = pc[s] /\ tx'[s] = tx[s]
      /\ tx'[r] = t
  BY DEF IInv, TypeOK
<1>3. Stored' = Stored
  BY DEF Stored
<1>4. \A S, e : Recent(S, e)' = Recent(S, e) /\ (Decided(S, e)' <=> Decided(S, e))
  BY DEF Recent, Decided
<1>5. ASSUME NEW s \in Requests PROVE Sound(s)'
  <2>1. CASE s = r
    BY <2>1
  <2>2. CASE s # r
    <3>1. Sound(s) /\ pc'[s] = pc[s] /\ tx'[s] = tx[s]
      BY <1>2, <2>2 DEF IInv
    <3>2. Reached(s)' = Reached(s) /\ Issues(s)' = Issues(s) /\ Verifies(s)' = Verifies(s)
      BY <3>1 DEF Reached, Issues, Verifies
    <3>3. QED
      BY <1>3, <1>4, <3>1, <3>2 DEF Sound
  <2>3. QED
    BY <2>1, <2>2
<1>6. OwnRows'
  BY <1>2 DEF IInv, OwnRows, Issues
<1>7. ASSUME NEW h \in Stored' PROVE Kept(h)'
  BY <1>3, <1>4, <1>7 DEF IInv, Kept
<1>8. \A g \in ended' : Ended(g)'
  BY <1>3 DEF IInv, Ended
<1>9. QED
  BY <1>1, <1>3, <1>5, <1>6, <1>7, <1>8 DEF IInv

LEMMA RollbackIInv ==
    ASSUME IInv, NEW r \in Requests, Rollback(r)
    PROVE  IInv'
<1>1. pc'[r] = "idle" /\ tx'[r] = NoTx
  BY DEF Rollback, IInv, TypeOK
<1>2. Sound(r)'
  BY <1>1, NoTxFacts DEF Sound, Issues, Verifies
<1>3. mailed' \in [Otps -> [at : Nat, exp : Nat] \cup {None}]
  BY DEF Rollback, IInv, TypeOK
<1>4. QED
  BY <1>2, <1>3, NoTxFacts, MoveStep DEF Rollback, PCs

LEMMA BeginIssueIInv ==
    ASSUME IInv, NEW r \in Requests, NEW g \in Otps, BeginIssue(r, g)
    PROVE  IInv'
<1> DEFINE t == [NoTx EXCEPT !.kind = "issue", !.start = clock, !.own = g, !.knew = Stored]
<1>1. clock \in Nat
  BY ConstantsOK DEF IInv, TypeOK
<1>2. /\ t \in Tx /\ t.kind = "issue" /\ t.own = g /\ t.knew = Stored /\ t.rows = {}
      /\ t.todo = {}
  BY <1>1 DEF NoTx, Tx, Stored
<1>3. /\ pc' = [pc EXCEPT ![r] = "latest"] /\ tx' = [tx EXCEPT ![r] = t]
      /\ UNCHANGED <<clock, otp, emailVerified, mailed, ended, knew>>
      /\ otp[g] = None /\ \A s \in Requests : tx[s].own # g
  BY DEF BeginIssue, Fresh, Goto
<1> HIDE DEF t
<1>4. pc'[r] = "latest" /\ tx'[r] = t /\ Stored' = Stored /\ g \notin Stored
  BY <1>3 DEF IInv, TypeOK, Stored
<1>5. Sound(r)'
  BY <1>2, <1>4 DEF Sound, Issues, Verifies
<1>6. mailed' \in [Otps -> [at : Nat, exp : Nat] \cup {None}]
  BY <1>3 DEF IInv, TypeOK
<1>7. QED
  BY <1>2, <1>3, <1>5, <1>6, MoveStep DEF PCs

LEMMA BeginVerifyIInv ==
    ASSUME IInv, NEW r \in Requests, NEW c \in Codes, BeginVerify(r, c)
    PROVE  IInv'
<1> DEFINE t == [NoTx EXCEPT !.kind = "verify", !.code = c,
                        !.unverified = ~emailVerified, !.knew = Stored]
<1>1. /\ t \in Tx /\ t.kind = "verify" /\ t.code = c /\ t.rows = {} /\ t.todo = {}
      /\ t.knew = Stored
  BY DEF NoTx, Tx, IInv, TypeOK, Stored
<1>2. /\ pc' = [pc EXCEPT ![r] = "select"] /\ tx' = [tx EXCEPT ![r] = t]
      /\ UNCHANGED <<clock, otp, emailVerified, mailed, ended, knew>>
  BY DEF BeginVerify, Goto
<1> HIDE DEF t
<1>3. pc'[r] = "select" /\ tx'[r] = t /\ Stored' = Stored
  BY <1>2 DEF IInv, TypeOK, Stored
<1>4. Sound(r)'
  BY <1>1, <1>3 DEF Sound, Issues, Verifies
<1>5. mailed' \in [Otps -> [at : Nat, exp : Nat] \cup {None}]
  BY <1>2 DEF IInv, TypeOK
<1>6. QED
  BY <1>1, <1>2, <1>4, <1>5, MoveStep DEF PCs

(* The one read decides towards everything stored, and so towards what was *)
(* stored when the issue began.                                            *)
LEMMA CheckCooldownIInv ==
    ASSUME IInv, NEW r \in Requests, CheckCooldown(r)
    PROVE  IInv'
<1> DEFINE t == [tx[r] EXCEPT !.exp = clock + Life]
<1>1. /\ pc[r] = "latest" /\ Sound(r) /\ tx[r] \in Tx /\ ~Cooling(clock)
      /\ pc' = [pc EXCEPT ![r] = "count"] /\ tx' = [tx EXCEPT ![r] = t]
      /\ UNCHANGED <<clock, otp, emailVerified, mailed, ended, knew>>
  BY DEF CheckCooldown, Goto, IInv, TypeOK
<1>2. clock \in Nat /\ Life \in Nat /\ Cooldown \in Nat
  BY ConstantsOK DEF IInv, TypeOK
<1>3. /\ t \in Tx /\ t.exp = clock + Life /\ t.kind = tx[r].kind /\ t.own = tx[r].own
      /\ t.knew = tx[r].knew /\ t.rows = tx[r].rows /\ t.todo = tx[r].todo
      /\ t.code = tx[r].code
  BY <1>1, <1>2 DEF Tx
<1> HIDE DEF t
<1>4. pc'[r] = "count" /\ tx'[r] = t /\ Stored' = Stored
  BY <1>1 DEF IInv, TypeOK, Stored
<1>5. Issues(r) /\ tx[r].knew \subseteq Stored
  BY <1>1 DEF Sound
<1>6. ASSUME NEW g \in tx[r].knew PROVE otp[g].at + Cooldown + Life <= t.exp
  <2>1. g \in Stored /\ otp[g] \in Row
    BY <1>5 DEF Stored, IInv, TypeOK
  <2>2. otp[g].at \in Nat
    BY <2>1 DEF Row
  <2>3. ~(otp[g].at + Cooldown > clock)
    BY <1>1, <2>1 DEF Cooling
  <2>4. QED
    BY <1>2, <1>3, <2>2, <2>3
<1>7. Decided(tx[r].knew, tx[r].exp)'
  BY <1>1, <1>3, <1>4, <1>6 DEF Decided
<1>8. Sound(r)'
  BY <1>1, <1>3, <1>4, <1>5, <1>7 DEF Sound, Issues, Verifies
<1>9. \A s \in Requests \ {r} : Issues(s) => t.own # tx[s].own
  BY <1>3, <1>5 DEF IInv, OwnRows
<1>10. mailed' \in [Otps -> [at : Nat, exp : Nat] \cup {None}]
  BY <1>1 DEF IInv, TypeOK
<1>11. QED
  BY <1>1, <1>3, <1>8, <1>9, <1>10, MoveStep DEF PCs

LEMMA CheckWindowIInv ==
    ASSUME IInv, NEW r \in Requests, CheckWindow(r)
    PROVE  IInv'
<1>1. /\ pc[r] = "count" /\ Sound(r) /\ tx[r] \in Tx /\ SentSince(Now(r)) < OtpMax
      /\ pc' = [pc EXCEPT ![r] = "snapshot"] /\ tx' = [tx EXCEPT ![r] = tx[r]] /\ tx' = tx
      /\ UNCHANGED <<clock, otp, emailVerified, mailed, ended, knew>>
  BY DEF CheckWindow, Goto, IInv, TypeOK
<1>2. pc'[r] = "snapshot" /\ Stored' = Stored
  BY <1>1 DEF IInv, TypeOK, Stored
<1>3. Issues(r) /\ tx[r].knew \subseteq Stored
  BY <1>1 DEF Sound
<1> DEFINE all == {g \in Stored : otp[g].at + Window >= Now(r)}
           known == Recent(tx[r].knew, tx[r].exp)
<1>4. known \subseteq all
  <2>1. SUFFICES ASSUME NEW g \in known PROVE g \in all
    OBVIOUS
  <2>2. g \in Stored /\ otp[g] \in Row /\ otp[g].at + Window + Life >= tx[r].exp
    BY <1>3 DEF Recent, Stored, IInv, TypeOK
  <2>3. otp[g].at \in Nat /\ tx[r].exp \in Nat /\ Window \in Nat /\ Life \in Nat
    BY <1>1, <2>2, ConstantsOK DEF Row, Tx
  <2>4. otp[g].at + Window >= tx[r].exp - Life
    BY <2>2, <2>3
  <2>5. QED
    BY <2>2, <2>4 DEF Now
<1>5. IsFiniteSet(all)
  BY FS_Subset DEF IInv
<1>6. /\ Cardinality(known) <= Cardinality(all)
      /\ Cardinality(known) \in Nat /\ Cardinality(all) \in Nat
  BY <1>4, <1>5, FS_Subset, FS_CardinalityType
<1>7. Cardinality(all) < OtpMax
  BY <1>1 DEF SentSince
<1>8. OtpMax \in Nat
  BY ConstantsOK
<1>9. Cardinality(known) < OtpMax
  BY <1>6, <1>7, <1>8
<1>10. Recent(tx[r].knew, tx[r].exp)' = known /\ (Decided(tx[r].knew, tx[r].exp)' <=> Decided(tx[r].knew, tx[r].exp))
  BY <1>1 DEF Recent, Decided
<1> HIDE DEF known, all
<1>11. Sound(r)'
  BY <1>1, <1>2, <1>3, <1>9, <1>10 DEF Sound, Issues, Verifies
<1>12. \A s \in Requests \ {r} : Issues(s) => tx[r].own # tx[s].own
  BY <1>3 DEF IInv, OwnRows
<1>13. mailed' \in [Otps -> [at : Nat, exp : Nat] \cup {None}]
  BY <1>1 DEF IInv, TypeOK
<1>14. QED
  BY <1>1, <1>11, <1>12, <1>13, MoveStep DEF PCs

(* One row of an invalidation after another: none of those known when the  *)
(* issue began is passed over.                                             *)
LEMMA NextRowIInv ==
    ASSUME IInv, NEW r \in Requests, pc[r] \in {"snapshot", "invalidate"},
           NEW locked \in SUBSET Stored, NEW S \in SUBSET Stored, NextRow(r, locked, S),
           \A g \in tx[r].knew \cap Unused : g \in locked \cup S
    PROVE  IInv'
<1>1. /\ Sound(r) /\ tx[r] \in Tx /\ pc[r] # "idle" /\ tx[r].kind \in {"issue", "verify"}
      /\ UNCHANGED <<clock, otp, emailVerified, mailed, ended, knew>>
  <2>1. Sound(r) /\ tx[r] \in Tx
    BY DEF IInv, TypeOK
  <2>2. QED
    BY <2>1 DEF NextRow, Goto, Sound, Tx
<1>2. Stored' = Stored /\ Stored \subseteq Otps
  BY <1>1 DEF Stored
<1>3. tx[r].knew \subseteq Stored /\ \A g \in tx[r].knew : otp[g].used \/ g \in locked \cup S
  BY <1>1 DEF Sound, Unused
<1>4. mailed' \in [Otps -> [at : Nat, exp : Nat] \cup {None}]
  BY <1>1 DEF IInv, TypeOK
<1>5. \A s \in Requests \ {r} : Issues(r) /\ Issues(s) => tx[r].own # tx[s].own
  BY DEF IInv, OwnRows
<1>6. /\ Recent(tx[r].knew, tx[r].exp)' = Recent(tx[r].knew, tx[r].exp)'
      /\ \A X, e : Recent(X, e)' = Recent(X, e) /\ (Decided(X, e)' <=> Decided(X, e))
  BY <1>1 DEF Recent, Decided
<1>7. CASE S = {} /\ tx' = [tx EXCEPT ![r] = [@ EXCEPT !.rows = locked, !.todo = {}, !.want = None]]
           /\ Goto(r, AfterInvalidation(r))
  <2> DEFINE t == [tx[r] EXCEPT !.rows = locked, !.todo = {}, !.want = None]
             p == AfterInvalidation(r)
  <2>1. /\ t \in Tx /\ t.rows = locked /\ t.todo = {} /\ t.kind = tx[r].kind
        /\ t.own = tx[r].own /\ t.knew = tx[r].knew /\ t.code = tx[r].code
        /\ t.exp = tx[r].exp
    BY <1>1, <1>2 DEF Tx
  <2>2. /\ p \in {"mail", "respond"} /\ (p = "mail" <=> tx[r].kind = "issue")
        /\ pc' = [pc EXCEPT ![r] = p] /\ tx' = [tx EXCEPT ![r] = t]
    BY <1>7 DEF AfterInvalidation, Goto
  <2> HIDE DEF t, p
  <2>3. pc'[r] = p /\ tx'[r] = t
    BY <2>2 DEF IInv, TypeOK
  <2>4. Reached(r)' = locked
    BY <2>1, <2>2, <2>3 DEF Reached
  <2>4a. \A g \in tx[r].knew : otp'[g].used \/ g \in locked
    BY <1>1, <1>3, <1>7
  <2>5. Sound(r)'
    <3>1. CASE tx[r].kind = "issue"
      <4>1. /\ Decided(tx[r].knew, tx[r].exp) /\ Cardinality(Recent(tx[r].knew, tx[r].exp)) < OtpMax
            /\ tx[r].own \in Otps \ Stored
        BY <1>1, <3>1 DEF Sound, Issues
      <4>2. QED
        BY <1>2, <1>3, <1>6, <2>1, <2>2, <2>3, <2>4, <2>4a, <3>1, <4>1 DEF Sound, Issues, Verifies
    <3>2. CASE tx[r].kind = "verify"
      <4>1. tx[r].own \in Stored /\ tx[r].code \in Codes
        BY <1>1, <3>2 DEF Sound, Verifies
      <4>2. QED
        BY <1>2, <1>3, <2>1, <2>2, <2>3, <2>4, <2>4a, <3>2, <4>1 DEF Sound, Issues, Verifies
    <3>3. QED
      BY <1>1, <3>1, <3>2
  <2>6. \A s \in Requests \ {r} : t.kind = "issue" /\ Issues(s) => t.own # tx[s].own
    BY <1>5, <2>1 DEF Issues
  <2>7. QED
    BY <1>1, <1>4, <2>1, <2>2, <2>5, <2>6, MoveStep DEF PCs
<1>8. ASSUME NEW w \in S,
             tx' = [tx EXCEPT ![r] = [@ EXCEPT !.rows = locked, !.todo = S \ {w}, !.want = w]],
             Goto(r, "invalidate")
      PROVE  IInv'
  <2> DEFINE t == [tx[r] EXCEPT !.rows = locked, !.todo = S \ {w}, !.want = w]
  <2>1. /\ t \in Tx /\ t.rows = locked /\ t.todo = S \ {w} /\ t.kind = tx[r].kind
        /\ t.own = tx[r].own /\ t.knew = tx[r].knew /\ t.code = tx[r].code
        /\ t.exp = tx[r].exp /\ t.want = w
    BY <1>1, <1>2 DEF Tx
  <2>2. pc' = [pc EXCEPT ![r] = "invalidate"] /\ tx' = [tx EXCEPT ![r] = t]
    BY <1>8 DEF Goto
  <2> HIDE DEF t
  <2>3. pc'[r] = "invalidate" /\ tx'[r] = t
    BY <2>2 DEF IInv, TypeOK
  <2>4. Reached(r)' = locked \cup S
    BY <2>1, <2>3 DEF Reached
  <2>4a. \A g \in tx[r].knew : otp'[g].used \/ g \in locked \cup S
    BY <1>1, <1>3
  <2>5. Sound(r)'
    <3>1. CASE tx[r].kind = "issue"
      <4>1. /\ Decided(tx[r].knew, tx[r].exp) /\ Cardinality(Recent(tx[r].knew, tx[r].exp)) < OtpMax
            /\ tx[r].own \in Otps \ Stored
        BY <1>1, <3>1 DEF Sound, Issues
      <4>2. QED
        BY <1>2, <1>3, <1>6, <2>1, <2>3, <2>4, <2>4a, <3>1, <4>1 DEF Sound, Issues, Verifies
    <3>2. CASE tx[r].kind = "verify"
      <4>1. tx[r].own \in Stored /\ tx[r].code \in Codes
        BY <1>1, <3>2 DEF Sound, Verifies
      <4>2. QED
        BY <1>2, <1>3, <2>1, <2>3, <2>4, <2>4a, <3>2, <4>1 DEF Sound, Issues, Verifies
    <3>3. QED
      BY <1>1, <3>1, <3>2
  <2>6. \A s \in Requests \ {r} : t.kind = "issue" /\ Issues(s) => t.own # tx[s].own
    BY <1>5, <2>1 DEF Issues
  <2>7. QED
    BY <1>1, <1>4, <2>1, <2>2, <2>5, <2>6, MoveStep DEF PCs
<1>9. QED
  BY <1>7, <1>8 DEF NextRow

LEMMA SnapshotIInv ==
    ASSUME IInv, NEW r \in Requests, Snapshot(r)
    PROVE  IInv'
<1>1. Sound(r) /\ pc[r] = "snapshot" /\ NextRow(r, tx[r].rows, Unused \ tx[r].rows)
  BY DEF Snapshot, IInv
<1>2. tx[r].rows \in SUBSET Stored /\ Unused \ tx[r].rows \in SUBSET Stored
  BY <1>1 DEF Sound, Unused
<1>3. QED
  BY <1>1, <1>2, NextRowIInv

LEMMA InvalidateRowIInv ==
    ASSUME IInv, NEW r \in Requests, InvalidateRow(r)
    PROVE  IInv'
<1>1. /\ Sound(r) /\ pc[r] = "invalidate"
      /\ NextRow(r, tx[r].rows \cup {tx[r].want}, tx[r].todo)
  BY DEF InvalidateRow, IInv
<1>2. tx[r].rows \cup {tx[r].want} \in SUBSET Stored /\ tx[r].todo \in SUBSET Stored
  BY <1>1 DEF Sound
<1>3. \A g \in tx[r].knew \cap Unused :
          g \in (tx[r].rows \cup {tx[r].want}) \cup tx[r].todo
  BY <1>1 DEF Sound, Reached, Unused
<1>4. QED
  BY <1>1, <1>2, <1>3, NextRowIInv

LEMMA MailIInv ==
    ASSUME IInv, NEW r \in Requests, Mail(r)
    PROVE  IInv'
<1>1. PICK c \in Codes : tx' = [tx EXCEPT ![r].code = c]
  BY DEF Mail
<1> DEFINE t == [tx[r] EXCEPT !.code = c]
<1>2. /\ pc[r] = "mail" /\ Sound(r) /\ tx[r] \in Tx
      /\ pc' = [pc EXCEPT ![r] = "commit"] /\ tx' = [tx EXCEPT ![r] = t]
      /\ UNCHANGED <<clock, otp, emailVerified, ended, knew>>
  BY <1>1 DEF Mail, IInv, TypeOK
<1>3. /\ t \in Tx /\ t.code = c /\ t.kind = tx[r].kind /\ t.own = tx[r].own
      /\ t.knew = tx[r].knew /\ t.rows = tx[r].rows /\ t.todo = tx[r].todo
      /\ t.exp = tx[r].exp
  BY <1>2 DEF Tx
<1> HIDE DEF t
<1>4. pc'[r] = "commit" /\ tx'[r] = t /\ Stored' = Stored
  BY <1>2 DEF IInv, TypeOK, Stored
<1>5. /\ Recent(tx[r].knew, tx[r].exp)' = Recent(tx[r].knew, tx[r].exp)
      /\ Decided(tx[r].knew, tx[r].exp)' <=> Decided(tx[r].knew, tx[r].exp)
  BY <1>2, <1>3, <1>4 DEF Recent, Decided
<1>6. Reached(r)' = Reached(r)
  BY <1>2, <1>3, <1>4 DEF Reached
<1>7. /\ Issues(r) /\ tx[r].own \in Otps \ Stored /\ tx[r].knew \subseteq Stored
      /\ Decided(tx[r].knew, tx[r].exp) /\ Cardinality(Recent(tx[r].knew, tx[r].exp)) < OtpMax
      /\ \A g \in tx[r].knew : otp[g].used \/ g \in Reached(r)
      /\ tx[r].rows \subseteq Stored /\ tx[r].todo \subseteq Stored
  BY <1>2 DEF Sound
<1>8. \A g \in tx'[r].knew : otp'[g].used \/ g \in Reached(r)'
  BY <1>2, <1>3, <1>4, <1>6, <1>7
<1>9. Sound(r)'
  BY <1>3, <1>4, <1>5, <1>7, <1>8 DEF Sound, Issues, Verifies
<1>10. \A s \in Requests \ {r} : t.kind = "issue" /\ Issues(s) => t.own # tx[s].own
  BY <1>3 DEF IInv, OwnRows, Issues
<1>11. mailed' \in [Otps -> [at : Nat, exp : Nat] \cup {None}]
  <2>1. [at |-> tx[r].start, exp |-> tx[r].exp] \in [at : Nat, exp : Nat]
    BY <1>2 DEF Tx
  <2>2. QED
    BY <2>1 DEF Mail, IInv, TypeOK
<1>12. QED
  BY <1>2, <1>3, <1>9, <1>10, <1>11, MoveStep DEF PCs

(* The steps of a redemption before its commit.                            *)
LEMMA SelectIInv ==
    ASSUME IInv, NEW r \in Requests, Select(r)
    PROVE  IInv'
<1>1. PICK g \in ValidOtps(tx[r].code, clock) :
          tx' = [tx EXCEPT ![r] = [@ EXCEPT !.own = g, !.want = g]]
  BY DEF Select
<1> DEFINE t == [tx[r] EXCEPT !.own = g, !.want = g]
<1>2. /\ pc[r] = "select" /\ Sound(r) /\ tx[r] \in Tx /\ g \in Stored /\ g \in Otps
      /\ pc' = [pc EXCEPT ![r] = "verified"] /\ tx' = [tx EXCEPT ![r] = t]
      /\ UNCHANGED <<clock, otp, emailVerified, mailed, ended, knew>>
  BY <1>1 DEF Select, Goto, IInv, TypeOK, ValidOtps, Unused, Stored
<1>3. /\ t \in Tx /\ t.code = tx[r].code /\ t.kind = tx[r].kind /\ t.own = g
      /\ t.want = g /\ t.rows = tx[r].rows /\ t.todo = tx[r].todo /\ t.knew = tx[r].knew
  BY <1>2 DEF Tx
<1> HIDE DEF t
<1>4. pc'[r] = "verified" /\ tx'[r] = t /\ Stored' = Stored
  BY <1>2 DEF IInv, TypeOK, Stored
<1>5. /\ tx[r].kind = "verify" /\ tx[r].code \in Codes
      /\ {tx[r].rows, tx[r].todo, tx[r].knew} \subseteq SUBSET Stored
  BY <1>2 DEF Sound, Verifies
<1>6. Sound(r)'
  BY <1>2, <1>3, <1>4, <1>5 DEF Sound, Issues, Verifies
<1>7. mailed' \in [Otps -> [at : Nat, exp : Nat] \cup {None}]
  BY <1>2 DEF IInv, TypeOK
<1>8. QED
  BY <1>2, <1>3, <1>5, <1>6, <1>7, MoveStep DEF PCs

LEMMA MarkVerifiedIInv ==
    ASSUME IInv, NEW r \in Requests, MarkVerified(r)
    PROVE  IInv'
<1>1. /\ pc[r] = "verified" /\ Sound(r) /\ tx[r] \in Tx
      /\ pc' = [pc EXCEPT ![r] = "mark"] /\ tx' = [tx EXCEPT ![r] = tx[r]] /\ tx' = tx
      /\ UNCHANGED <<clock, otp, emailVerified, mailed, ended, knew>>
  BY DEF MarkVerified, Goto, IInv, TypeOK
<1>2. pc'[r] = "mark" /\ Stored' = Stored
  BY <1>1 DEF IInv, TypeOK, Stored
<1>3. /\ tx[r].kind = "verify" /\ tx[r].code \in Codes /\ tx[r].own \in Stored
      /\ tx[r].want \in Stored /\ {tx[r].rows, tx[r].todo, tx[r].knew} \subseteq SUBSET Stored
  BY <1>1 DEF Sound, Verifies
<1>4. Sound(r)'
  BY <1>1, <1>2, <1>3 DEF Sound, Issues, Verifies
<1>5. mailed' \in [Otps -> [at : Nat, exp : Nat] \cup {None}]
  BY <1>1 DEF IInv, TypeOK
<1>6. QED
  BY <1>1, <1>3, <1>4, <1>5, MoveStep DEF PCs

LEMMA MarkUsedIInv ==
    ASSUME IInv, NEW r \in Requests, MarkUsed(r)
    PROVE  IInv'
<1> DEFINE t == [tx[r] EXCEPT !.rows = {tx[r].want}]
<1>1. /\ pc[r] = "mark" /\ Sound(r) /\ tx[r] \in Tx
      /\ pc' = [pc EXCEPT ![r] = "snapshot"] /\ tx' = [tx EXCEPT ![r] = t]
      /\ UNCHANGED <<clock, otp, emailVerified, mailed, ended, knew>>
  BY DEF MarkUsed, Goto, IInv, TypeOK
<1>2. /\ tx[r].kind = "verify" /\ tx[r].code \in Codes /\ tx[r].own \in Stored
      /\ tx[r].want \in Stored /\ tx[r].want \in Otps
      /\ {tx[r].todo, tx[r].knew} \subseteq SUBSET Stored
  BY <1>1 DEF Sound, Verifies, Stored
<1>3. /\ t \in Tx /\ t.code = tx[r].code /\ t.kind = tx[r].kind /\ t.own = tx[r].own
      /\ t.rows = {tx[r].want} /\ t.todo = tx[r].todo /\ t.knew = tx[r].knew
  BY <1>1, <1>2 DEF Tx
<1> HIDE DEF t
<1>4. pc'[r] = "snapshot" /\ tx'[r] = t /\ Stored' = Stored
  BY <1>1 DEF IInv, TypeOK, Stored
<1>5. Sound(r)'
  BY <1>2, <1>3, <1>4 DEF Sound, Issues, Verifies
<1>6. mailed' \in [Otps -> [at : Nat, exp : Nat] \cup {None}]
  BY <1>1 DEF IInv, TypeOK
<1>7. QED
  BY <1>1, <1>2, <1>3, <1>5, <1>6, MoveStep DEF PCs

LEMMA RespondIInv ==
    ASSUME IInv, NEW r \in Requests, Respond(r)
    PROVE  IInv'
<1>1. /\ pc[r] = "respond" /\ Sound(r) /\ tx[r] \in Tx
      /\ pc' = [pc EXCEPT ![r] = "commit"] /\ tx' = [tx EXCEPT ![r] = tx[r]] /\ tx' = tx
      /\ UNCHANGED <<clock, otp, emailVerified, mailed, ended, knew>>
  BY DEF Respond, Goto, IInv, TypeOK
<1>2. pc'[r] = "commit" /\ Stored' = Stored /\ Reached(r)' = Reached(r)
  BY <1>1 DEF IInv, TypeOK, Stored, Reached
<1>3. /\ tx[r].kind = "verify" /\ tx[r].code \in Codes /\ tx[r].own \in Stored
      /\ {tx[r].rows, tx[r].todo, tx[r].knew} \subseteq SUBSET Stored
      /\ \A g \in tx[r].knew : otp[g].used \/ g \in Reached(r)
  BY <1>1 DEF Sound, Verifies
<1>4. Sound(r)'
  BY <1>1, <1>2, <1>3 DEF Sound, Issues, Verifies
<1>5. mailed' \in [Otps -> [at : Nat, exp : Nat] \cup {None}]
  BY <1>1 DEF IInv, TypeOK
<1>6. QED
  BY <1>1, <1>3, <1>4, <1>5, MoveStep DEF PCs

LEMMA TickIInv ==
    ASSUME IInv, Tick
    PROVE  IInv'
<1>1. MaxTime \in Nat
  BY ConstantsOK
<1>2. TypeOK'
  BY <1>1 DEF Tick, IInv, TypeOK
<1>3. Stored' = Stored
  BY DEF Tick, Stored
<1>4. \A S, e : Recent(S, e)' = Recent(S, e) /\ (Decided(S, e)' <=> Decided(S, e))
  BY DEF Tick, Recent, Decided
<1>5. \A r \in Requests : Reached(r)' = Reached(r)
  BY DEF Tick, Reached
<1>6. \A r \in Requests : Sound(r)'
  BY <1>3, <1>4, <1>5 DEF Tick, IInv, Sound, Issues, Verifies
<1>7. OwnRows'
  BY DEF Tick, IInv, OwnRows, Issues
<1>8. \A h \in Stored' : Kept(h)'
  BY <1>3, <1>4 DEF Tick, IInv, Kept
<1>9. \A g \in ended' : Ended(g)'
  BY <1>3 DEF Tick, IInv, Ended
<1>10. QED
  BY <1>2, <1>3, <1>6, <1>7, <1>8, <1>9 DEF IInv

(***************************************************************************)
(* Commit                                                                  *)
(***************************************************************************)

(* What a commit does to the table: at most the issue's own row is new,    *)
(* the others keep their instants and are used if they were, or were       *)
(* locked.                                                                 *)
LEMMA CommitTable ==
    ASSUME IInv, NEW r \in Requests, Commit(r)
    PROVE  /\ otp' \in [Otps -> Row \cup {None}]
           /\ Issues(r) => /\ Stored' = Stored \cup {tx[r].own}
                           /\ otp'[tx[r].own] = NewRow(r)
           /\ ~Issues(r) => Stored' = Stored
           /\ \A g \in Stored : /\ otp'[g].at = otp[g].at /\ otp'[g].exp = otp[g].exp
                                /\ otp[g].used \/ g \in tx[r].rows => otp'[g].used
<1>1. Sound(r) /\ pc[r] = "commit" /\ tx[r] \in Tx /\ otp \in [Otps -> Row \cup {None}]
  BY DEF Commit, IInv, TypeOK
<1>2. tx[r].code \in Codes /\ tx[r].rows \subseteq Stored
  BY <1>1 DEF Sound
<1>3. Issues(r) => tx[r].own \in Otps \ Stored
  BY <1>1 DEF Sound
<1>4. NewRow(r) \in Row
  BY <1>1, <1>2 DEF NewRow, Row, Tx
<1>5. ASSUME NEW g \in Stored
      PROVE  /\ g \in Otps /\ otp[g] \in Row /\ [otp[g] EXCEPT !.used = TRUE] \in Row
             /\ [otp[g] EXCEPT !.used = TRUE].at = otp[g].at
             /\ [otp[g] EXCEPT !.used = TRUE].exp = otp[g].exp
             /\ [otp[g] EXCEPT !.used = TRUE].used
  BY <1>1 DEF Stored, Row
<1>6. \A g \in Otps : otp'[g] = IF Issues(r) /\ g = tx[r].own THEN NewRow(r)
                                ELSE IF g \in tx[r].rows THEN [otp[g] EXCEPT !.used = TRUE]
                                ELSE otp[g]
  BY DEF Commit, Issues
<1>7. ASSUME NEW g \in Stored
      PROVE  /\ otp'[g] \in Row
             /\ otp'[g].at = otp[g].at /\ otp'[g].exp = otp[g].exp
             /\ otp[g].used \/ g \in tx[r].rows => otp'[g].used
  <2>1. g \in Otps /\ ~(Issues(r) /\ g = tx[r].own)
    BY <1>3, <1>5
  <2>2. CASE g \in tx[r].rows
    BY <1>5, <1>6, <2>1, <2>2
  <2>3. CASE g \notin tx[r].rows
    BY <1>5, <1>6, <2>1, <2>3
  <2>4. QED
    BY <2>2, <2>3
<1>8. \A g \in Otps \ Stored : otp'[g] = IF Issues(r) /\ g = tx[r].own THEN NewRow(r) ELSE None
  BY <1>2, <1>6 DEF Stored
<1>9. otp' \in [Otps -> Row \cup {None}]
  <2>1. \A g \in Otps : otp'[g] \in Row \cup {None}
    BY <1>4, <1>7, <1>8
  <2>2. DOMAIN otp' = Otps /\ otp' = [g \in Otps |-> otp'[g]]
    BY DEF Commit
  <2>3. QED
    BY <2>1, <2>2
<1>10. None \notin Row
  BY ConstantsOK
<1>11. Stored' = {g \in Otps : otp'[g] # None}
  BY DEF Stored
<1>12. \A g \in Otps : otp'[g] # None <=> g \in Stored \/ (Issues(r) /\ g = tx[r].own)
  BY <1>4, <1>7, <1>8, <1>10
<1>13. /\ Issues(r) => Stored' = Stored \cup {tx[r].own}
       /\ ~Issues(r) => Stored' = Stored
  BY <1>3, <1>11, <1>12 DEF Stored
<1>14. QED
  BY <1>3, <1>6, <1>7, <1>9, <1>13

LEMMA CommitIInv ==
    ASSUME IInv, NEW r \in Requests, Commit(r)
    PROVE  IInv'
<1>1. /\ Sound(r) /\ pc[r] = "commit" /\ tx[r] \in Tx
      /\ pc' = [pc EXCEPT ![r] = "idle"] /\ tx' = [tx EXCEPT ![r] = NoTx]
      /\ UNCHANGED <<clock, mailed>>
  BY DEF Commit, IInv, TypeOK
<1>2. /\ pc'[r] = "idle" /\ tx'[r] = NoTx
      /\ \A s \in Requests \ {r} : pc'[s] = pc[s] /\ tx'[s] = tx[s]
  BY <1>1 DEF IInv, TypeOK
<1>3. Issues(r) \/ Verifies(r)
  BY <1>1 DEF Sound, Issues, Verifies, Tx
<1>3a. /\ Issues(r) => /\ knew' = [knew EXCEPT ![tx[r].own] = tx[r].knew]
                        /\ ended' = ended /\ emailVerified' = emailVerified
       /\ Verifies(r) => /\ ended' = ended \cup tx[r].knew
                          /\ emailVerified' = TRUE /\ knew' = knew
  BY DEF Commit, Issues, Verifies
<1>4. TypeOK'
  <2>1. ended' \in SUBSET Otps /\ emailVerified' \in BOOLEAN
    BY <1>1, <1>3, <1>3a DEF IInv, TypeOK, Tx
  <2>2. knew' \in [Otps -> SUBSET Otps]
    BY <1>1 DEF Commit, IInv, TypeOK, Tx
  <2>3. QED
    BY <1>1, <2>1, <2>2, CommitTable, NoTxFacts DEF IInv, TypeOK, PCs
<1>5. Stored \subseteq Stored'
  BY CommitTable
<1>6. ASSUME NEW S \in SUBSET Stored, NEW e
      PROVE  Recent(S, e)' = Recent(S, e) /\ (Decided(S, e)' <=> Decided(S, e))
  <2>1. \A g \in S : otp'[g].at = otp[g].at
    BY CommitTable
  <2>2. QED
    BY <2>1 DEF Recent, Decided
<1>7. ASSUME NEW s \in Requests PROVE Sound(s)'
  <2>1. CASE s = r
    BY <1>2, <2>1, NoTxFacts DEF Sound, Issues, Verifies
  <2>2. CASE s # r
    <3>1. Sound(s) /\ pc'[s] = pc[s] /\ tx'[s] = tx[s]
      BY <1>2, <2>2 DEF IInv
    <3>2. Reached(s)' = Reached(s) /\ Issues(s)' = Issues(s) /\ Verifies(s)' = Verifies(s)
      BY <3>1 DEF Reached, Issues, Verifies
    <3>2a. pc[s] \in {"invalidate", "mail", "respond", "commit"} =>
               \A g \in tx'[s].knew : otp'[g].used \/ g \in Reached(s)'
      BY <3>1, <3>2, CommitTable DEF Sound
    <3>3. CASE Issues(s)
      <4>1. tx[s].own \in Otps \ Stored /\ tx[s].knew \subseteq Stored /\ ~Verifies(s)
        BY <3>1, <3>3 DEF Sound, Issues, Verifies
      <4>2. tx[s].own \in Otps \ Stored'
        <5>1. Issues(r) => tx[s].own # tx[r].own
          BY <2>2, <3>3 DEF IInv, OwnRows
        <5>2. QED
          BY <4>1, <5>1, CommitTable
      <4>3. /\ Recent(tx[s].knew, tx[s].exp)' = Recent(tx[s].knew, tx[s].exp)
            /\ Decided(tx[s].knew, tx[s].exp)' <=> Decided(tx[s].knew, tx[s].exp)
        <5>1. /\ Recent(tx[s].knew, tx[s].exp)' = {g \in tx[s].knew : otp'[g].at + Window + Life >= tx[s].exp}
              /\ Decided(tx[s].knew, tx[s].exp)' <=> \A g \in tx[s].knew : otp'[g].at + Cooldown + Life <= tx[s].exp
          BY <3>1 DEF Recent, Decided
        <5>2. \A g \in tx[s].knew : otp'[g].at = otp[g].at
          BY <4>1, CommitTable
        <5>3. QED
          BY <5>1, <5>2 DEF Recent, Decided
      <4>4. QED
        BY <1>5, <3>1, <3>2, <3>2a, <3>3, <4>1, <4>2, <4>3 DEF Sound
    <3>4. CASE ~Issues(s)
      BY <1>5, <3>1, <3>2, <3>2a, <3>4 DEF Sound
    <3>5. QED
      BY <3>3, <3>4
  <2>3. QED
    BY <2>1, <2>2
<1>8. OwnRows'
  BY <1>2, NoTxFacts DEF IInv, OwnRows, Issues
<1>9. ASSUME NEW h \in Stored, ~(Issues(r) /\ h = tx[r].own) PROVE Kept(h)'
  <2>1. knew'[h] = knew[h]
    BY <1>3, <1>3a, <1>9 DEF IInv, TypeOK, Stored
  <2>2. Kept(h) /\ otp'[h].exp = otp[h].exp /\ knew[h] \in SUBSET Stored
    BY CommitTable DEF IInv, Kept
  <2>3. \A g \in knew[h] : otp'[g].used /\ otp'[g].at = otp[g].at
    BY <2>2, CommitTable DEF Kept
  <2>4. /\ Recent(knew[h], otp[h].exp)' = {g \in knew[h] : otp'[g].at + Window + Life >= otp[h].exp}
        /\ Decided(knew[h], otp[h].exp)' <=> \A g \in knew[h] : otp'[g].at + Cooldown + Life <= otp[h].exp
    BY <2>1, <2>2 DEF Recent, Decided
  <2>5. /\ Recent(knew[h], otp[h].exp)' = Recent(knew[h], otp[h].exp)
        /\ Decided(knew[h], otp[h].exp)' <=> Decided(knew[h], otp[h].exp)
    BY <2>3, <2>4 DEF Recent, Decided
  <2>6. QED
    BY <1>5, <2>1, <2>2, <2>3, <2>5 DEF Kept
<1>10. ASSUME NEW o \in Otps, Issues(r), o = tx[r].own PROVE Kept(o)'
  <2>1. /\ o \in Otps \ Stored /\ tx[r].knew \in SUBSET Stored
        /\ Decided(tx[r].knew, tx[r].exp) /\ Cardinality(Recent(tx[r].knew, tx[r].exp)) < OtpMax
        /\ \A g \in tx[r].knew : otp[g].used \/ g \in tx[r].rows
    BY <1>1, <1>10 DEF Sound, Reached
  <2>2. knew'[o] = tx[r].knew
    BY <1>3a, <1>10 DEF IInv, TypeOK
  <2>3. otp'[o].exp = tx[r].exp
    <3>1. otp'[tx[r].own] = NewRow(r)
      BY <1>10, CommitTable
    <3>2. NewRow(r).exp = tx[r].exp
      BY DEF NewRow
    <3>3. QED
      BY <1>10, <3>1, <3>2
  <2>4. \A g \in tx[r].knew : otp'[g].used /\ otp'[g].at = otp[g].at
    BY <2>1, CommitTable
  <2>5. /\ Recent(knew[o], otp[o].exp)' = Recent(tx[r].knew, tx[r].exp)
        /\ Decided(knew[o], otp[o].exp)' <=> Decided(tx[r].knew, tx[r].exp)
    BY <2>2, <2>3, <2>4 DEF Recent, Decided
  <2>6. QED
    BY <1>5, <2>1, <2>2, <2>4, <2>5 DEF Kept
<1>11. \A h \in Stored' : Kept(h)'
  <2>1. ASSUME NEW h \in Stored' PROVE Kept(h)'
    <3>1. CASE Issues(r) /\ h = tx[r].own
      BY <1>10, <2>1, <3>1 DEF Stored
    <3>2. CASE ~(Issues(r) /\ h = tx[r].own)
      BY <1>9, <2>1, <3>2, CommitTable
    <3>3. QED
      BY <3>1, <3>2
  <2>2. QED
    BY <2>1
<1>12. IsFiniteSet(Stored')
  BY CommitTable, FS_AddElement DEF IInv
<1>13. \A g \in ended' : Ended(g)'
  <2>1. \A g \in tx[r].knew : g \in Stored /\ (otp[g].used \/ g \in tx[r].rows)
    BY <1>1 DEF Sound, Reached
  <2>2. \A g \in Stored : otp[g].used \/ g \in tx[r].rows => otp'[g].used
    BY CommitTable
  <2>3. QED
    BY <1>3, <1>3a, <1>5, <2>1, <2>2 DEF IInv, Ended
<1>14. QED
  BY <1>4, <1>7, <1>8, <1>11, <1>12, <1>13 DEF IInv

(***************************************************************************)
(* The theorems                                                            *)
(***************************************************************************)

LEMMA StepIInv == IInv /\ [Next]_vars => IInv'
<1>1. SUFFICES ASSUME IInv, [Next]_vars PROVE IInv'
  OBVIOUS
<1>2. ASSUME NEW r \in Requests, Begin(r) PROVE IInv'
  BY <1>1, <1>2, BeginIssueIInv, BeginVerifyIInv DEF Begin
<1>3. ASSUME NEW r \in Requests, Acquire(r) PROVE IInv'
  BY <1>1, <1>3, InvalidateRowIInv, MarkVerifiedIInv, MarkUsedIInv DEF Acquire
<1>4. ASSUME NEW r \in Requests, Proceed(r) PROVE IInv'
  BY <1>1, <1>4, CheckCooldownIInv, CheckWindowIInv, SnapshotIInv, MailIInv, SelectIInv,
     RespondIInv, CommitIInv, RollbackIInv DEF Proceed, RejectCooldown, RejectWindow, SelectFails
<1>5. ASSUME NEW r \in Requests, Abort(r) \/ DeadlockVictim(r) PROVE IInv'
  BY <1>1, <1>5, RollbackIInv DEF Abort, DeadlockVictim
<1>6. CASE UNCHANGED vars
  <2>1. Stored' = Stored /\ TypeOK' /\ OwnRows'
    BY <1>1, <1>6 DEF vars, IInv, TypeOK, OwnRows, Issues, Stored
  <2>2. \A S, e : Recent(S, e)' = Recent(S, e) /\ (Decided(S, e)' <=> Decided(S, e))
    BY <1>6 DEF vars, Recent, Decided
  <2>3. \A r \in Requests : Reached(r)' = Reached(r)
    BY <1>6 DEF vars, Reached
  <2>4. \A r \in Requests : Sound(r)'
    BY <1>1, <1>6, <2>1, <2>2, <2>3 DEF vars, IInv, Sound, Issues, Verifies
  <2>5. \A h \in Stored' : Kept(h)'
    BY <1>1, <1>6, <2>1, <2>2 DEF vars, IInv, Kept
  <2>6. \A g \in ended' : Ended(g)'
    BY <1>1, <1>6, <2>1 DEF vars, IInv, Ended
  <2>7. QED
    BY <1>1, <2>1, <2>4, <2>5, <2>6 DEF IInv
<1>7. QED
  BY <1>1, <1>2, <1>3, <1>4, <1>5, <1>6, TickIInv DEF Next

THEOREM Invariant == Spec => []IInv
<1>1. QED
  BY InitIInv, StepIInv, PTL DEF Spec

(* Every request is where a handler of its kind can be, and every row and  *)
(* mail is well formed.                                                    *)
THEOREM TypeCorrect == Spec => []TypeOK
<1>1. IInv => TypeOK
  BY DEF IInv
<1>2. QED
  BY <1>1, Invariant, PTL

(* The cooldown, for every interleaving of issues and redemptions: the     *)
(* check that _issue_otp made before the row still holds of it at commit.  *)
THEOREM CooldownHolds == Spec => []CodesSpaced
<1>1. IInv => CodesSpaced
  BY DEF IInv, Kept, Decided, CodesSpaced, Spaced
<1>2. QED
  BY <1>1, Invariant, PTL

(* The rolling window: neither redeeming nor superseding a code makes room *)
(* in it.                                                                  *)
THEOREM WindowHolds == Spec => []CodesPerWindow
<1>1. IInv => CodesPerWindow
  BY DEF IInv, Kept, Recent, CodesPerWindow
<1>2. QED
  BY <1>1, Invariant, PTL

(* A new code supersedes every one committed when its issue began,         *)
(* whatever waited for whose row meanwhile.                                *)
THEOREM IssuingSupersedes == Spec => []OneUsableCode
<1>1. IInv => OneUsableCode
  BY DEF IInv, Kept, OneUsableCode, Unused
<1>2. QED
  BY <1>1, Invariant, PTL

(* A committed login has ended every code that was committed when its      *)
(* verify_otp began, for any number of redemptions and issues that wait    *)
(* for the same rows, fail, or have sent their cookies and fail then.      *)
THEOREM LoginsEndCodes == Spec => []LoginEndsCodes
<1>1. IInv => LoginEndsCodes
  BY DEF IInv, Ended, LoginEndsCodes
<1>2. QED
  BY <1>1, Invariant, PTL
=============================================================================
