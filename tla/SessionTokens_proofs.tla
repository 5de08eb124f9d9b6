------------------------ MODULE SessionTokens_proofs ------------------------
(* Theorems about SessionTokens, for every number of users, grants and     *)
(* concurrent requests.                                                    *)
EXTENDS SessionTokens, TLAPS

(***************************************************************************)
(* Type correctness.  TypeOK alone is not inductive: that a request waits  *)
(* for a row that exists rests on clients holding issued grants only, and  *)
(* that on no two requests minting the same grant.                         *)
(***************************************************************************)

HeldIssued == \A g \in held : Issued(g)

WantOK ==
    \A r \in Requests :
        /\ pc[r] \in {"lock", "check", "resolve"} => tx[r].want \in held
        /\ pc[r] = "revoke" => tx[r].want \in Grants

MintOK ==
    \A r \in Requests :
        /\ pc[r] \in {"lock", "check"} => tx[r].mint \in Grants
        /\ pc[r] \in {"idle", "resolve", "snapshot", "revoke", "bump"}
             => tx[r].mint = None
        /\ pc[r] \in {"respond", "commit"} /\ tx[r].mint # None
             => Issued(tx[r].mint)
        /\ \A s \in Requests \ {r} : tx[r].mint = tx[s].mint => tx[r].mint = None

TypeInv == TypeOK /\ HeldIssued /\ WantOK /\ MintOK

LEMMA NoTxType == NoTx \in Tx /\ NoTx.mint = None
  BY ConstantsOK DEF NoTx, Tx, Logouts

(* What a rollback does preserves the types, whatever caused it.           *)
LEMMA RollbackType ==
    ASSUME TypeInv, NEW r \in Requests, Rollback(r)
    PROVE  TypeInv'
  <1> USE DEF TypeInv
  <1>1. tx' \in [Requests -> Tx]
    BY NoTxType DEF TypeOK, Rollback
  <1>2. claims' \in [Grants -> Claim \cup {None}]
    BY DEF TypeOK, Rollback
  <1>3. pc' \in [Requests -> PCs]
    BY DEF TypeOK, Rollback, PCs
  <1>4. TypeOK'
    BY <1>1, <1>2, <1>3 DEF TypeOK, Rollback
  <1>5. HeldIssued'
    BY DEF TypeOK, HeldIssued, Issued, Rollback
  <1>6. WantOK'
    BY <1>1, <1>3 DEF TypeOK, WantOK, Rollback
  <1>7. MintOK'
    <2>1. \A s \in Requests \ {r} : tx'[s] = tx[s] /\ pc'[s] = pc[s]
      BY DEF TypeOK, Rollback
    <2>2. tx'[r] = NoTx /\ pc'[r] = "idle"
      BY DEF TypeOK, Rollback
    <2>3. \A s \in Requests \ {r} : tx[s].mint # None /\ Issued(tx[s].mint)
            => Issued(tx[s].mint)'
      BY DEF TypeOK, Tx, MintOK, Issued, Rollback
    <2> QED
      BY <2>1, <2>2, <2>3, NoTxType DEF MintOK
  <1> QED
    BY <1>4, <1>5, <1>6, <1>7

(* A step of one request that issues no grant and takes none back keeps    *)
(* TypeInv, if it leaves that request in a good place.                     *)
LEMMA MoveType ==
    ASSUME TypeInv, NEW r \in Requests, NEW p \in PCs, NEW t \in Tx,
           pc' = [pc EXCEPT ![r] = p], tx' = [tx EXCEPT ![r] = t],
           UNCHANGED <<sessionVersion, isActive, row, claims, held, expired>>,
           p \in {"lock", "check", "resolve"} => t.want \in held,
           p = "revoke" => t.want \in Grants,
           p \in {"lock", "check"} => t.mint \in Grants,
           p \in {"idle", "resolve", "snapshot", "revoke", "bump"} => t.mint = None,
           p \in {"respond", "commit"} /\ t.mint # None => Issued(t.mint),
           \A s \in Requests \ {r} : t.mint = tx[s].mint => t.mint = None
    PROVE  TypeInv'
  <1> USE DEF TypeInv
  <1>1. TypeOK'
    BY DEF TypeOK
  <1>2. HeldIssued'
    BY DEF HeldIssued, Issued
  <1>3. pc'[r] = p /\ tx'[r] = t
    BY DEF TypeOK
  <1>4. \A s \in Requests \ {r} : tx'[s] = tx[s] /\ pc'[s] = pc[s]
    BY DEF TypeOK
  <1>5. WantOK'
    BY <1>3, <1>4 DEF WantOK
  <1>6. MintOK'
    BY <1>3, <1>4 DEF MintOK, Issued
  <1> QED
    BY <1>1, <1>2, <1>5, <1>6

(* One row of revoke_all_refresh_tokens after another keeps the types.     *)
LEMMA NextRowType ==
    ASSUME TypeInv, NEW r \in Requests, NEW L \in SUBSET Grants,
           NEW S \in SUBSET Grants, NextRow(r, L, S), tx[r].mint = None,
           UNCHANGED <<sessionVersion, isActive, row, claims, held, expired>>
    PROVE  TypeInv'
  <1>1. tx[r] \in Tx
    BY DEF TypeInv, TypeOK
  <1>2. CASE /\ pc' = [pc EXCEPT ![r] = "bump"]
             /\ tx' = [tx EXCEPT ![r] = [@ EXCEPT !.rows = L, !.todo = {},
                                                !.want = None]]
    <2> DEFINE t == [tx[r] EXCEPT !.rows = L, !.todo = {}, !.want = None]
    <2>1. t \in Tx /\ t.mint = None
      BY <1>1 DEF Tx
    <2>2. tx' = [tx EXCEPT ![r] = t]
      BY <1>2
    <2> HIDE DEF t
    <2> QED
      BY <1>2, <2>1, <2>2, MoveType DEF PCs
  <1>3. ASSUME NEW g \in S, pc' = [pc EXCEPT ![r] = "revoke"],
               tx' = [tx EXCEPT ![r] = [@ EXCEPT !.rows = L, !.todo = S \ {g},
                                                 !.want = g]]
        PROVE  TypeInv'
    <2> DEFINE t == [tx[r] EXCEPT !.rows = L, !.todo = S \ {g}, !.want = g]
    <2>1. t \in Tx /\ t.mint = None /\ t.want = g
      BY <1>1 DEF Tx
    <2>2. tx' = [tx EXCEPT ![r] = t]
      BY <1>3
    <2> HIDE DEF t
    <2> QED
      BY <1>3, <2>1, <2>2, MoveType DEF PCs
  <1> QED
    BY <1>2, <1>3 DEF NextRow

(* Every step keeps every variable in its type.                            *)
LEMMA TypeStep ==
    ASSUME TypeInv, [Next]_vars
    PROVE  TypeInv'
  <1> USE ConstantsOK
  <1>0. TypeOK /\ HeldIssued /\ WantOK /\ MintOK
    BY DEF TypeInv
  <1>1. ASSUME NEW r \in Requests, NEW u \in Users, NEW g \in Grants, Login(r, u, g)
        PROVE  TypeInv'
    <2> DEFINE t == [NoTx EXCEPT !.kind = "login", !.user = u,
                                 !.seen = sessionVersion[u], !.mint = g]
    <2>1. t \in Tx /\ t.mint = g
      BY <1>0, NoTxType DEF Tx, TypeOK
    <2>2. [user |-> u, sv |-> sessionVersion[u], root |-> g] \in Claim
      BY <1>0 DEF Claim, TypeOK
    <2>3. tx' = [tx EXCEPT ![r] = t] /\ pc' = [pc EXCEPT ![r] = "respond"]
      BY <1>1 DEF Login, IssueAuthResult
    <2> HIDE DEF t
    <2>4. TypeOK'
      BY <1>0, <1>1, <2>1, <2>2, <2>3 DEF TypeOK, Login, IssueAuthResult, PCs
    <2>5. \A s \in Requests \ {r} : tx'[s] = tx[s] /\ pc'[s] = pc[s]
      BY <1>0, <2>3 DEF TypeOK
    <2>6. tx'[r] = t /\ pc'[r] = "respond"
      BY <1>0, <2>3 DEF TypeOK
    <2>7. \A h \in Grants : Issued(h) \/ h = g => Issued(h)'
      BY <1>0, <1>1, <2>2 DEF TypeOK, Login, IssueAuthResult, Issued, Claim
    <2>8. HeldIssued'
      BY <1>0, <1>1, <2>7 DEF HeldIssued, Login, TypeOK
    <2>9. WantOK'
      BY <1>0, <1>1, <2>5, <2>6 DEF WantOK, Login
    <2>10. \A s \in Requests : tx[s].mint # g
      BY <1>1 DEF Login, Fresh
    <2>11. MintOK'
      BY <1>0, <2>1, <2>4, <2>5, <2>6, <2>7, <2>10 DEF MintOK, TypeOK, Tx
    <2> QED
      BY <2>4, <2>8, <2>9, <2>11 DEF TypeInv
  <1>2. ASSUME NEW r \in Requests, NEW h \in Grants, NEW g \in Grants,
               BeginRefresh(r, h, g)
        PROVE  TypeInv'
    <2> DEFINE t == [NoTx EXCEPT !.kind = "refresh", !.want = h, !.mint = g]
    <2>1. t \in Tx /\ t.mint = g /\ t.want = h
      BY NoTxType DEF Tx
    <2>2. tx' = [tx EXCEPT ![r] = t] /\ pc' = [pc EXCEPT ![r] = "lock"]
      BY <1>2 DEF BeginRefresh
    <2>3. \A s \in Requests \ {r} : tx[s].mint # g
      BY <1>2 DEF BeginRefresh, Fresh
    <2>4. h \in held /\ "lock" \in PCs
      BY <1>2 DEF BeginRefresh, PCs
    <2>5. UNCHANGED <<sessionVersion, isActive, row, claims, held, expired>>
      BY <1>2 DEF BeginRefresh
    <2> HIDE DEF t
    <2> QED
      BY <2>1, <2>2, <2>3, <2>4, <2>5, MoveType
  <1>3. ASSUME NEW r \in Requests, NEW kind \in Logouts, NEW h \in Grants,
               LogoutByRenewal(r, kind, h)
        PROVE  TypeInv'
    <2> DEFINE t == [NoTx EXCEPT !.kind = kind, !.want = h]
    <2>1. t \in Tx /\ t.mint = None /\ t.want = h
      BY NoTxType DEF Tx
    <2>2. tx' = [tx EXCEPT ![r] = t] /\ pc' = [pc EXCEPT ![r] = "resolve"]
      BY <1>3 DEF LogoutByRenewal
    <2> HIDE DEF t
    <2> QED
      BY <1>3, <2>1, <2>2, MoveType DEF LogoutByRenewal, PCs
  <1>4. ASSUME NEW r \in Requests, NEW kind \in Logouts, NEW h \in Grants,
               LogoutBySession(r, kind, h)
        PROVE  TypeInv'
    <2> DEFINE u == claims[h].user
               t == [NoTx EXCEPT !.kind = kind, !.user = u,
                                 !.seen = sessionVersion[u]]
    <2>1. u \in Users
      BY <1>0, <1>4 DEF LogoutBySession, HeldIssued, Issued, TypeOK, Claim
    <2>2. t \in Tx /\ t.mint = None
      BY <1>0, <2>1, NoTxType DEF Tx, TypeOK
    <2>3. tx' = [tx EXCEPT ![r] = t] /\ pc' = [pc EXCEPT ![r] = "snapshot"]
      BY <1>4 DEF LogoutBySession
    <2> HIDE DEF t, u
    <2> QED
      BY <1>4, <2>2, <2>3, MoveType DEF LogoutBySession, PCs
  <1>5. ASSUME NEW r \in Requests, LockRow(r)
        PROVE  TypeInv'
    <2> DEFINE t == [tx[r] EXCEPT !.rows = {tx[r].want}]
    <2>1. tx[r] \in Tx /\ tx[r].want \in held /\ tx[r].mint \in Grants
      BY <1>0, <1>5 DEF TypeOK, LockRow, WantOK, MintOK
    <2>2. t \in Tx /\ t.mint = tx[r].mint /\ t.want = tx[r].want
      BY <1>0, <2>1 DEF Tx, TypeOK
    <2>3. tx' = [tx EXCEPT ![r] = t] /\ pc' = [pc EXCEPT ![r] = "check"]
      BY <1>5 DEF LockRow
    <2>4. \A s \in Requests \ {r} : tx[s].mint # t.mint
      BY <1>0, <2>1, <2>2 DEF MintOK
    <2>5. "check" \in PCs
      BY DEF PCs
    <2>6. UNCHANGED <<sessionVersion, isActive, row, claims, held, expired>>
      BY <1>5 DEF LockRow
    <2>7. t \in Tx /\ t.want \in held /\ t.mint \in Grants
      BY <2>1, <2>2
    <2> HIDE DEF t
    <2> QED
      BY <2>3, <2>4, <2>5, <2>6, <2>7, MoveType
  <1>6. ASSUME NEW r \in Requests, Resolve(r)
        PROVE  TypeInv'
    <2> DEFINE u == claims[tx[r].want].user
               t == [tx[r] EXCEPT !.rows = {tx[r].want}, !.user = u,
                                  !.seen = sessionVersion[u]]
    <2>1. tx[r] \in Tx /\ tx[r].want \in held /\ tx[r].mint = None
      BY <1>0, <1>6 DEF TypeOK, Resolve, WantOK, MintOK
    <2>2. u \in Users
      BY <1>0, <2>1 DEF HeldIssued, Issued, TypeOK, Claim
    <2>3. t \in Tx /\ t.mint = None
      BY <1>0, <2>1, <2>2 DEF Tx, TypeOK
    <2>4. tx' = [tx EXCEPT ![r] = t] /\ pc' = [pc EXCEPT ![r] = "snapshot"]
      BY <1>6 DEF Resolve
    <2> HIDE DEF t, u
    <2> QED
      BY <1>6, <2>3, <2>4, MoveType DEF Resolve, PCs
  <1>7. ASSUME NEW r \in Requests, RefreshCheck(r)
        PROVE  TypeInv'
    <2> DEFINE h == tx[r].want
               u == claims[h].user
               g == tx[r].mint
               t == [tx[r] EXCEPT !.user = u, !.seen = sessionVersion[u]]
               c == [user |-> u, sv |-> sessionVersion[u], root |-> claims[h].root]
    <2>1. tx[r] \in Tx /\ h \in held /\ g \in Grants
      BY <1>0, <1>7 DEF TypeOK, RefreshCheck, WantOK, MintOK
    <2>2. claims[h] \in Claim
      BY <1>0, <2>1 DEF HeldIssued, Issued, TypeOK
    <2>3. t \in Tx /\ t.mint = g
      BY <1>0, <2>1, <2>2 DEF Tx, TypeOK, Claim
    <2>4. c \in Claim /\ c # None
      BY <1>0, <2>2 DEF TypeOK, Claim
    <2>5. /\ tx' = [tx EXCEPT ![r] = t] /\ pc' = [pc EXCEPT ![r] = "respond"]
          /\ claims' = [claims EXCEPT ![g] = c]
          /\ UNCHANGED <<sessionVersion, isActive, row, held, expired>>
      BY <1>7 DEF RefreshCheck, IssueAuthResult
    <2> HIDE DEF t, u, h, c, g
    <2>6. TypeOK'
      BY <1>0, <2>1, <2>3, <2>4, <2>5 DEF TypeOK, PCs
    <2>7. \A s \in Requests \ {r} : tx'[s] = tx[s] /\ pc'[s] = pc[s]
      BY <1>0, <2>5 DEF TypeOK
    <2>8. tx'[r] = t /\ pc'[r] = "respond"
      BY <1>0, <2>5 DEF TypeOK
    <2>9. \A k \in Grants : Issued(k) \/ k = g => Issued(k)'
      BY <1>0, <2>4, <2>5 DEF TypeOK, Issued
    <2>10. HeldIssued'
      BY <1>0, <2>5, <2>9 DEF HeldIssued, TypeOK
    <2>11. WantOK'
      BY <1>0, <2>5, <2>7, <2>8 DEF WantOK
    <2>12. \A s \in Requests \ {r} : tx[s].mint # g
      BY <1>0, <2>1 DEF MintOK, g
    <2>13. MintOK'
      <3>1. ASSUME NEW s \in Requests
            PROVE  tx'[s].mint = tx[s].mint
        <4>1. CASE s = r
          <5>1. tx'[s].mint = t.mint
            BY <2>8, <4>1
          <5>2. tx[s].mint = g
            BY <4>1 DEF g
          <5> QED
            BY <5>1, <5>2, <2>3
        <4>2. CASE s # r
          BY <2>7, <4>2
        <4> QED
          BY <4>1, <4>2
      <3>2. \A k \in Grants : claims[k] # None \/ k = g => claims'[k] # None
        BY <2>9 DEF Issued
      <3>3. ASSUME NEW s \in Requests
            PROVE  /\ pc'[s] \in {"lock", "check"} => tx[s].mint \in Grants
                   /\ pc'[s] \in {"idle", "resolve", "snapshot", "revoke", "bump"}
                        => tx[s].mint = None
                   /\ pc'[s] \in {"respond", "commit"} /\ tx[s].mint # None
                        => claims'[tx[s].mint] # None
        <4>1. CASE s = r
          <5>1. tx[s].mint = g
            BY <4>1 DEF g
          <5> QED
            BY <2>1, <2>8, <3>2, <4>1, <5>1
        <4>2. CASE s # r
          <5>1. pc'[s] = pc[s]
            BY <2>7, <4>2
          <5>2. tx[s].mint \in Grants \cup {None}
            BY <1>0 DEF TypeOK, Tx
          <5>3. /\ pc[s] \in {"lock", "check"} => tx[s].mint \in Grants
                /\ pc[s] \in {"idle", "resolve", "snapshot", "revoke", "bump"}
                     => tx[s].mint = None
                /\ pc[s] \in {"respond", "commit"} /\ tx[s].mint # None
                     => claims[tx[s].mint] # None
            BY <1>0 DEF MintOK, Issued
          <5> QED
            BY <3>2, <5>1, <5>2, <5>3
        <4> QED
          BY <4>1, <4>2
      <3>4. ASSUME NEW s \in Requests, NEW q \in Requests \ {s},
                   tx[s].mint = tx[q].mint
            PROVE  tx[s].mint = None
        BY <1>0, <3>4 DEF MintOK
      <3> QED
        BY <3>1, <3>3, <3>4 DEF MintOK, Issued
    <2> QED
      BY <2>6, <2>10, <2>11, <2>13 DEF TypeInv
  <1>8. ASSUME NEW r \in Requests, ResolveNobody(r)
        PROVE  TypeInv'
    <2>1. tx[r] \in Tx /\ tx[r].mint = None
      BY <1>0, <1>8 DEF TypeOK, ResolveNobody, MintOK
    <2>2. tx' = [tx EXCEPT ![r] = tx[r]] /\ pc' = [pc EXCEPT ![r] = "respond"]
      BY <1>0, <1>8 DEF ResolveNobody, TypeOK
    <2> QED
      BY <1>8, <2>1, <2>2, MoveType DEF ResolveNobody, PCs
  <1>9. ASSUME NEW r \in Requests, RevokeSnapshot(r) \/ RevokeRow(r)
        PROVE  TypeInv'
    <2>1. tx[r] \in Tx /\ tx[r].mint = None
      BY <1>0, <1>9 DEF TypeOK, RevokeSnapshot, RevokeRow, MintOK
    <2>2. CASE RevokeSnapshot(r)
      BY <2>1, <2>2, NextRowType DEF RevokeSnapshot, LiveRows, Tx
    <2>3. CASE RevokeRow(r)
      <3>1. tx[r].want \in Grants
        BY <1>0, <2>3 DEF RevokeRow, WantOK
      <3> QED
        BY <2>1, <2>3, <3>1, NextRowType DEF RevokeRow, Tx
    <2> QED
      BY <1>9, <2>2, <2>3
  <1>10. ASSUME NEW r \in Requests, BumpVersion(r)
         PROVE  TypeInv'
    <2> DEFINE t == [tx[r] EXCEPT !.bump = TRUE]
    <2>1. tx[r] \in Tx /\ tx[r].mint = None
      BY <1>0, <1>10 DEF TypeOK, BumpVersion, MintOK
    <2>2. t \in Tx /\ t.mint = None
      BY <2>1 DEF Tx
    <2>3. tx' = [tx EXCEPT ![r] = t] /\ pc' = [pc EXCEPT ![r] = "respond"]
      BY <1>10 DEF BumpVersion
    <2> HIDE DEF t
    <2> QED
      BY <1>10, <2>2, <2>3, MoveType DEF BumpVersion, PCs
  <1>11. ASSUME NEW r \in Requests, Respond(r)
         PROVE  TypeInv'
    <2>1. tx[r].mint # None => tx[r].mint \in Grants /\ Issued(tx[r].mint)
      BY <1>0, <1>11 DEF TypeOK, Tx, Respond, MintOK
    <2>2. TypeOK'
      BY <1>0, <1>11, <2>1 DEF TypeOK, Respond, PCs
    <2>3. HeldIssued'
      BY <1>0, <1>11, <2>1 DEF HeldIssued, Issued, Respond
    <2>4. WantOK'
      BY <1>0, <1>11 DEF WantOK, Respond, TypeOK
    <2>5. MintOK'
      BY <1>0, <1>11 DEF MintOK, Issued, Respond, TypeOK
    <2> QED
      BY <2>2, <2>3, <2>4, <2>5 DEF TypeInv
  <1>12. ASSUME NEW r \in Requests, Commit(r)
         PROVE  TypeInv'
    <2>1. tx' \in [Requests -> Tx] /\ pc' \in [Requests -> PCs]
      BY <1>0, <1>12, NoTxType DEF TypeOK, Commit, PCs
    <2>2. row' \in [Grants -> {"absent", "live", "revoked"}]
      BY <1>0, <1>12 DEF TypeOK, Commit
    <2>3. sessionVersion' \in [Users -> Nat]
      <3>1. tx[r].seen + 1 \in Nat
        BY <1>0 DEF TypeOK, Tx
      <3> QED
        BY <1>0, <1>12, <3>1 DEF TypeOK, Commit, StoredVersion
    <2>4. TypeOK'
      BY <1>0, <1>12, <2>1, <2>2, <2>3 DEF TypeOK, Commit
    <2>5. tx'[r] = NoTx /\ pc'[r] = "idle"
      BY <1>0, <1>12 DEF TypeOK, Commit
    <2>6. \A s \in Requests \ {r} : tx'[s] = tx[s] /\ pc'[s] = pc[s]
      BY <1>0, <1>12 DEF TypeOK, Commit
    <2>7. HeldIssued'
      BY <1>0, <1>12 DEF HeldIssued, Issued, Commit
    <2>8. WantOK'
      BY <1>0, <1>12, <2>5, <2>6 DEF WantOK, Commit
    <2>9. MintOK'
      BY <1>0, <1>12, <2>5, <2>6, NoTxType DEF MintOK, Issued, Commit
    <2> QED
      BY <2>4, <2>7, <2>8, <2>9 DEF TypeInv
  <1>13. ASSUME NEW u \in Users, Disable(u)
         PROVE  TypeInv'
    BY <1>0, <1>13 DEF TypeInv, TypeOK, HeldIssued, Issued, WantOK, MintOK, Disable
  <1>14. ASSUME NEW g \in Grants, Expire(g)
         PROVE  TypeInv'
    BY <1>0, <1>14 DEF TypeInv, TypeOK, HeldIssued, Issued, WantOK, MintOK, Expire
  <1>15. ASSUME NEW r \in Requests, Rollback(r)
         PROVE  TypeInv'
    BY <1>15, RollbackType
  <1>16. CASE UNCHANGED vars
    BY <1>0, <1>16 DEF vars, TypeInv, TypeOK, HeldIssued, Issued, WantOK, MintOK
  <1> QED
    BY <1>1, <1>2, <1>3, <1>4, <1>5, <1>6, <1>7, <1>8, <1>9, <1>10, <1>11, <1>12,
       <1>13, <1>14, <1>15, <1>16
    DEF Next, Begin, Acquire, Proceed, RefreshUnknown, RefreshReject,
        ResolveForbidden, Abort, DeadlockVictim

LEMMA TypeInit == Init => TypeInv
  BY ConstantsOK, NoTxType
  DEF Init, TypeInv, TypeOK, HeldIssued, Issued, WantOK, MintOK, PCs, NoTx

LEMMA TypeInvariant == Spec => []TypeInv
  <1>1. Init => TypeInv
    BY TypeInit
  <1>2. TypeInv /\ [Next]_vars => TypeInv'
    BY TypeStep
  <1> QED
    BY <1>1, <1>2, PTL DEF Spec

(* Every variable stays in its type, in every behaviour of any number of   *)
(* concurrent requests.                                                    *)
THEOREM TypeCorrect == Spec => []TypeOK
  <1>1. TypeInv => TypeOK
    BY DEF TypeInv
  <1> QED
    BY <1>1, TypeInvariant, PTL

(***************************************************************************)
(* Rotation.  OneLivePerLogin rests on the row locks (LockInv), on what a  *)
(* transaction that is about to commit a new row knows of the row it       *)
(* replaces (StagingInv), and on a family existing only once its first row *)
(* is committed (LineageInv): so the grant of a failed login or refresh    *)
(* can be forgotten without leaving descendants.                           *)
(***************************************************************************)

Present(g) == row[g] # "absent"

LockInv ==
    \A r \in Requests :
        /\ \A s \in Requests \ {r} : tx[r].rows \cap tx[s].rows = {}
        /\ \A g \in tx[r].rows \cup tx[r].todo : Present(g)
        /\ pc[r] = "revoke" => Present(tx[r].want)

Staged(r) ==
    tx[r].mint # None =>
        /\ ~Present(tx[r].mint)
        /\ pc[r] \in {"lock", "check"} => ~Issued(tx[r].mint)
        /\ pc[r] = "check" => tx[r].want \in tx[r].rows
        /\ pc[r] = "commit" => tx[r].mint \in held
        /\ pc[r] \in {"respond", "commit"} =>
             \/ claims[tx[r].mint].root = tx[r].mint
             \/ /\ tx[r].want \in tx[r].rows /\ row[tx[r].want] = "live"
                /\ claims[tx[r].want].root = claims[tx[r].mint].root

StagingInv == \A r \in Requests : Staged(r)

LineageInv ==
    \A g \in Grants :
        /\ Present(g) => g \in held
        /\ Issued(g) /\ claims[g].root # g => Present(claims[g].root)

SafeInv == LockInv /\ StagingInv /\ LineageInv /\ FamilyVersion /\ OneLivePerLogin

(* Moves of one request that touch neither rows nor tokens.                *)
LEMMA MoveSafe ==
    ASSUME TypeInv, SafeInv, NEW r \in Requests, NEW p \in PCs, NEW t \in Tx,
           pc' = [pc EXCEPT ![r] = p], tx' = [tx EXCEPT ![r] = t],
           UNCHANGED <<sessionVersion, isActive, row, claims, held, expired>>,
           \A s \in Requests \ {r} : t.rows \cap tx[s].rows = {},
           \A g \in t.rows \cup t.todo : Present(g),
           p = "revoke" => Present(t.want),
           \/ t.mint = None
           \/ /\ p \in {"lock", "check"} /\ ~Present(t.mint) /\ ~Issued(t.mint)
              /\ p = "check" => t.want \in t.rows
    PROVE  SafeInv'
  <1> USE DEF SafeInv
  <1>1. pc'[r] = p /\ tx'[r] = t
    BY DEF TypeInv, TypeOK
  <1>2. \A s \in Requests \ {r} : tx'[s] = tx[s] /\ pc'[s] = pc[s]
    BY DEF TypeInv, TypeOK
  <1>3. LockInv'
    BY <1>1, <1>2 DEF LockInv, Present
  <1>4. StagingInv'
    BY <1>1, <1>2 DEF StagingInv, Staged, Present, Issued
  <1>5. LineageInv' /\ FamilyVersion' /\ OneLivePerLogin'
    BY DEF LineageInv, FamilyVersion, OneLivePerLogin, Present, Issued
  <1> QED
    BY <1>3, <1>4, <1>5

(* The same for a request that mints nothing, or nothing yet.              *)
LEMMA LogoutMoveSafe ==
    ASSUME TypeInv, SafeInv, NEW r \in Requests, NEW p \in PCs, NEW t \in Tx,
           pc' = [pc EXCEPT ![r] = p], tx' = [tx EXCEPT ![r] = t],
           UNCHANGED <<sessionVersion, isActive, row, claims, held, expired>>,
           \A s \in Requests \ {r} : t.rows \cap tx[s].rows = {},
           \A g \in t.rows \cup t.todo : Present(g),
           p = "revoke" => Present(t.want),
           t.mint = None
    PROVE  SafeInv'
  BY MoveSafe

LEMMA NoTxEmpty ==
    NoTx.rows = {} /\ NoTx.todo = {} /\ NoTx.mint = None /\ NoTx.want = None
  BY DEF NoTx

(* Dropping a transaction, and the tokens that reached no client.          *)
LEMMA RollbackSafe ==
    ASSUME TypeInv, SafeInv, NEW r \in Requests, Rollback(r)
    PROVE  SafeInv'
  <1> USE DEF SafeInv
  <1>1. pc'[r] = "idle" /\ tx'[r] = NoTx
    BY DEF TypeInv, TypeOK, Rollback
  <1>2. \A s \in Requests \ {r} : tx'[s] = tx[s] /\ pc'[s] = pc[s]
    BY DEF TypeInv, TypeOK, Rollback
  <1>3. \A g \in Grants : (g = tx[r].mint /\ g \notin held) \/ claims'[g] = claims[g]
    BY DEF Rollback
  <1>4. row' = row /\ held' = held
    BY DEF Rollback
  <1>5. LockInv'
    BY <1>1, <1>2, <1>4, NoTxEmpty DEF LockInv, Present
  <1>6. \A g \in Grants : Present(g) => claims'[g] = claims[g]
    BY <1>3 DEF LineageInv
  <1>7. \A g \in Grants : Issued(g)' => claims'[g] = claims[g]
    BY <1>3 DEF Rollback, Issued
  <1>8. \A s \in Requests \ {r} : tx[s].mint # None => claims'[tx[s].mint] = claims[tx[s].mint]
    BY <1>3 DEF TypeInv, TypeOK, MintOK, Tx
  <1>9. StagingInv'
    <2> SUFFICES ASSUME NEW s \in Requests \ {r}, tx[s].mint # None
                 PROVE  Staged(s)'
      BY <1>1, <1>2, NoTxEmpty DEF StagingInv, Staged
    <2>1. tx'[s] = tx[s] /\ pc'[s] = pc[s] /\ claims'[tx[s].mint] = claims[tx[s].mint]
      BY <1>2, <1>8
    <2>2. tx[s].want \in tx[s].rows =>
            tx[s].want \in Grants /\ claims'[tx[s].want] = claims[tx[s].want]
      BY <1>6 DEF LockInv, TypeInv, TypeOK, Tx
    <2> QED
      BY <1>4, <2>1, <2>2 DEF StagingInv, Staged, Present, Issued
  <1>10. LineageInv'
    BY <1>4, <1>7 DEF LineageInv, Present, Issued, TypeInv, TypeOK, Claim
  <1>11. \A g \in Grants : Issued(g)' => claims[g] \in Claim /\ claims'[g] = claims[g]
    BY <1>7 DEF TypeInv, TypeOK, Issued
  <1>12. FamilyVersion'
    <2> SUFFICES ASSUME NEW g \in Grants, Issued(g)'
                 PROVE  FamilyVersion!(g)'
      BY DEF FamilyVersion
    <2>1. claims'[g] = claims[g] /\ claims[g].root \in Grants /\ Issued(g)
      BY <1>11 DEF Claim, Issued
    <2>2. claims'[claims[g].root] = claims[claims[g].root]
      <3>1. CASE claims[g].root = g
        BY <2>1, <3>1
      <3>2. CASE claims[g].root # g
        <4>1. Present(claims[g].root)
          BY <2>1, <3>2 DEF LineageInv
        <4> QED
          BY <1>6, <2>1, <4>1
      <3> QED
        BY <3>1, <3>2
    <2> QED
      BY <2>1, <2>2 DEF FamilyVersion, Issued
  <1>13. OneLivePerLogin'
    BY <1>4, <1>6 DEF OneLivePerLogin, Present
  <1> QED
    BY <1>5, <1>9, <1>10, <1>12, <1>13

(* A login founds a family of its own: nothing descends from a fresh grant.*)
LEMMA LoginSafe ==
    ASSUME TypeInv, TypeInv', SafeInv, NEW r \in Requests, NEW u \in Users,
           NEW g \in Grants, Login(r, u, g)
    PROVE  SafeInv'
  <1> USE DEF SafeInv
  <1> DEFINE c == [user |-> u, sv |-> sessionVersion[u], root |-> g]
  <1>1. /\ pc'[r] = "respond" /\ tx'[r].rows = {} /\ tx'[r].todo = {}
        /\ tx'[r].mint = g
    BY NoTxType DEF TypeInv, TypeOK, Login, IssueAuthResult, NoTx
  <1>2. \A s \in Requests \ {r} : tx'[s] = tx[s] /\ pc'[s] = pc[s]
    BY DEF TypeInv, TypeOK, Login, IssueAuthResult
  <1>3. /\ claims' = [claims EXCEPT ![g] = c]
        /\ UNCHANGED <<sessionVersion, isActive, row, held, expired>>
    BY DEF Login, IssueAuthResult
  <1>4. ~Issued(g) /\ \A s \in Requests : tx[s].mint # g
    BY DEF Login, Fresh, Issued
  <1>5. claims'[g] = c /\ c.root = g
    BY <1>3 DEF TypeInv, TypeOK
  <1>6. \A h \in Grants \ {g} : claims'[h] = claims[h]
    BY <1>3 DEF TypeInv, TypeOK
  <1> HIDE DEF c
  <1>7. ~Present(g)
    BY <1>4 DEF LineageInv, TypeInv, HeldIssued
  <1>8. LockInv'
    BY <1>1, <1>2, <1>3 DEF LockInv, Present
  <1>9. StagingInv'
    <2>1. Staged(r)'
      BY <1>1, <1>3, <1>5, <1>7 DEF Staged, Present
    <2>2. ASSUME NEW s \in Requests \ {r}, tx[s].mint # None
          PROVE  Staged(s)'
      <3>1. tx[s].mint \in Grants \ {g}
        BY <1>4, <2>2 DEF TypeInv, TypeOK, Tx
      <3>2. claims'[tx[s].mint] = claims[tx[s].mint]
        BY <1>6, <3>1
      <3>3. tx[s].want \in tx[s].rows => claims'[tx[s].want] = claims[tx[s].want]
        BY <1>6, <1>7 DEF LockInv, TypeInv, TypeOK, Tx
      <3> QED
        BY <1>2, <1>3, <3>2, <3>3 DEF StagingInv, Staged, Present, Issued
    <2> QED
      BY <1>2, <2>1, <2>2 DEF StagingInv, Staged
  <1>10. LineageInv'
    BY <1>3, <1>5, <1>6 DEF LineageInv, Present, Issued
  <1>11. FamilyVersion'
    <2> SUFFICES ASSUME NEW h \in Grants, Issued(h)'
                 PROVE  FamilyVersion!(h)'
      BY DEF FamilyVersion
    <2>1. CASE h = g
      BY <1>5, <2>1 DEF Issued
    <2>2. CASE h # g
      <3>1. claims'[h] = claims[h] /\ Issued(h) /\ claims[h].root \in Grants
        BY <1>6, <2>2 DEF Issued, TypeInv, TypeOK, Claim
      <3>2. claims[h].root # g
        BY <1>7, <2>2, <3>1 DEF LineageInv
      <3>3. claims'[claims[h].root] = claims[claims[h].root]
        BY <1>6, <3>1, <3>2
      <3> QED
        BY <3>1, <3>3 DEF FamilyVersion, Issued
    <2> QED
      BY <2>1, <2>2
  <1>12. OneLivePerLogin'
    BY <1>3, <1>6, <1>7 DEF OneLivePerLogin, Present
  <1> QED
    BY <1>8, <1>9, <1>10, <1>11, <1>12

(* A refresh that passes its checks joins the family of the row it holds.  *)
LEMMA RefreshSafe ==
    ASSUME TypeInv, TypeInv', SafeInv, NEW r \in Requests, RefreshCheck(r)
    PROVE  SafeInv'
  <1> USE DEF SafeInv
  <1> DEFINE h == tx[r].want
             u == claims[h].user
             g == tx[r].mint
             c == [user |-> u, sv |-> sessionVersion[u], root |-> claims[h].root]
  <1>1. /\ pc[r] = "check" /\ h \in held /\ h \in Grants /\ g \in Grants /\ g # None
    BY ConstantsOK DEF RefreshCheck, TypeInv, TypeOK, WantOK, MintOK
  <1>2. /\ row[h] = "live" /\ h \in tx[r].rows
        /\ claims[h].sv = sessionVersion[u]
    BY <1>1 DEF RefreshCheck, Refreshable, StagingInv, Staged
  <1>3. claims[h] \in Claim /\ Issued(h)
    BY <1>1 DEF TypeInv, TypeOK, HeldIssued, Issued
  <1>4. ~Issued(g) /\ ~Present(g)
    BY <1>1 DEF StagingInv, Staged
  <1>5. /\ tx' = [tx EXCEPT ![r] = [@ EXCEPT !.user = u, !.seen = sessionVersion[u]]]
        /\ pc' = [pc EXCEPT ![r] = "respond"]
        /\ claims' = [claims EXCEPT ![g] = c]
        /\ UNCHANGED <<sessionVersion, isActive, row, held, expired>>
    BY DEF RefreshCheck, IssueAuthResult
  <1>6. /\ pc'[r] = "respond" /\ tx'[r].rows = tx[r].rows /\ tx'[r].todo = tx[r].todo
        /\ tx'[r].mint = g /\ tx'[r].want = h
    BY <1>5 DEF TypeInv, TypeOK, Tx
  <1>7. \A s \in Requests \ {r} : tx'[s] = tx[s] /\ pc'[s] = pc[s] /\ tx[s].mint # g
    BY <1>1, <1>5 DEF TypeInv, TypeOK, MintOK
  <1>8. /\ claims'[g] = c /\ c.root = claims[h].root /\ c.user = u
        /\ c.sv = claims[h].sv
    BY <1>1, <1>2, <1>5 DEF TypeInv, TypeOK
  <1>9. \A k \in Grants \ {g} : claims'[k] = claims[k]
    BY <1>5 DEF TypeInv, TypeOK
  <1>10. h # g /\ Present(h)
    BY <1>2, <1>4 DEF Present
  <1>11. row' = row /\ held' = held
    BY <1>5
  <1> HIDE DEF c, h, u, g
  <1>12. LockInv'
    BY <1>6, <1>7, <1>11 DEF LockInv, Present
  <1>13. StagingInv'
    <2>1. Staged(r)'
      BY <1>1, <1>2, <1>4, <1>6, <1>8, <1>9, <1>10, <1>11 DEF Staged, Present
    <2>2. ASSUME NEW s \in Requests \ {r}, tx[s].mint # None
          PROVE  Staged(s)'
      <3>1. tx[s].mint \in Grants \ {g}
        BY <1>7, <2>2 DEF TypeInv, TypeOK, Tx
      <3>2. claims'[tx[s].mint] = claims[tx[s].mint]
        BY <1>9, <3>1
      <3>3. tx[s].want \in tx[s].rows => claims'[tx[s].want] = claims[tx[s].want]
        BY <1>9, <1>4 DEF LockInv, TypeInv, TypeOK, Tx
      <3> QED
        BY <1>7, <1>11, <3>2, <3>3 DEF StagingInv, Staged, Present, Issued
    <2> QED
      BY <1>7, <2>1, <2>2 DEF StagingInv, Staged
  <1>14. claims[h].root \in Grants /\ Present(claims[h].root)
    BY <1>1, <1>3, <1>10 DEF LineageInv, Claim
  <1>15. LineageInv'
    BY <1>8, <1>9, <1>11, <1>14 DEF LineageInv, Present, Issued
  <1>16. FamilyVersion'
    <2> SUFFICES ASSUME NEW k \in Grants, Issued(k)'
                 PROVE  FamilyVersion!(k)'
      BY DEF FamilyVersion
    <2>1. CASE k = g
      <3>1. claims'[claims[h].root] = claims[claims[h].root]
        BY <1>4, <1>9, <1>14
      <3> QED
        BY <1>1, <1>3, <1>8, <2>1, <3>1 DEF FamilyVersion, Issued, u
    <2>2. CASE k # g
      <3>1. claims'[k] = claims[k] /\ Issued(k) /\ claims[k].root \in Grants
        BY <1>9, <2>2 DEF Issued, TypeInv, TypeOK, Claim
      <3>2. claims[k].root # g
        BY <1>4, <2>2, <3>1 DEF LineageInv
      <3>3. claims'[claims[k].root] = claims[claims[k].root]
        BY <1>9, <3>1, <3>2
      <3> QED
        BY <3>1, <3>3 DEF FamilyVersion, Issued
    <2> QED
      BY <2>1, <2>2
  <1>17. OneLivePerLogin'
    BY <1>4, <1>9, <1>11 DEF OneLivePerLogin, Present
  <1> QED
    BY <1>12, <1>13, <1>15, <1>16, <1>17

(* Committing: the new row goes live as the row it replaces is revoked.    *)
LEMMA CommitSafe ==
    ASSUME TypeInv, TypeInv', SafeInv, NEW r \in Requests, Commit(r)
    PROVE  SafeInv'
  <1> USE DEF SafeInv
  <1> DEFINE m == tx[r].mint
  <1>1. pc'[r] = "idle" /\ tx'[r] = NoTx
    BY DEF TypeInv, TypeOK, Commit
  <1>2. \A s \in Requests \ {r} : tx'[s] = tx[s] /\ pc'[s] = pc[s]
    BY DEF TypeInv, TypeOK, Commit
  <1>3. claims' = claims /\ held' = held /\ pc[r] = "commit"
    BY DEF Commit
  <1>4. \A g \in Grants :
          /\ g = m => row'[g] = "live"
          /\ g # m /\ g \in tx[r].rows => row'[g] = "revoked"
          /\ g # m /\ g \notin tx[r].rows => row'[g] = row[g]
    BY DEF Commit
  <1>5. m # None => m \in Grants /\ ~Present(m) /\ m \in held
    BY <1>3 DEF StagingInv, Staged, TypeInv, TypeOK, Tx
  <1> HIDE DEF m
  <1>6. \A g \in Grants : Present(g) => Present(g)'
    BY <1>4 DEF Present
  <1>7. \A g \in Grants : Present(g)' => Present(g) \/ g = m
    BY <1>4 DEF Present, LockInv
  <1>8. LockInv'
    <2>1. ASSUME NEW s \in Requests \ {r}
          PROVE  /\ \A g \in tx[s].rows \cup tx[s].todo : Present(g)'
                 /\ pc[s] = "revoke" => Present(tx[s].want)'
      BY <1>2, <1>6 DEF LockInv, TypeInv, TypeOK, Tx, WantOK
    <2> QED
      BY <1>1, <1>2, <2>1, NoTxEmpty DEF LockInv, Present
  <1>9. StagingInv'
    <2> SUFFICES ASSUME NEW s \in Requests \ {r}, tx[s].mint # None
                 PROVE  Staged(s)'
      BY <1>1, <1>2, NoTxEmpty DEF StagingInv, Staged
    <2>1. tx[s].mint \in Grants /\ tx[s].mint # m /\ ~Present(tx[s].mint)
      BY DEF TypeInv, TypeOK, Tx, MintOK, StagingInv, Staged, m
    <2>2. ~Present(tx[s].mint)'
      BY <1>2, <1>7, <2>1
    <2>3. tx[s].want \in tx[s].rows /\ row[tx[s].want] = "live"
            => row'[tx[s].want] = "live"
      <3>1. tx[s].rows \cap tx[r].rows = {} /\ tx[s].rows \subseteq Grants
        BY DEF LockInv, TypeInv, TypeOK, Tx
      <3> QED
        BY <1>4, <3>1
    <2> QED
      BY <1>2, <1>3, <2>2, <2>3 DEF StagingInv, Staged, Issued
  <1>10. LineageInv'
    BY <1>3, <1>5, <1>6, <1>7, ConstantsOK
    DEF LineageInv, Issued, TypeInv, TypeOK, Claim
  <1>11. FamilyVersion'
    BY <1>3 DEF FamilyVersion, Issued
  <1>12. OneLivePerLogin'
    <2>1. ASSUME NEW g \in Grants, g # m, row'[g] = "live", m # None
          PROVE  claims[g].root # claims[m].root
      <3>1. row[g] = "live" /\ g \notin tx[r].rows /\ Present(g)
        BY <1>4, <2>1 DEF Present
      <3>2. Issued(g)
        BY <3>1 DEF LineageInv, TypeInv, HeldIssued
      <3>3. CASE claims[m].root = m
        BY <1>5, <2>1, <3>2, <3>3 DEF LineageInv
      <3>4. CASE /\ tx[r].want \in tx[r].rows /\ row[tx[r].want] = "live"
                 /\ claims[tx[r].want].root = claims[m].root
        <4>1. tx[r].want \in Grants
          BY <3>4 DEF TypeInv, TypeOK, Tx
        <4> QED
          BY <3>1, <3>4, <4>1 DEF OneLivePerLogin
      <3> QED
        BY <1>3, <2>1, <3>3, <3>4 DEF StagingInv, Staged, m
    <2>2. ASSUME NEW g \in Grants, g # m, row'[g] = "live"
          PROVE  row[g] = "live"
      BY <1>4, <2>2
    <2>3. m \in Grants => m # None
      BY ConstantsOK
    <2> QED
      BY <1>3, <2>1, <2>2, <2>3 DEF OneLivePerLogin
  <1> QED
    BY <1>8, <1>9, <1>10, <1>11, <1>12

LEMMA RespondSafe ==
    ASSUME TypeInv, TypeInv', SafeInv, NEW r \in Requests, Respond(r)
    PROVE  SafeInv'
  <1> USE DEF SafeInv
  <1>1. /\ pc[r] = "respond" /\ pc'[r] = "commit" /\ tx' = tx
        /\ \A s \in Requests \ {r} : pc'[s] = pc[s]
        /\ UNCHANGED <<sessionVersion, isActive, row, claims, expired>>
        /\ held \subseteq held' /\ (tx[r].mint # None => tx[r].mint \in held')
    BY DEF TypeInv, TypeOK, Respond
  <1>2. LockInv'
    BY <1>1 DEF LockInv, Present
  <1>3. StagingInv'
    BY <1>1 DEF StagingInv, Staged, Present, Issued
  <1>4. LineageInv' /\ FamilyVersion' /\ OneLivePerLogin'
    BY <1>1 DEF LineageInv, FamilyVersion, OneLivePerLogin, Present, Issued
  <1> QED
    BY <1>2, <1>3, <1>4

(* A transaction that moves on to its next row has locked free rows only.  *)
LEMMA NextRowSafe ==
    ASSUME TypeInv, SafeInv, NEW r \in Requests, NEW L \in SUBSET Grants,
           NEW S \in SUBSET Grants, NextRow(r, L, S), tx[r].mint = None,
           UNCHANGED <<sessionVersion, isActive, row, claims, held, expired>>,
           \A s \in Requests \ {r} : L \cap tx[s].rows = {},
           \A g \in L \cup S : Present(g)
    PROVE  SafeInv'
  <1>1. tx[r] \in Tx
    BY DEF TypeInv, TypeOK
  <1>2. CASE /\ pc' = [pc EXCEPT ![r] = "bump"]
             /\ tx' = [tx EXCEPT ![r] = [@ EXCEPT !.rows = L, !.todo = {},
                                                !.want = None]]
    <2> DEFINE t == [tx[r] EXCEPT !.rows = L, !.todo = {}, !.want = None]
    <2>1. t \in Tx /\ t.mint = None /\ t.rows = L /\ t.todo = {}
      BY <1>1, ConstantsOK DEF Tx
    <2>2. tx' = [tx EXCEPT ![r] = t] /\ pc' = [pc EXCEPT ![r] = "bump"]
      BY <1>2
    <2>3. "bump" \in PCs /\ "bump" # "revoke"
      BY DEF PCs
    <2>4. \A g \in t.rows \cup t.todo : Present(g)
      BY <2>1
    <2>5. \A s \in Requests \ {r} : t.rows \cap tx[s].rows = {}
      BY <2>1
    <2>6. t \in Tx /\ t.mint = None
      BY <2>1
    <2> HIDE DEF t
    <2> QED
      BY <2>2, <2>3, <2>4, <2>5, <2>6, LogoutMoveSafe
  <1>3. ASSUME NEW g \in S, pc' = [pc EXCEPT ![r] = "revoke"],
               tx' = [tx EXCEPT ![r] = [@ EXCEPT !.rows = L, !.todo = S \ {g},
                                                 !.want = g]]
        PROVE  SafeInv'
    <2> DEFINE t == [tx[r] EXCEPT !.rows = L, !.todo = S \ {g}, !.want = g]
    <2>1. t \in Tx /\ t.mint = None /\ t.want = g /\ t.rows = L /\ t.todo = S \ {g}
      BY <1>1 DEF Tx
    <2>2. tx' = [tx EXCEPT ![r] = t] /\ "revoke" \in PCs
      BY <1>3 DEF PCs
    <2> HIDE DEF t
    <2> QED
      BY <1>3, <2>1, <2>2, LogoutMoveSafe
  <1> QED
    BY <1>2, <1>3 DEF NextRow

LEMMA SafeStep ==
    ASSUME TypeInv, TypeInv', SafeInv, [Next]_vars
    PROVE  SafeInv'
  <1> USE ConstantsOK
  <1>0. /\ TypeOK /\ HeldIssued /\ WantOK /\ MintOK /\ LockInv /\ StagingInv
        /\ LineageInv /\ FamilyVersion /\ OneLivePerLogin
    BY DEF TypeInv, SafeInv
  <1>2. ASSUME NEW r \in Requests, NEW h \in Grants, NEW g \in Grants,
               BeginRefresh(r, h, g)
        PROVE  SafeInv'
    <2> DEFINE t == [NoTx EXCEPT !.kind = "refresh", !.want = h, !.mint = g]
    <2>1. t \in Tx /\ t.mint = g /\ t.want = h /\ t.rows = {} /\ t.todo = {}
      BY NoTxType DEF Tx, NoTx
    <2>2. tx' = [tx EXCEPT ![r] = t] /\ pc' = [pc EXCEPT ![r] = "lock"]
      BY <1>2 DEF BeginRefresh
    <2>3. ~Issued(g) /\ "lock" \in PCs
      BY <1>2 DEF BeginRefresh, Fresh, Issued, PCs
    <2>4. ~Present(g)
      BY <1>0, <2>3 DEF LineageInv, HeldIssued
    <2>5. UNCHANGED <<sessionVersion, isActive, row, claims, held, expired>>
      BY <1>2 DEF BeginRefresh
    <2> HIDE DEF t
    <2> QED
      BY <2>1, <2>2, <2>3, <2>4, <2>5, MoveSafe
  <1>3. ASSUME NEW r \in Requests, NEW kind \in Logouts, NEW h \in Grants,
               LogoutByRenewal(r, kind, h)
        PROVE  SafeInv'
    <2> DEFINE t == [NoTx EXCEPT !.kind = kind, !.want = h]
    <2>1. t \in Tx /\ t.mint = None /\ t.rows = {} /\ t.todo = {}
      BY NoTxType DEF Tx, NoTx
    <2>2. tx' = [tx EXCEPT ![r] = t] /\ pc' = [pc EXCEPT ![r] = "resolve"]
      BY <1>3 DEF LogoutByRenewal
    <2> HIDE DEF t
    <2> QED
      BY <1>3, <2>1, <2>2, LogoutMoveSafe DEF LogoutByRenewal, PCs
  <1>4. ASSUME NEW r \in Requests, NEW kind \in Logouts, NEW h \in Grants,
               LogoutBySession(r, kind, h)
        PROVE  SafeInv'
    <2> DEFINE u == claims[h].user
               t == [NoTx EXCEPT !.kind = kind, !.user = u,
                                 !.seen = sessionVersion[u]]
    <2>1. u \in Users
      BY <1>0, <1>4 DEF LogoutBySession, HeldIssued, Issued, TypeOK, Claim
    <2>2. t \in Tx /\ t.mint = None /\ t.rows = {} /\ t.todo = {}
      BY <1>0, <2>1, NoTxType DEF Tx, TypeOK, NoTx
    <2>3. tx' = [tx EXCEPT ![r] = t] /\ pc' = [pc EXCEPT ![r] = "snapshot"]
      BY <1>4 DEF LogoutBySession
    <2> HIDE DEF t, u
    <2> QED
      BY <1>4, <2>2, <2>3, LogoutMoveSafe DEF LogoutBySession, PCs
  <1>5. ASSUME NEW r \in Requests, LockRow(r)
        PROVE  SafeInv'
    <2> DEFINE t == [tx[r] EXCEPT !.rows = {tx[r].want}]
    <2>1. /\ tx[r] \in Tx /\ tx[r].want \in Grants /\ tx[r].mint \in Grants
          /\ Present(tx[r].want)
      BY <1>0, <1>5 DEF TypeOK, LockRow, WantOK, MintOK, Present
    <2>2. t \in Tx /\ t.mint = tx[r].mint /\ t.want = tx[r].want
          /\ t.rows = {tx[r].want} /\ t.todo = tx[r].todo
      BY <2>1 DEF Tx
    <2>3. tx' = [tx EXCEPT ![r] = t] /\ pc' = [pc EXCEPT ![r] = "check"]
      BY <1>5 DEF LockRow
    <2>4. \A s \in Requests \ {r} : t.rows \cap tx[s].rows = {}
      BY <1>5, <2>2 DEF LockRow, RowFree
    <2>5. \A g \in t.rows \cup t.todo : Present(g)
      BY <1>0, <2>1, <2>2 DEF LockInv
    <2>6. ~Present(t.mint) /\ ~Issued(t.mint) /\ t.want \in t.rows
      BY <1>0, <1>5, <2>1, <2>2 DEF LockRow, StagingInv, Staged
    <2>7. UNCHANGED <<sessionVersion, isActive, row, claims, held, expired>>
      BY <1>5 DEF LockRow
    <2>8. "check" \in PCs
      BY DEF PCs
    <2>9. t \in Tx
      BY <2>2
    <2> HIDE DEF t
    <2> QED
      BY <2>3, <2>4, <2>5, <2>6, <2>7, <2>8, <2>9, MoveSafe
  <1>6. ASSUME NEW r \in Requests, Resolve(r)
        PROVE  SafeInv'
    <2> DEFINE u == claims[tx[r].want].user
               t == [tx[r] EXCEPT !.rows = {tx[r].want}, !.user = u,
                                  !.seen = sessionVersion[u]]
    <2>1. /\ tx[r] \in Tx /\ tx[r].want \in held /\ tx[r].mint = None
          /\ Present(tx[r].want)
      BY <1>0, <1>6 DEF TypeOK, Resolve, WantOK, MintOK, Present
    <2>2. u \in Users
      BY <1>0, <2>1 DEF HeldIssued, Issued, TypeOK, Claim
    <2>3. t \in Tx /\ t.mint = None /\ t.rows = {tx[r].want} /\ t.todo = tx[r].todo
      BY <1>0, <2>1, <2>2 DEF Tx, TypeOK
    <2>4. tx' = [tx EXCEPT ![r] = t] /\ pc' = [pc EXCEPT ![r] = "snapshot"]
      BY <1>6 DEF Resolve
    <2>5. \A s \in Requests \ {r} : t.rows \cap tx[s].rows = {}
      BY <1>6, <2>3 DEF Resolve, RowFree
    <2>6. \A g \in t.rows \cup t.todo : Present(g)
      BY <1>0, <2>1, <2>3 DEF LockInv
    <2> HIDE DEF t, u
    <2> QED
      BY <1>6, <2>3, <2>4, <2>5, <2>6, LogoutMoveSafe DEF Resolve, PCs
  <1>8. ASSUME NEW r \in Requests, ResolveNobody(r)
        PROVE  SafeInv'
    <2>1. tx[r] \in Tx /\ tx[r].mint = None
      BY <1>0, <1>8 DEF TypeOK, ResolveNobody, MintOK
    <2>2. tx' = [tx EXCEPT ![r] = tx[r]] /\ pc' = [pc EXCEPT ![r] = "respond"]
      BY <1>0, <1>8 DEF ResolveNobody, TypeOK
    <2>3. /\ \A s \in Requests \ {r} : tx[r].rows \cap tx[s].rows = {}
          /\ \A g \in tx[r].rows \cup tx[r].todo : Present(g)
      BY <1>0 DEF LockInv
    <2> QED
      BY <1>8, <2>1, <2>2, <2>3, LogoutMoveSafe DEF ResolveNobody, PCs
  <1>9. ASSUME NEW r \in Requests, RevokeSnapshot(r) \/ RevokeRow(r)
        PROVE  SafeInv'
    <2>1. tx[r] \in Tx /\ tx[r].mint = None
      BY <1>0, <1>9 DEF TypeOK, RevokeSnapshot, RevokeRow, MintOK
    <2>2. /\ \A s \in Requests \ {r} : tx[r].rows \cap tx[s].rows = {}
          /\ \A g \in tx[r].rows \cup tx[r].todo : Present(g)
      BY <1>0 DEF LockInv
    <2>3. CASE RevokeSnapshot(r)
      <3>1. \A g \in LiveRows(tx[r].user) : g \in Grants /\ Present(g)
        BY DEF LiveRows, Present
      <3> QED
        BY <2>1, <2>2, <2>3, <3>1, NextRowSafe DEF RevokeSnapshot, Tx
    <2>4. CASE RevokeRow(r)
      <3>1. tx[r].want \in Grants /\ Present(tx[r].want)
        BY <1>0, <2>4 DEF RevokeRow, WantOK, LockInv
      <3>2. \A s \in Requests \ {r} : (tx[r].rows \cup {tx[r].want}) \cap tx[s].rows = {}
        BY <2>2, <2>4 DEF RevokeRow, RowFree
      <3> QED
        BY <2>1, <2>2, <2>4, <3>1, <3>2, NextRowSafe DEF RevokeRow, Tx
    <2> QED
      BY <1>9, <2>3, <2>4
  <1>10. ASSUME NEW r \in Requests, BumpVersion(r)
         PROVE  SafeInv'
    <2> DEFINE t == [tx[r] EXCEPT !.bump = TRUE]
    <2>1. tx[r] \in Tx /\ tx[r].mint = None
      BY <1>0, <1>10 DEF TypeOK, BumpVersion, MintOK
    <2>2. t \in Tx /\ t.mint = None /\ t.rows = tx[r].rows /\ t.todo = tx[r].todo
      BY <2>1 DEF Tx
    <2>3. tx' = [tx EXCEPT ![r] = t] /\ pc' = [pc EXCEPT ![r] = "respond"]
      BY <1>10 DEF BumpVersion
    <2>4. /\ \A s \in Requests \ {r} : tx[r].rows \cap tx[s].rows = {}
          /\ \A g \in tx[r].rows \cup tx[r].todo : Present(g)
      BY <1>0 DEF LockInv
    <2>5. \A s \in Requests \ {r} : t.rows \cap tx[s].rows = {}
      BY <2>2, <2>4
    <2>6. \A g \in t.rows \cup t.todo : Present(g)
      BY <2>2, <2>4
    <2>7. t \in Tx /\ t.mint = None /\ "respond" \in PCs /\ "respond" # "revoke"
      BY <2>2 DEF PCs
    <2>8. UNCHANGED <<sessionVersion, isActive, row, claims, held, expired>>
      BY <1>10 DEF BumpVersion
    <2> HIDE DEF t
    <2> QED
      BY <2>3, <2>5, <2>6, <2>7, <2>8, LogoutMoveSafe
  <1>13. ASSUME NEW u \in Users, Disable(u)
         PROVE  SafeInv'
    BY <1>0, <1>13 DEF SafeInv, LockInv, StagingInv, Staged, LineageInv,
       FamilyVersion, OneLivePerLogin, Present, Issued, Disable
  <1>14. ASSUME NEW g \in Grants, Expire(g)
         PROVE  SafeInv'
    BY <1>0, <1>14 DEF SafeInv, LockInv, StagingInv, Staged, LineageInv,
       FamilyVersion, OneLivePerLogin, Present, Issued, Expire
  <1>16. CASE UNCHANGED vars
    BY <1>0, <1>16 DEF vars, SafeInv, LockInv, StagingInv, Staged, LineageInv,
       FamilyVersion, OneLivePerLogin, Present, Issued
  <1> QED
    BY <1>2, <1>3, <1>4, <1>5, <1>6, <1>8, <1>9, <1>10, <1>13, <1>14, <1>16,
       LoginSafe, RefreshSafe, CommitSafe, RespondSafe, RollbackSafe
    DEF Next, Begin, Acquire, Proceed, RefreshUnknown, RefreshReject,
        ResolveForbidden, Abort, DeadlockVictim

LEMMA SafeInit == Init => SafeInv
  BY ConstantsOK, NoTxEmpty
  DEF Init, SafeInv, LockInv, StagingInv, Staged, LineageInv, FamilyVersion,
      OneLivePerLogin, Present, Issued

LEMMA SafeInvariant == Spec => []SafeInv
  <1>1. Init => SafeInv
    BY SafeInit
  <1>2. TypeInv /\ TypeInv' /\ SafeInv /\ [Next]_vars => SafeInv'
    BY SafeStep
  <1> QED
    BY <1>1, <1>2, TypeInvariant, PTL DEF Spec

(* However many refreshes of one login race, retry or lose their commit,   *)
(* at most one renewal token of the login is ever live.                    *)
THEOREM RotationIsExclusive == Spec => []OneLivePerLogin
  <1>1. SafeInv => OneLivePerLogin
    BY DEF SafeInv
  <1> QED
    BY <1>1, SafeInvariant, PTL

(* Every token says the session_version its login saw.                     *)
THEOREM RefreshKeepsVersion == Spec => []FamilyVersion
  <1>1. SafeInv => FamilyVersion
    BY DEF SafeInv
  <1> QED
    BY <1>1, SafeInvariant, PTL

(***************************************************************************)
(* Logout.  increment_session_version writes back what its transaction     *)
(* read, so session_version only grows while the logouts of one user take  *)
(* turns; the run session_two_logouts shows what two that do not take them *)
(* do.  Under that hypothesis the value a logout has read is still the     *)
(* committed one, and tokens never run ahead of the users row.             *)
(***************************************************************************)

(* Request r has read a session_version that it may write back.            *)
Bumps(r) == pc[r] \in {"snapshot", "revoke", "bump"} \/ tx[r].bump

LogoutsTakeTurns ==
    \A r, s \in Requests : Bumps(r) /\ Bumps(s) /\ tx[r].user = tx[s].user => r = s

LogoutOK(r) ==
    /\ Bumps(r) =>
         /\ tx[r].kind \in Logouts /\ tx[r].user \in Users
         /\ tx[r].seen = sessionVersion[tx[r].user]
         /\ \A g \in tx[r].rows \cup tx[r].todo : claims[g].user = tx[r].user
         /\ pc[r] = "revoke" => claims[tx[r].want].user = tx[r].user
    /\ tx[r].kind \in Logouts =>
         /\ tx[r].mint = None /\ r \in LogoutRequests
         /\ Bumps(r) \/ tx[r].rows = {}
    /\ tx[r].kind \notin Logouts => tx[r].rows \subseteq {tx[r].want}
    /\ pc[r] = "resolve" => tx[r].kind \in Logouts /\ tx[r].todo = {}
    /\ pc[r] \in {"lock", "check"} => tx[r].kind \notin Logouts
    /\ pc[r] \in {"respond", "commit"} /\ tx[r].kind \notin Logouts =>
         /\ tx[r].mint \in Grants
         /\ \A g \in tx[r].rows : claims[g].root = claims[tx[r].mint].root

NotAhead == \A g \in Grants :
    Issued(g) => claims[g].sv <= sessionVersion[claims[g].user]

VersionInv ==
    /\ \A r \in Requests : LogoutOK(r)
    /\ NotAhead
    /\ CurrentLoginHasLiveRow

(* What a step that commits nothing owes VersionInv.                       *)
LEMMA VersionFrame ==
    ASSUME TypeInv, SafeInv, VersionInv, NEW r \in Requests,
           UNCHANGED <<row, sessionVersion>>,
           \A s \in Requests \ {r} : tx'[s] = tx[s] /\ pc'[s] = pc[s],
           \A g \in held : claims'[g] = claims[g],
           \A s \in Requests \ {r} : tx[s].mint # None /\ Issued(tx[s].mint)
             => claims'[tx[s].mint] = claims[tx[s].mint],
           \A g \in Grants : Issued(g)' =>
             \/ Issued(g) /\ claims'[g] = claims[g]
             \/ claims'[g].sv <= sessionVersion[claims'[g].user],
           LogoutOK(r)'
    PROVE  VersionInv'
  <1>1. ASSUME NEW s \in Requests \ {r}
        PROVE  LogoutOK(s)'
    <2>1. LogoutOK(s) /\ tx'[s] = tx[s] /\ pc'[s] = pc[s]
      BY DEF VersionInv
    <2>2. \A g \in tx[s].rows \cup tx[s].todo : claims'[g] = claims[g]
      BY DEF SafeInv, LockInv, LineageInv, TypeInv, TypeOK, Tx
    <2>3. pc[s] = "revoke" => claims'[tx[s].want] = claims[tx[s].want]
      BY DEF SafeInv, LockInv, LineageInv, TypeInv, WantOK
    <2>4. pc[s] \in {"respond", "commit"} /\ tx[s].mint \in Grants
            => claims'[tx[s].mint] = claims[tx[s].mint]
      BY ConstantsOK DEF TypeInv, MintOK
    <2> QED
      BY <2>1, <2>2, <2>3, <2>4 DEF LogoutOK, Bumps
  <1>2. NotAhead'
    BY DEF VersionInv, NotAhead
  <1>3. \A g \in Grants : Present(g) => claims'[g] = claims[g]
    BY DEF SafeInv, LineageInv
  <1>4. CurrentLoginHasLiveRow'
    BY <1>3 DEF VersionInv, CurrentLoginHasLiveRow, VersionCurrent, Present
  <1> QED
    BY <1>1, <1>2, <1>4 DEF VersionInv

(* Moves of one request that touch neither rows nor tokens.                *)
LEMMA MoveVersion ==
    ASSUME TypeInv, SafeInv, VersionInv, NEW r \in Requests,
           NEW p, NEW t,
           pc' = [pc EXCEPT ![r] = p], tx' = [tx EXCEPT ![r] = t],
           UNCHANGED <<sessionVersion, isActive, row, claims, held, expired>>,
           LogoutOK(r)'
    PROVE  VersionInv'
  <1>1. \A s \in Requests \ {r} : tx'[s] = tx[s] /\ pc'[s] = pc[s]
    BY DEF TypeInv, TypeOK
  <1>2. \A g \in Grants : Issued(g)' => Issued(g) /\ claims'[g] = claims[g]
    BY DEF Issued
  <1> QED
    BY <1>1, <1>2, VersionFrame

LEMMA RollbackVersion ==
    ASSUME TypeInv, SafeInv, VersionInv, NEW r \in Requests, Rollback(r)
    PROVE  VersionInv'
  <1>1. pc'[r] = "idle" /\ tx'[r] = NoTx
    BY DEF TypeInv, TypeOK, Rollback
  <1>2. \A s \in Requests \ {r} : tx'[s] = tx[s] /\ pc'[s] = pc[s]
    BY DEF TypeInv, TypeOK, Rollback
  <1>3. \A g \in Grants : (g = tx[r].mint /\ g \notin held) \/ claims'[g] = claims[g]
    BY DEF Rollback
  <1>4. \A g \in Grants : Issued(g)' => Issued(g) /\ claims'[g] = claims[g]
    BY <1>3 DEF Rollback, Issued
  <1>5. \A s \in Requests \ {r} : tx[s].mint # None
          => claims'[tx[s].mint] = claims[tx[s].mint]
    BY <1>3 DEF TypeInv, TypeOK, MintOK, Tx
  <1>6. \A g \in held : claims'[g] = claims[g]
    BY <1>3 DEF TypeInv, TypeOK
  <1>7. UNCHANGED <<row, sessionVersion>>
    BY DEF Rollback
  <1>8. LogoutOK(r)'
    BY <1>1 DEF LogoutOK, Bumps, NoTx, Logouts
  <1> QED
    BY <1>2, <1>4, <1>5, <1>6, <1>7, <1>8, VersionFrame

LEMMA LoginVersion ==
    ASSUME TypeInv, SafeInv, VersionInv, NEW r \in Requests, NEW u \in Users,
           NEW g \in Grants, Login(r, u, g)
    PROVE  VersionInv'
  <1> DEFINE c == [user |-> u, sv |-> sessionVersion[u], root |-> g]
  <1>1. /\ pc'[r] = "respond" /\ tx'[r].rows = {} /\ tx'[r].mint = g
        /\ tx'[r].kind = "login" /\ tx'[r].bump = FALSE
    BY DEF TypeInv, TypeOK, Login, IssueAuthResult, NoTx
  <1>2. \A s \in Requests \ {r} : tx'[s] = tx[s] /\ pc'[s] = pc[s]
    BY DEF TypeInv, TypeOK, Login, IssueAuthResult
  <1>3. /\ claims' = [claims EXCEPT ![g] = c]
        /\ UNCHANGED <<sessionVersion, isActive, row, held, expired>>
    BY DEF Login, IssueAuthResult
  <1>4. ~Issued(g) /\ \A s \in Requests : tx[s].mint # g
    BY DEF Login, Fresh, Issued
  <1>5. claims'[g] = c /\ c.user = u /\ c.sv = sessionVersion[u] /\ sessionVersion[u] \in Nat
    BY <1>3 DEF TypeInv, TypeOK
  <1>6. \A h \in Grants \ {g} : claims'[h] = claims[h]
    BY <1>3 DEF TypeInv, TypeOK
  <1> HIDE DEF c
  <1>7. \A h \in held : claims'[h] = claims[h]
    BY <1>4, <1>6 DEF TypeInv, TypeOK, HeldIssued
  <1>8. \A s \in Requests \ {r} : tx[s].mint # None
          => claims'[tx[s].mint] = claims[tx[s].mint]
    BY <1>4, <1>6 DEF TypeInv, TypeOK, Tx
  <1>9. \A h \in Grants : Issued(h)' =>
             \/ Issued(h) /\ claims'[h] = claims[h]
             \/ claims'[h].sv <= sessionVersion[claims'[h].user]
    BY <1>5, <1>6 DEF Issued
  <1>10. LogoutOK(r)'
    BY <1>1 DEF LogoutOK, Bumps, Logouts
  <1> QED
    BY <1>2, <1>3, <1>7, <1>8, <1>9, <1>10, VersionFrame

LEMMA RefreshVersion ==
    ASSUME TypeInv, SafeInv, VersionInv, NEW r \in Requests, RefreshCheck(r)
    PROVE  VersionInv'
  <1> DEFINE h == tx[r].want
             u == claims[h].user
             g == tx[r].mint
             c == [user |-> u, sv |-> sessionVersion[u], root |-> claims[h].root]
  <1>1. /\ pc[r] = "check" /\ h \in held /\ h \in Grants /\ g \in Grants /\ g # None
    BY ConstantsOK DEF RefreshCheck, TypeInv, TypeOK, WantOK, MintOK
  <1>2. claims[h] \in Claim
    BY <1>1 DEF TypeInv, TypeOK, HeldIssued, Issued
  <1>3. ~Issued(g)
    BY <1>1 DEF SafeInv, StagingInv, Staged
  <1>4. /\ tx' = [tx EXCEPT ![r] = [@ EXCEPT !.user = u, !.seen = sessionVersion[u]]]
        /\ pc' = [pc EXCEPT ![r] = "respond"]
        /\ claims' = [claims EXCEPT ![g] = c]
        /\ UNCHANGED <<sessionVersion, isActive, row, held, expired>>
    BY DEF RefreshCheck, IssueAuthResult
  <1>5. /\ pc'[r] = "respond" /\ tx'[r].rows = tx[r].rows /\ tx'[r].bump = tx[r].bump
        /\ tx'[r].mint = g /\ tx'[r].want = h /\ tx'[r].kind = tx[r].kind
    BY <1>4 DEF TypeInv, TypeOK, Tx
  <1>6. \A s \in Requests \ {r} : tx'[s] = tx[s] /\ pc'[s] = pc[s] /\ tx[s].mint # g
    BY <1>1, <1>4 DEF TypeInv, TypeOK, MintOK
  <1>7. /\ claims'[g] = c /\ c.root = claims[h].root /\ c.user = u
        /\ c.sv = sessionVersion[u] /\ u \in Users /\ sessionVersion[u] \in Nat
    BY <1>1, <1>2, <1>4 DEF TypeInv, TypeOK, Claim
  <1>8. \A k \in Grants \ {g} : claims'[k] = claims[k]
    BY <1>4 DEF TypeInv, TypeOK
  <1> HIDE DEF c
  <1>9. \A k \in held : claims'[k] = claims[k]
    BY <1>3, <1>8 DEF TypeInv, TypeOK, HeldIssued
  <1>10. \A s \in Requests \ {r} : tx[s].mint # None
          => claims'[tx[s].mint] = claims[tx[s].mint]
    BY <1>6, <1>8 DEF TypeInv, TypeOK, Tx
  <1>11. \A k \in Grants : Issued(k)' =>
             \/ Issued(k) /\ claims'[k] = claims[k]
             \/ claims'[k].sv <= sessionVersion[claims'[k].user]
    BY <1>7, <1>8 DEF Issued
  <1>12. /\ tx[r].kind \notin Logouts /\ tx[r].rows \subseteq {h} /\ ~tx[r].bump
    BY <1>1 DEF VersionInv, LogoutOK, Bumps
  <1>13. \A k \in tx[r].rows : claims'[k].root = claims'[g].root
    BY <1>1, <1>7, <1>9, <1>12
  <1> HIDE DEF h, u, g
  <1>14. LogoutOK(r)'
    BY <1>1, <1>5, <1>12, <1>13 DEF LogoutOK, Bumps
  <1> QED
    BY <1>4, <1>6, <1>9, <1>10, <1>11, <1>14, VersionFrame

(* A logout that commits writes the successor of the committed version.    *)
LEMMA CommitVersionGrows ==
    ASSUME TypeInv, VersionInv, NEW r \in Requests, Commit(r)
    PROVE  /\ tx[r].bump => /\ tx[r].user \in Users
                            /\ sessionVersion' = [sessionVersion EXCEPT
                                 ![tx[r].user] = sessionVersion[tx[r].user] + 1]
           /\ ~tx[r].bump => sessionVersion' = sessionVersion
           /\ \A u \in Users : sessionVersion[u] <= sessionVersion'[u]
  <1>1. tx[r].bump => tx[r].user \in Users /\ tx[r].seen = sessionVersion[tx[r].user]
    BY DEF VersionInv, LogoutOK, Bumps
  <1>2. tx[r].bump => sessionVersion' = [sessionVersion EXCEPT
                                 ![tx[r].user] = sessionVersion[tx[r].user] + 1]
    BY <1>1 DEF Commit, StoredVersion
  <1>3. ~tx[r].bump => sessionVersion' = sessionVersion
    BY DEF Commit
  <1>4. \A u \in Users : sessionVersion[u] \in Nat
    BY DEF TypeInv, TypeOK
  <1>5. \A u \in Users : sessionVersion[u] <= sessionVersion'[u]
    <2>1. CASE tx[r].bump
      BY <1>1, <1>2, <1>4, <2>1 DEF TypeInv, TypeOK
    <2>2. CASE ~tx[r].bump
      BY <1>3, <1>4, <2>2
    <2> QED
      BY <2>1, <2>2
  <1> QED
    BY <1>1, <1>2, <1>3, <1>5

(* It kills every token its user has been issued.                          *)
LEMMA CommitKills ==
    ASSUME TypeInv, VersionInv, NEW r \in Requests, Commit(r), tx[r].bump,
           NEW g \in Grants, Issued(g), claims[g].user = tx[r].user
    PROVE  ~VersionCurrent(g)'
  <1>1. /\ tx[r].user \in Users
        /\ sessionVersion'[tx[r].user] = sessionVersion[tx[r].user] + 1
    BY CommitVersionGrows DEF TypeInv, TypeOK
  <1>2. claims[g].sv <= sessionVersion[tx[r].user]
    BY DEF VersionInv, NotAhead
  <1>3. claims[g].sv \in Nat /\ sessionVersion[tx[r].user] \in Nat
    BY <1>1 DEF Claim, TypeInv, TypeOK, Issued
  <1>4. claims' = claims
    BY DEF Commit
  <1> QED
    BY <1>1, <1>2, <1>3, <1>4 DEF VersionCurrent

LEMMA CommitVersion ==
    ASSUME LogoutsTakeTurns, TypeInv, SafeInv, VersionInv, NEW r \in Requests,
           Commit(r)
    PROVE  VersionInv'
  <1>1. pc'[r] = "idle" /\ tx'[r] = NoTx /\ pc[r] = "commit"
    BY DEF TypeInv, TypeOK, Commit
  <1>2. \A s \in Requests \ {r} : tx'[s] = tx[s] /\ pc'[s] = pc[s]
    BY DEF TypeInv, TypeOK, Commit
  <1>3. claims' = claims /\ held' = held
    BY DEF Commit
  <1>4. \A g \in Grants :
          /\ g = tx[r].mint => row'[g] = "live"
          /\ g # tx[r].mint /\ g \in tx[r].rows => row'[g] = "revoked"
          /\ g # tx[r].mint /\ g \notin tx[r].rows => row'[g] = row[g]
    BY DEF Commit
  <1>5. LogoutOK(r)
    BY DEF VersionInv
  <1>6. \A g \in Grants : Issued(g) => claims[g] \in Claim
    BY DEF TypeInv, TypeOK, Issued
  <1>7. ASSUME NEW s \in Requests
        PROVE  LogoutOK(s)'
    <2>1. CASE s = r
      BY <1>1, <2>1 DEF LogoutOK, Bumps, NoTx, Logouts
    <2>2. CASE s # r
      <3>1. LogoutOK(s)
        BY DEF VersionInv
      <3>2. Bumps(s) => tx[s].user \in Users
        BY <3>1 DEF LogoutOK
      <3>3. tx[r].bump /\ Bumps(s) => tx[r].user # tx[s].user
        BY <2>2 DEF LogoutsTakeTurns, Bumps
      <3>4. Bumps(s) => sessionVersion'[tx[s].user] = sessionVersion[tx[s].user]
        BY <3>2, <3>3, CommitVersionGrows DEF TypeInv, TypeOK
      <3> QED
        BY <1>2, <1>3, <2>2, <3>1, <3>4 DEF LogoutOK, Bumps
    <2> QED
      BY <2>1, <2>2
  <1>8. NotAhead'
    <2> SUFFICES ASSUME NEW g \in Grants, Issued(g)
                 PROVE  claims[g].sv <= sessionVersion'[claims[g].user]
      BY <1>3 DEF NotAhead, Issued
    <2>1. claims[g].user \in Users /\ claims[g].sv \in Nat
      BY <1>6 DEF Claim
    <2>2. claims[g].sv <= sessionVersion[claims[g].user]
      BY DEF VersionInv, NotAhead
    <2>3. sessionVersion[claims[g].user] <= sessionVersion'[claims[g].user]
      BY <2>1, CommitVersionGrows
    <2>4. sessionVersion[claims[g].user] \in Nat /\ sessionVersion'[claims[g].user] \in Nat
      BY <2>1, CommitVersionGrows DEF TypeInv, TypeOK
    <2> QED
      BY <2>1, <2>2, <2>3, <2>4
  <1>9. ASSUME tx[r].bump, NEW g \in Grants, Issued(g), claims[g].user = tx[r].user
        PROVE  ~VersionCurrent(g)'
    BY <1>9, CommitKills
  <1>10. CurrentLoginHasLiveRow'
    <2> SUFFICES ASSUME NEW h \in Grants, row'[h] = "revoked", VersionCurrent(h)'
                 PROVE  \E g \in Grants : row'[g] = "live" /\ claims[g].root = claims[h].root
      BY <1>3 DEF CurrentLoginHasLiveRow
    <2>1. h # tx[r].mint /\ Present(h)
      BY <1>4 DEF Present, SafeInv, LockInv
    <2>2. Issued(h) /\ claims[h] \in Claim
      BY <1>6, <2>1 DEF SafeInv, LineageInv, TypeInv, HeldIssued
    <2>3. tx[r].rows \subseteq Grants /\ \A g \in tx[r].rows : Issued(g)
      BY DEF SafeInv, LockInv, LineageInv, TypeInv, TypeOK, HeldIssued, Tx
    <2>4. CASE tx[r].bump
      <3>1. claims[h].user # tx[r].user
        BY <1>9, <2>2, <2>4
      <3>2. h \notin tx[r].rows
        BY <1>5, <2>4, <3>1 DEF LogoutOK, Bumps
      <3>3. sessionVersion'[claims[h].user] = sessionVersion[claims[h].user]
        BY <2>2, <2>4, <3>1, CommitVersionGrows DEF Claim, TypeInv, TypeOK
      <3>4. row[h] = "revoked" /\ VersionCurrent(h)
        BY <1>3, <1>4, <2>1, <3>2, <3>3 DEF VersionCurrent
      <3>5. PICK g \in Grants : row[g] = "live" /\ claims[g].root = claims[h].root
        BY <3>4 DEF VersionInv, CurrentLoginHasLiveRow
      <3>6. Issued(g) /\ Issued(h)
        BY <2>2, <3>5 DEF SafeInv, LineageInv, Present, TypeInv, HeldIssued
      <3>7. claims[g].user = claims[h].user
        BY <3>5, <3>6 DEF SafeInv, FamilyVersion
      <3>8. g \notin tx[r].rows
        BY <1>5, <2>4, <3>1, <3>7 DEF LogoutOK, Bumps
      <3> QED
        BY <1>4, <3>5, <3>8
    <2>5. CASE ~tx[r].bump
      <3>1. sessionVersion' = sessionVersion
        BY <2>5, CommitVersionGrows
      <3>2. VersionCurrent(h)
        BY <1>3, <3>1 DEF VersionCurrent
      <3>3. CASE tx[r].kind \in Logouts
        <4>1. tx[r].rows = {} /\ tx[r].mint = None
          BY <1>1, <1>5, <2>5, <3>3 DEF LogoutOK, Bumps
        <4>2. \A g \in Grants : row'[g] = row[g]
          BY <1>4, <4>1, ConstantsOK
        <4> QED
          BY <3>2, <4>2 DEF VersionInv, CurrentLoginHasLiveRow
      <3>4. CASE tx[r].kind \notin Logouts
        <4>1. /\ tx[r].mint \in Grants
              /\ \A g \in tx[r].rows : claims[g].root = claims[tx[r].mint].root
          BY <1>1, <1>5, <3>4 DEF LogoutOK
        <4>2. CASE h \in tx[r].rows
          BY <1>4, <4>1, <4>2
        <4>3. CASE h \notin tx[r].rows
          <5>1. PICK g \in Grants : row[g] = "live" /\ claims[g].root = claims[h].root
            BY <1>4, <2>1, <3>2, <4>3 DEF VersionInv, CurrentLoginHasLiveRow
          <5>2. CASE g \in tx[r].rows
            BY <1>4, <4>1, <5>1, <5>2
          <5>3. CASE g \notin tx[r].rows
            BY <1>4, <5>1, <5>3
          <5> QED
            BY <5>2, <5>3
        <4> QED
          BY <4>2, <4>3
      <3> QED
        BY <3>3, <3>4
    <2> QED
      BY <2>4, <2>5
  <1> QED
    BY <1>7, <1>8, <1>10 DEF VersionInv

LEMMA NextRowVersion ==
    ASSUME TypeInv, SafeInv, VersionInv, NEW r \in Requests,
           NEW L \in SUBSET Grants, NEW S \in SUBSET Grants, NextRow(r, L, S),
           UNCHANGED <<sessionVersion, isActive, row, claims, held, expired>>,
           pc[r] \in {"snapshot", "revoke"},
           \A g \in L \cup S : claims[g].user = tx[r].user
    PROVE  VersionInv'
  <1>1. tx[r] \in Tx /\ LogoutOK(r) /\ Bumps(r)
    BY DEF TypeInv, TypeOK, VersionInv, Bumps
  <1>2. CASE /\ pc' = [pc EXCEPT ![r] = "bump"]
             /\ tx' = [tx EXCEPT ![r] = [@ EXCEPT !.rows = L, !.todo = {},
                                                !.want = None]]
    <2>1. /\ pc'[r] = "bump" /\ tx'[r].rows = L /\ tx'[r].todo = {}
          /\ tx'[r].kind = tx[r].kind /\ tx'[r].user = tx[r].user
          /\ tx'[r].seen = tx[r].seen /\ tx'[r].mint = tx[r].mint
      BY <1>1, <1>2 DEF Tx, TypeInv, TypeOK
    <2>2. LogoutOK(r)'
      BY <1>1, <2>1 DEF LogoutOK, Bumps
    <2> QED
      BY <1>2, <2>2, MoveVersion
  <1>3. ASSUME NEW g \in S, pc' = [pc EXCEPT ![r] = "revoke"],
               tx' = [tx EXCEPT ![r] = [@ EXCEPT !.rows = L, !.todo = S \ {g},
                                                 !.want = g]]
        PROVE  VersionInv'
    <2>1. /\ pc'[r] = "revoke" /\ tx'[r].rows = L /\ tx'[r].todo = S \ {g}
          /\ tx'[r].want = g
          /\ tx'[r].kind = tx[r].kind /\ tx'[r].user = tx[r].user
          /\ tx'[r].seen = tx[r].seen /\ tx'[r].mint = tx[r].mint
      BY <1>1, <1>3 DEF Tx, TypeInv, TypeOK
    <2>2. LogoutOK(r)'
      BY <1>1, <2>1 DEF LogoutOK, Bumps
    <2> QED
      BY <1>3, <2>2, MoveVersion
  <1> QED
    BY <1>2, <1>3 DEF NextRow

LEMMA VersionStep ==
    ASSUME LogoutsTakeTurns, TypeInv, SafeInv, VersionInv, [Next]_vars
    PROVE  VersionInv'
  <1>0. \A r \in Requests : LogoutOK(r)
    BY DEF VersionInv
  <1>1. ASSUME NEW r \in Requests, NEW h \in Grants, NEW g \in Grants,
               BeginRefresh(r, h, g)
        PROVE  VersionInv'
    <2>1. /\ pc'[r] = "lock" /\ tx'[r].rows = {} /\ tx'[r].kind = "refresh"
          /\ tx'[r].bump = FALSE
      BY <1>1 DEF BeginRefresh, TypeInv, TypeOK, NoTx
    <2>2. LogoutOK(r)'
      BY <2>1 DEF LogoutOK, Bumps, Logouts
    <2> QED
      BY <1>1, <2>2, MoveVersion DEF BeginRefresh
  <1>2. ASSUME NEW r \in LogoutRequests, NEW kind \in Logouts, NEW h \in Grants,
               LogoutByRenewal(r, kind, h)
        PROVE  VersionInv'
    <2>0. r \in Requests
      BY ConstantsOK
    <2>1. /\ pc'[r] = "resolve" /\ tx'[r].rows = {} /\ tx'[r].kind = kind
          /\ tx'[r].bump = FALSE /\ tx'[r].mint = None /\ tx'[r].todo = {}
      BY <1>2, <2>0 DEF LogoutByRenewal, TypeInv, TypeOK, NoTx
    <2>2. LogoutOK(r)'
      BY <2>1 DEF LogoutOK, Bumps
    <2> QED
      BY <1>2, <2>0, <2>2, MoveVersion DEF LogoutByRenewal
  <1>3. ASSUME NEW r \in LogoutRequests, NEW kind \in Logouts, NEW h \in Grants,
               LogoutBySession(r, kind, h)
        PROVE  VersionInv'
    <2>0. r \in Requests
      BY ConstantsOK
    <2>1. claims[h].user \in Users
      BY <1>3 DEF LogoutBySession, TypeInv, TypeOK, HeldIssued, Issued, Claim
    <2>2. /\ pc'[r] = "snapshot" /\ tx'[r].rows = {} /\ tx'[r].kind = kind
          /\ tx'[r].bump = FALSE /\ tx'[r].mint = None /\ tx'[r].todo = {}
          /\ tx'[r].user = claims[h].user
          /\ tx'[r].seen = sessionVersion[claims[h].user]
          /\ sessionVersion' = sessionVersion
      BY <1>3, <2>0 DEF LogoutBySession, TypeInv, TypeOK, NoTx
    <2>3. LogoutOK(r)'
      BY <2>1, <2>2 DEF LogoutOK, Bumps
    <2> QED
      BY <1>3, <2>0, <2>3, MoveVersion DEF LogoutBySession
  <1>4. ASSUME NEW r \in Requests, LockRow(r)
        PROVE  VersionInv'
    <2>1. /\ pc'[r] = "check" /\ tx'[r].rows = {tx[r].want} /\ pc[r] = "lock"
          /\ tx'[r].kind = tx[r].kind /\ tx'[r].want = tx[r].want
          /\ tx'[r].bump = tx[r].bump
      BY <1>4 DEF LockRow, TypeInv, TypeOK, Tx
    <2>2. LogoutOK(r)'
      BY <1>0, <2>1 DEF LogoutOK, Bumps
    <2> QED
      BY <1>4, <2>2, MoveVersion DEF LockRow
  <1>5. ASSUME NEW r \in Requests, Resolve(r)
        PROVE  VersionInv'
    <2> DEFINE u == claims[tx[r].want].user
    <2>1. tx[r].want \in held /\ tx[r] \in Tx
      BY <1>5 DEF Resolve, TypeInv, TypeOK, WantOK
    <2>2. u \in Users
      BY <2>1 DEF TypeInv, TypeOK, HeldIssued, Issued, Claim
    <2>3. /\ pc'[r] = "snapshot" /\ tx'[r].rows = {tx[r].want} /\ pc[r] = "resolve"
          /\ tx'[r].kind = tx[r].kind /\ tx'[r].want = tx[r].want
          /\ tx'[r].bump = tx[r].bump /\ tx'[r].todo = tx[r].todo
          /\ tx'[r].mint = tx[r].mint
          /\ tx'[r].user = u /\ tx'[r].seen = sessionVersion[u]
          /\ sessionVersion' = sessionVersion /\ claims' = claims
      BY <1>5, <2>1 DEF Resolve, TypeInv, TypeOK, Tx
    <2>4. LogoutOK(r)'
      BY <1>0, <2>2, <2>3 DEF LogoutOK, Bumps
    <2> QED
      BY <1>5, <2>4, MoveVersion DEF Resolve
  <1>6. ASSUME NEW r \in Requests, ResolveNobody(r)
        PROVE  VersionInv'
    <2>1. tx' = [tx EXCEPT ![r] = tx[r]] /\ pc' = [pc EXCEPT ![r] = "respond"]
      BY <1>6 DEF ResolveNobody, TypeInv, TypeOK
    <2>2. pc[r] = "resolve" /\ pc'[r] = "respond" /\ tx'[r] = tx[r]
          /\ sessionVersion' = sessionVersion /\ claims' = claims
      BY <1>6 DEF ResolveNobody, TypeInv, TypeOK
    <2>3. LogoutOK(r)'
      BY <1>0, <2>2 DEF LogoutOK, Bumps
    <2> QED
      BY <1>6, <2>1, <2>3, MoveVersion DEF ResolveNobody
  <1>7. ASSUME NEW r \in Requests, RevokeSnapshot(r)
        PROVE  VersionInv'
    <2>1. \A g \in tx[r].rows \cup LiveRows(tx[r].user) : claims[g].user = tx[r].user
      BY <1>0, <1>7 DEF RevokeSnapshot, LogoutOK, Bumps, LiveRows
    <2>2. tx[r].rows \in SUBSET Grants /\ LiveRows(tx[r].user) \in SUBSET Grants
      BY DEF TypeInv, TypeOK, Tx, LiveRows
    <2> QED
      BY <1>7, <2>1, <2>2, NextRowVersion DEF RevokeSnapshot
  <1>8. ASSUME NEW r \in Requests, RevokeRow(r)
        PROVE  VersionInv'
    <2>1. \A g \in (tx[r].rows \cup {tx[r].want}) \cup tx[r].todo :
            claims[g].user = tx[r].user
      BY <1>0, <1>8 DEF RevokeRow, LogoutOK, Bumps
    <2>2. /\ tx[r].rows \cup {tx[r].want} \in SUBSET Grants
          /\ tx[r].todo \in SUBSET Grants
      BY <1>8 DEF TypeInv, TypeOK, Tx, WantOK, RevokeRow
    <2> QED
      BY <1>8, <2>1, <2>2, NextRowVersion DEF RevokeRow
  <1>9. ASSUME NEW r \in Requests, BumpVersion(r)
        PROVE  VersionInv'
    <2>1. /\ pc'[r] = "respond" /\ pc[r] = "bump" /\ tx'[r].bump
          /\ tx'[r].rows = tx[r].rows /\ tx'[r].todo = tx[r].todo
          /\ tx'[r].kind = tx[r].kind /\ tx'[r].mint = tx[r].mint
          /\ tx'[r].user = tx[r].user /\ tx'[r].seen = tx[r].seen
          /\ sessionVersion' = sessionVersion /\ claims' = claims
      BY <1>9 DEF BumpVersion, TypeInv, TypeOK, Tx
    <2>2. LogoutOK(r)'
      BY <1>0, <2>1 DEF LogoutOK, Bumps
    <2> QED
      BY <1>9, <2>2, MoveVersion DEF BumpVersion
  <1>10. ASSUME NEW r \in Requests, Respond(r)
         PROVE  VersionInv'
    <2>1. /\ pc[r] = "respond" /\ pc'[r] = "commit" /\ tx' = tx
          /\ \A s \in Requests \ {r} : pc'[s] = pc[s]
          /\ UNCHANGED <<sessionVersion, row, claims>>
      BY <1>10 DEF Respond, TypeInv, TypeOK
    <2>2. LogoutOK(r)'
      BY <1>0, <2>1 DEF LogoutOK, Bumps
    <2>3. \A g \in Grants : Issued(g)' => Issued(g) /\ claims'[g] = claims[g]
      BY <2>1 DEF Issued
    <2> QED
      BY <2>1, <2>2, <2>3, VersionFrame
  <1>11. ASSUME NEW u \in Users, Disable(u)
         PROVE  VersionInv'
    BY <1>11 DEF VersionInv, LogoutOK, Bumps, NotAhead, CurrentLoginHasLiveRow,
       VersionCurrent, Issued, Disable
  <1>12. ASSUME NEW g \in Grants, Expire(g)
         PROVE  VersionInv'
    BY <1>12 DEF VersionInv, LogoutOK, Bumps, NotAhead, CurrentLoginHasLiveRow,
       VersionCurrent, Issued, Expire
  <1>13. CASE UNCHANGED vars
    BY <1>13 DEF vars, VersionInv, LogoutOK, Bumps, NotAhead,
       CurrentLoginHasLiveRow, VersionCurrent, Issued
  <1> QED
    BY <1>1, <1>2, <1>3, <1>4, <1>5, <1>6, <1>7, <1>8, <1>9, <1>10, <1>11, <1>12,
       <1>13, LoginVersion, RefreshVersion, CommitVersion, RollbackVersion
    DEF Next, Begin, Acquire, Proceed, RefreshUnknown, RefreshReject,
        ResolveForbidden, Abort, DeadlockVictim

LEMMA VersionInit == Init => VersionInv
  BY ConstantsOK
  DEF Init, VersionInv, LogoutOK, Bumps, NotAhead, CurrentLoginHasLiveRow,
      Issued, NoTx, Logouts

LEMMA VersionInvariant == Spec /\ []LogoutsTakeTurns => []VersionInv
  <1>1. Init => VersionInv
    BY VersionInit
  <1>2. LogoutsTakeTurns /\ TypeInv /\ SafeInv /\ VersionInv /\ [Next]_vars
          => VersionInv'
    BY VersionStep
  <1> QED
    BY <1>1, <1>2, TypeInvariant, SafeInvariant, PTL DEF Spec

(* Tokens in a client's hand are never rewritten.                          *)
LEMMA HeldClaimsStable ==
    ASSUME TypeInv, SafeInv, [Next]_vars, NEW g \in held
    PROVE  claims'[g] = claims[g]
  <1>1. g \in Grants /\ Issued(g)
    BY DEF TypeInv, TypeOK, HeldIssued
  <1>2. ASSUME NEW r \in Requests, NEW u \in Users, NEW k \in Grants, Login(r, u, k)
        PROVE  claims'[g] = claims[g]
    <2>1. ~Issued(k)
      BY <1>2 DEF Login, Fresh, Issued
    <2> QED
      BY <1>1, <1>2, <2>1 DEF Login, IssueAuthResult, TypeInv, TypeOK
  <1>3. ASSUME NEW r \in Requests, RefreshCheck(r)
        PROVE  claims'[g] = claims[g]
    <2>1. tx[r].mint \in Grants /\ ~Issued(tx[r].mint)
      BY <1>3, ConstantsOK DEF RefreshCheck, TypeInv, MintOK, SafeInv, StagingInv, Staged
    <2> QED
      BY <1>1, <1>3, <2>1 DEF RefreshCheck, IssueAuthResult, TypeInv, TypeOK
  <1>4. ASSUME NEW r \in Requests, Rollback(r)
        PROVE  claims'[g] = claims[g]
    BY <1>1, <1>4 DEF Rollback
  <1> QED
    BY <1>2, <1>3, <1>4
    DEF vars, Next, Begin, Acquire, Proceed, RefreshUnknown, RefreshReject,
        ResolveForbidden, Abort, DeadlockVictim, BeginRefresh, LogoutByRenewal,
        LogoutBySession, LockRow, Resolve, ResolveNobody, RevokeSnapshot,
        RevokeRow, BumpVersion, Respond, Commit, Disable, Expire

(* No step lowers a session_version.                                       *)
LEMMA VersionGrows ==
    ASSUME TypeInv, VersionInv, [Next]_vars, NEW u \in Users
    PROVE  sessionVersion[u] <= sessionVersion'[u]
  <1>1. sessionVersion[u] \in Nat
    BY DEF TypeInv, TypeOK
  <1>2. ASSUME NEW r \in Requests, Commit(r)
        PROVE  sessionVersion[u] <= sessionVersion'[u]
    BY <1>2, CommitVersionGrows
  <1>3. CASE sessionVersion' = sessionVersion
    BY <1>1, <1>3
  <1> QED
    BY <1>2, <1>3
    DEF vars, Next, Begin, Acquire, Proceed, RefreshUnknown, RefreshReject,
        ResolveForbidden, Abort, DeadlockVictim, BeginRefresh, LogoutByRenewal,
        LogoutBySession, LockRow, Resolve, ResolveNobody, RevokeSnapshot,
        RevokeRow, BumpVersion, Respond, Disable, Expire, Login, RefreshCheck,
        IssueAuthResult, Rollback

(* Where the logouts of one user take turns, a token that a logout killed  *)
(* stays dead, whatever logins and refreshes, failures and retries follow. *)
THEOREM EndedStaysEnded == Spec /\ []LogoutsTakeTurns => NoResurrection
  <1>1. ASSUME TypeInv, TypeInv', SafeInv, VersionInv, VersionInv', [Next]_vars,
               NEW g \in held, ~VersionCurrent(g)
        PROVE  ~VersionCurrent(g)'
    <2>1. g \in Grants /\ claims[g] \in Claim /\ Issued(g) /\ claims'[g] = claims[g]
      BY <1>1, HeldClaimsStable DEF TypeInv, TypeOK, HeldIssued, Issued
    <2> DEFINE u == claims[g].user
               v == claims[g].sv
    <2>2. u \in Users /\ v \in Nat
      BY <2>1 DEF Claim
    <2>3. sessionVersion[u] \in Nat /\ sessionVersion'[u] \in Nat
      BY <1>1, <2>2 DEF TypeInv, TypeOK
    <2>4. v <= sessionVersion[u] /\ v # sessionVersion[u]
      BY <1>1, <2>1 DEF VersionInv, NotAhead, VersionCurrent
    <2>5. sessionVersion[u] <= sessionVersion'[u]
      BY <1>1, <2>2, VersionGrows
    <2>6. v # sessionVersion'[u]
      BY <2>2, <2>3, <2>4, <2>5
    <2> QED
      BY <2>1, <2>6 DEF VersionCurrent
  <1>2. TypeInv /\ TypeInv' /\ SafeInv /\ VersionInv /\ VersionInv' /\ [Next]_vars
          => [\A g \in held : ~VersionCurrent(g) => ~VersionCurrent(g)']_vars
    BY <1>1
  <1> QED
    BY <1>2, TypeInvariant, SafeInvariant, VersionInvariant, PTL DEF Spec, NoResurrection

(* Only a commit changes the database's tokens and versions.               *)
LEMMA OnlyCommitWrites ==
    ASSUME [Next]_vars, <<row, sessionVersion>>' # <<row, sessionVersion>>
    PROVE  \E r \in Requests : Commit(r)
  BY DEF vars, Next, Begin, Acquire, Proceed, RefreshUnknown, RefreshReject,
        ResolveForbidden, Abort, DeadlockVictim, BeginRefresh, LogoutByRenewal,
        LogoutBySession, LockRow, Resolve, ResolveNobody, RevokeSnapshot,
        RevokeRow, BumpVersion, Respond, Disable, Expire, Login, RefreshCheck,
        IssueAuthResult, Rollback

(* Where the logouts of one user take turns, one that commits ends every   *)
(* session of its user, whatever it raced with.                            *)
THEOREM LogoutsReachEverySession == Spec /\ []LogoutsTakeTurns => LogoutEndsSessions
  <1>1. ASSUME TypeInv, VersionInv, [Next]_vars, NEW r \in Requests,
               pc[r] = "commit", pc'[r] = "idle", tx[r].kind \in Logouts,
               <<row, sessionVersion>>' # <<row, sessionVersion>>,
               NEW g \in Grants, Issued(g), claims[g].user = tx[r].user
        PROVE  ~VersionCurrent(g)'
    <2>1. PICK s \in Requests : Commit(s)
      BY <1>1, OnlyCommitWrites
    <2>2. s = r
      BY <1>1, <2>1 DEF Commit, TypeInv, TypeOK
    <2>3. CASE tx[r].bump
      BY <1>1, <2>1, <2>2, <2>3, CommitKills
    <2>4. CASE ~tx[r].bump
      <3>1. tx[r].rows = {} /\ tx[r].mint = None
        BY <1>1, <2>4 DEF VersionInv, LogoutOK, Bumps
      <3>2. row' = [k \in Grants |-> row[k]]
        BY <2>1, <2>2, <3>1, ConstantsOK DEF Commit
      <3>3. row' = row /\ sessionVersion' = sessionVersion
        BY <1>1, <2>1, <2>2, <2>4, <3>2 DEF Commit, TypeInv, TypeOK
      <3> QED
        BY <1>1, <3>3
    <2> QED
      BY <2>3, <2>4
  <1>2. TypeInv /\ VersionInv /\ [Next]_vars
          => [\A r \in Requests :
                /\ pc[r] = "commit" /\ pc'[r] = "idle" /\ tx[r].kind \in Logouts
                /\ <<row, sessionVersion>>' # <<row, sessionVersion>>
                => \A g \in Grants : Issued(g) /\ claims[g].user = tx[r].user =>
                     ~VersionCurrent(g)']_vars
    BY <1>1
  <1> QED
    BY <1>2, TypeInvariant, VersionInvariant, PTL DEF Spec, LogoutEndsSessions

(* Where the logouts of one user take turns, revoking is never half done.  *)
THEOREM RevokingIsWhole == Spec /\ []LogoutsTakeTurns => []CurrentLoginHasLiveRow
  <1>1. VersionInv => CurrentLoginHasLiveRow
    BY DEF VersionInv
  <1> QED
    BY <1>1, VersionInvariant, PTL

(***************************************************************************)
(* The abstract logins.  Only two kinds of steps are visible: a response   *)
(* with the cookies of a login, and the commit of a logout.                *)
(***************************************************************************)

(* Neither a new holder, nor a new version: nothing visible.               *)
LEMMA SessionsSame ==
    ASSUME TypeInv, held' = held, sessionVersion' = sessionVersion,
           \A g \in held : claims'[g] = claims[g]
    PROVE  UNCHANGED Sess!sessionVars
  <1>1. ASSUME NEW u \in Users PROVE LoggedIn(u)' = LoggedIn(u)
    BY DEF LoggedIn, VersionCurrent
  <1>2. {claims[g].root : g \in held}' = {claims[g].root : g \in held}
    OBVIOUS
  <1> QED
    BY <1>1, <1>2 DEF Sess!sessionVars

(* The cookies of one more grant m of user u and login l arrive.           *)
LEMMA OneMoreHeld ==
    ASSUME TypeInv, NEW m \in Grants, held' = held \cup {m},
           sessionVersion' = sessionVersion, claims' = claims,
           NEW u, u = claims[m].user, NEW l, l = claims[m].root
    PROVE  /\ \A v \in Users : LoggedIn(v)' =
                IF v = u /\ VersionCurrent(m) THEN LoggedIn(v) \cup {l} ELSE LoggedIn(v)
           /\ {claims[g].root : g \in held}' = {claims[g].root : g \in held} \cup {l}
  <1>1. ASSUME NEW v \in Users
        PROVE  LoggedIn(v)' =
                IF v = u /\ VersionCurrent(m) THEN LoggedIn(v) \cup {l} ELSE LoggedIn(v)
    <2>1. \A g : VersionCurrent(g)' <=> VersionCurrent(g)
      BY DEF VersionCurrent
    <2>2. LoggedIn(v)' = {claims[g].root : g \in
                            {h \in held \cup {m} : claims[h].user = v /\ VersionCurrent(h)}}
      BY <2>1 DEF LoggedIn
    <2>3. CASE v = u /\ VersionCurrent(m)
      <3>1. {h \in held \cup {m} : claims[h].user = v /\ VersionCurrent(h)}
              = {h \in held : claims[h].user = v /\ VersionCurrent(h)} \cup {m}
        BY <2>3
      <3> QED
        BY <2>2, <2>3, <3>1 DEF LoggedIn
    <2>4. CASE ~(v = u /\ VersionCurrent(m))
      <3>1. {h \in held \cup {m} : claims[h].user = v /\ VersionCurrent(h)}
              = {h \in held : claims[h].user = v /\ VersionCurrent(h)}
        BY <2>4
      <3> QED
        BY <2>2, <2>4, <3>1 DEF LoggedIn
    <2> QED
      BY <2>3, <2>4
  <1> QED
    BY <1>1

(* A grant whose cookies are about to leave starts a login of its own, or  *)
(* is one more of a login that is as current as it.                        *)
LEMMA RespondSessions ==
    ASSUME TypeInv, SafeInv, NEW r \in Requests, Respond(r)
    PROVE  [Sess!Next]_(Sess!sessionVars)
  <1>0. PICK m : m = tx[r].mint
    OBVIOUS
  <1>1. sessionVersion' = sessionVersion /\ claims' = claims
        /\ held' = held \cup ({m} \ {None})
    BY <1>0 DEF Respond
  <1>2. CASE m = None \/ m \in held
    <2>1. held' = held
      BY <1>1, <1>2
    <2> QED
      BY <1>1, <2>1, SessionsSame
  <1>3. CASE m # None /\ m \notin held
    <2>0. PICK u, l : u = claims[m].user /\ l = claims[m].root
      OBVIOUS
    <2>1. m \in Grants /\ Issued(m) /\ pc[r] = "respond"
      BY <1>0, <1>3 DEF TypeInv, TypeOK, Tx, MintOK, Respond
    <2>2. claims[m] \in Claim /\ u \in Users /\ l \in Grants
      BY <2>0, <2>1 DEF TypeInv, TypeOK, Issued, Claim
    <2>3. held' = held \cup {m}
      BY <1>1, <1>3
    <2>4. /\ \A v \in Users : LoggedIn(v)' =
                IF v = u /\ VersionCurrent(m) THEN LoggedIn(v) \cup {l} ELSE LoggedIn(v)
          /\ {claims[g].root : g \in held}' = {claims[g].root : g \in held} \cup {l}
      BY <1>1, <2>0, <2>1, <2>3, OneMoreHeld
    <2>5. CASE l = m
      <3>1. m \notin {claims[g].root : g \in held}
        <4>1. SUFFICES ASSUME NEW g \in held, claims[g].root = m PROVE FALSE
          OBVIOUS
        <4>2. g \in Grants /\ Issued(g) /\ g # m
          BY <1>3, <4>1 DEF TypeInv, TypeOK, HeldIssued
        <4>3. Present(m)
          BY <4>1, <4>2 DEF SafeInv, LineageInv
        <4> QED
          BY <1>3, <2>1, <4>3 DEF SafeInv, LineageInv
      <3>2. CASE VersionCurrent(m)
        <4>1. [v \in Users |-> LoggedIn(v)]'
                = [[v \in Users |-> LoggedIn(v)] EXCEPT ![u] = @ \cup {m}]
          BY <2>2, <2>4, <2>5, <3>2
        <4>2. Sess!Login(u, m)
          BY <2>4, <2>5, <3>1, <4>1 DEF Sess!Login
        <4> QED
          BY <2>1, <2>2, <4>2 DEF Sess!Next
      <3>3. CASE ~VersionCurrent(m)
        <4>1. [v \in Users |-> LoggedIn(v)]' = [v \in Users |-> LoggedIn(v)]
          BY <2>4, <3>3
        <4>2. Sess!Overtaken(m)
          BY <2>4, <2>5, <3>1, <4>1 DEF Sess!Overtaken
        <4> QED
          BY <2>1, <4>2 DEF Sess!Next
      <3> QED
        BY <3>2, <3>3
    <2>6. CASE l # m
      <3> DEFINE h == tx[r].want
      <3>1. h \in tx[r].rows /\ row[h] = "live" /\ claims[h].root = l
        BY <1>0, <1>3, <2>0, <2>1, <2>6 DEF SafeInv, StagingInv, Staged
      <3>2. h \in Grants
        BY <3>1 DEF TypeInv, TypeOK, Tx
      <3>3. h \in held /\ Issued(h)
        BY <3>1, <3>2 DEF SafeInv, LineageInv, Present, TypeInv, HeldIssued
      <3>4. claims[h].user = u /\ claims[h].sv = claims[m].sv
        BY <2>0, <2>1, <3>1, <3>2, <3>3 DEF SafeInv, FamilyVersion
      <3>5. VersionCurrent(m) => l \in LoggedIn(u)
        BY <2>0, <3>1, <3>3, <3>4 DEF LoggedIn, VersionCurrent
      <3>6. \A v \in Users : LoggedIn(v)' = LoggedIn(v)
        BY <2>4, <3>5
      <3>7. l \in {claims[g].root : g \in held}
        BY <3>1, <3>3
      <3>8. {claims[g].root : g \in held}' = {claims[g].root : g \in held}
        BY <2>4, <3>7
      <3> QED
        BY <3>6, <3>8 DEF Sess!sessionVars
    <2> QED
      BY <2>5, <2>6
  <1> QED
    BY <1>2, <1>3

(* A commit that bumps kills every token of its user, and of nobody else.  *)
LEMMA CommitSessions ==
    ASSUME TypeInv, VersionInv, NEW r \in Requests, Commit(r)
    PROVE  [Sess!Next]_(Sess!sessionVars)
  <1>1. claims' = claims /\ held' = held
    BY DEF Commit
  <1>2. CASE ~tx[r].bump
    BY <1>1, <1>2, CommitVersionGrows, SessionsSame
  <1>3. CASE tx[r].bump
    <2>0. PICK u : u = tx[r].user
      OBVIOUS
    <2>1. u \in Users /\ sessionVersion' = [sessionVersion EXCEPT ![u] = sessionVersion[u] + 1]
      BY <1>3, <2>0, CommitVersionGrows
    <2>2. LoggedIn(u)' = {}
      <3>1. ASSUME NEW g \in held, claims[g].user = u PROVE ~VersionCurrent(g)'
        <4>1. g \in Grants /\ Issued(g)
          BY DEF TypeInv, TypeOK, HeldIssued
        <4> QED
          BY <1>3, <2>0, <3>1, <4>1, CommitKills
      <3> QED
        BY <1>1, <3>1 DEF LoggedIn
    <2>3. ASSUME NEW v \in Users, v # u PROVE LoggedIn(v)' = LoggedIn(v)
      <3>1. sessionVersion'[v] = sessionVersion[v]
        BY <2>1, <2>3 DEF TypeInv, TypeOK
      <3>2. \A g \in held : claims[g].user = v => (VersionCurrent(g)' <=> VersionCurrent(g))
        BY <1>1, <3>1 DEF VersionCurrent
      <3> QED
        BY <1>1, <3>2 DEF LoggedIn
    <2>4. [v \in Users |-> LoggedIn(v)]' = [[v \in Users |-> LoggedIn(v)] EXCEPT ![u] = {}]
      BY <2>1, <2>2, <2>3
    <2>5. Sess!Logout(u)
      BY <1>1, <2>4 DEF Sess!Logout
    <2> QED
      BY <2>1, <2>5 DEF Sess!Next
  <1> QED
    BY <1>2, <1>3

(* All other steps touch neither what clients hold nor the versions.       *)
LEMMA QuietSteps ==
    ASSUME [Next]_vars, ~\E r \in Requests : Respond(r) \/ Commit(r)
    PROVE  held' = held /\ sessionVersion' = sessionVersion
  BY DEF vars, Next, Begin, Acquire, Proceed, RefreshUnknown, RefreshReject,
        ResolveForbidden, Abort, DeadlockVictim, BeginRefresh, LogoutByRenewal,
        LogoutBySession, LockRow, Resolve, ResolveNobody, RevokeSnapshot,
        RevokeRow, BumpVersion, Disable, Expire, Login, RefreshCheck,
        IssueAuthResult, Rollback

(* Where the logouts of one user take turns, the tokens, rows and versions *)
(* implement logins that only a logout ends, all of a user at once and for *)
(* good.                                                                   *)
THEOREM TurnsImplementSessions == Spec /\ []LogoutsTakeTurns => ImplementsSessions
  <1>1. Init => Sess!Init
    <2>1. SUFFICES ASSUME Init PROVE Sess!Init
      OBVIOUS
    <2>2. held = {}
      BY <2>1 DEF Init
    <2>3. \A u \in Users : LoggedIn(u) = {}
      BY <2>2 DEF LoggedIn
    <2> QED
      BY <2>2, <2>3 DEF Sess!Init
  <1>2. ASSUME TypeInv, SafeInv, VersionInv, [Next]_vars
        PROVE  [Sess!Next]_(Sess!sessionVars)
    <2>1. CASE \E r \in Requests : Respond(r)
      BY <1>2, <2>1, RespondSessions
    <2>2. CASE \E r \in Requests : Commit(r)
      BY <1>2, <2>2, CommitSessions
    <2>3. CASE ~\E r \in Requests : Respond(r) \/ Commit(r)
      <3>1. held' = held /\ sessionVersion' = sessionVersion
        BY <1>2, <2>3, QuietSteps
      <3>2. \A g \in held : claims'[g] = claims[g]
        BY <1>2, HeldClaimsStable
      <3> QED
        BY <1>2, <3>1, <3>2, SessionsSame
    <2> QED
      BY <2>1, <2>2, <2>3
  <1> QED
    BY <1>1, <1>2, TypeInvariant, SafeInvariant, VersionInvariant, PTL
    DEF Spec, ImplementsSessions, Sess!Spec

=============================================================================
