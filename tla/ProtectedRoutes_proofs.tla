----------------------- MODULE ProtectedRoutes_proofs -----------------------
(***************************************************************************)
(* Proofs about ProtectedRoutes: who is served, and that a profile and the *)
(* instructor flag never part, whatever commits between the middleware's   *)
(* read, the handler's read and the handler's write.                       *)
(***************************************************************************)
EXTENDS ProtectedRoutes, TLAPS

Become == "/instructor/become"

(* What a request may rely on at each point.  At "check" its version is    *)
(* still to be compared, and the one it will be compared with is among     *)
(* those recorded since it arrived, whichever way logouts move it; a       *)
(* request that has written holds the row, so nobody else adds a profile.  *)
Request(r) ==
    /\ tx[r].wrote <=> pc[r] \in {"respond", "commit"}
    /\ pc[r] # "idle" => /\ tx[r].user \in Users
                         /\ tx[r].path = Become => tx[r].answers \in Answers
    /\ pc[r] = "check" => /\ account[tx[r].user].version \in tx[r].versions
                          /\ account[tx[r].user].active => tx[r].able
    /\ pc[r] \in {"handle", "write", "respond", "commit"} =>
           /\ tx[r].sv \in tx[r].versions /\ tx[r].able
           /\ account[tx[r].user].verified
    /\ pc[r] \in {"write", "respond", "commit"} => tx[r].path = Become
    /\ pc[r] \in {"respond", "commit"} => profile[tx[r].user] = None
    /\ reply[r] = "200" => pc[r] \in {"idle", "commit"}

OneWriter ==
    \A r, s \in Requests : tx[r].wrote /\ tx[s].wrote /\ tx[r].user = tx[s].user => r = s

Entitled(r) ==
    /\ tx[r].user # None /\ tx[r].sv \in tx[r].versions /\ tx[r].able
    /\ account[tx[r].user].verified
    /\ StaffOnly(tx[r].path) => tx[r].user \in Staff

IInv ==
    /\ TypeOK
    /\ \A r \in Requests : Request(r)
    /\ OneWriter
    /\ FlagMatchesProfile
    /\ OnlyEntitledServed

(* None stands for no user: the primary keys are values.                   *)
LEMMA InitIInv == Init => IInv
<1>1. SUFFICES ASSUME Init PROVE IInv
  OBVIOUS
<1>2. TypeOK
  <2>1. NoTx \in Tx
    BY DEF NoTx, Tx
  <2>2. QED
    BY <1>1, <2>1 DEF Init, TypeOK, Account
<1>3. \A r \in Requests : Request(r)
  BY <1>1 DEF Init, Request, NoTx
<1>4. OneWriter /\ OnlyEntitledServed
  BY <1>1 DEF Init, OneWriter, OnlyEntitledServed, NoTx
<1>5. FlagMatchesProfile
  BY <1>1 DEF Init, FlagMatchesProfile
<1>6. QED
  BY <1>2, <1>3, <1>4, <1>5 DEF IInv

(* A step of one request that commits nothing: only that request is to be  *)
(* looked at again.                                                        *)
LEMMA LocalStep ==
    ASSUME IInv, NEW r \in Requests,
           UNCHANGED <<account, past, profile>>, TypeOK',
           \A s \in Requests \ {r} : pc'[s] = pc[s] /\ tx'[s] = tx[s] /\ reply'[s] = reply[s],
           Request(r)',
           tx'[r].wrote => /\ tx'[r].user = tx[r].user
                           /\ tx[r].wrote \/ RowFree(tx[r].user),
           reply'[r] = "200" => Entitled(r)'
    PROVE  IInv'
<1>1. ASSUME NEW s \in Requests PROVE Request(s)'
  <2>1. CASE s = r
    BY <2>1
  <2>2. CASE s # r
    <3>1. pc'[s] = pc[s] /\ tx'[s] = tx[s] /\ reply'[s] = reply[s] /\ Request(s)
      BY <2>2 DEF IInv
    <3>2. QED
      BY <3>1 DEF Request
  <2>3. QED
    BY <2>1, <2>2
<1>2. OneWriter'
  <2>1. SUFFICES ASSUME NEW s \in Requests, NEW q \in Requests,
                        tx'[s].wrote, tx'[q].wrote, tx'[s].user = tx'[q].user
                 PROVE  s = q
    BY DEF OneWriter
  <2>2. CASE s # r /\ q # r
    BY <2>1, <2>2 DEF IInv, OneWriter
  <2>3. CASE s = r /\ q # r
    <3>1. tx[q].wrote /\ tx[q].user = tx[r].user
      BY <2>1, <2>3
    <3>2. ~RowFree(tx[r].user)
      BY <3>1 DEF RowFree
    <3>3. tx[r].wrote
      BY <2>1, <2>3, <3>2
    <3>4. QED
      BY <3>1, <3>3, <2>3 DEF IInv, OneWriter
  <2>4. CASE q = r /\ s # r
    <3>1. tx[s].wrote /\ tx[s].user = tx[r].user
      BY <2>1, <2>4
    <3>2. ~RowFree(tx[r].user)
      BY <3>1 DEF RowFree
    <3>3. tx[r].wrote
      BY <2>1, <2>4, <3>2
    <3>4. QED
      BY <3>1, <3>3, <2>4 DEF IInv, OneWriter
  <2>5. QED
    BY <2>2, <2>3, <2>4
<1>3. FlagMatchesProfile'
  BY DEF IInv, FlagMatchesProfile
<1>4. OnlyEntitledServed'
  BY DEF IInv, OnlyEntitledServed, Entitled
<1>5. QED
  BY <1>1, <1>2, <1>3, <1>4 DEF IInv

LEMMA GuardedPath == \A line \in Guarded : line.path \in Paths
<1>1. QED
  BY DEF Guarded, LineOf, Paths

(* A refusal or an error: nothing is kept but the status.                  *)
LEMMA ReplyRefusal ==
    ASSUME IInv, NEW r \in Requests, NEW status \in {"400", "401", "403", "409", "500"},
           Reply(r, status)
    PROVE  IInv'
<1>1. /\ UNCHANGED <<account, past, profile>>
      /\ pc'[r] = "idle" /\ reply'[r] = status /\ tx'[r] = NoTx
      /\ \A s \in Requests \ {r} : pc'[s] = pc[s] /\ tx'[s] = tx[s] /\ reply'[s] = reply[s]
  BY DEF Reply, IInv, TypeOK
<1>2. NoTx \in Tx
  BY DEF NoTx, Tx
<1>3. TypeOK'
  BY <1>1, <1>2 DEF Reply, IInv, TypeOK
<1>4. Request(r)'
  BY <1>1 DEF Request, NoTx
<1>5. ~tx'[r].wrote
  BY <1>1 DEF NoTx
<1>6. QED
  BY <1>1, <1>3, <1>4, <1>5, LocalStep

(* A success of a route that writes nothing.                               *)
LEMMA ReplySuccess ==
    ASSUME IInv, NEW r \in Requests, Entitled(r), Reply(r, "200")
    PROVE  IInv'
<1>1. /\ UNCHANGED <<account, past, profile>>
      /\ pc'[r] = "idle" /\ reply'[r] = "200" /\ tx'[r] = [tx[r] EXCEPT !.wrote = FALSE]
      /\ \A s \in Requests \ {r} : pc'[s] = pc[s] /\ tx'[s] = tx[s] /\ reply'[s] = reply[s]
  BY DEF Reply, IInv, TypeOK
<1>2. tx[r] \in Tx
  BY DEF IInv, TypeOK
<1>3. tx'[r] \in Tx /\ ~tx'[r].wrote
  BY <1>1, <1>2 DEF Tx
<1>4. TypeOK'
  BY <1>1, <1>3 DEF Reply, IInv, TypeOK
<1>5. Request(r)'
  BY <1>1, <1>3 DEF Request
<1>6. Entitled(r)'
  BY <1>1, <1>2 DEF Entitled, Tx
<1>7. QED
  BY <1>1, <1>3, <1>4, <1>5, <1>6, LocalStep

LEMMA ArriveIInv ==
    ASSUME IInv, NEW r \in Requests, NEW line \in Guarded, NEW cookie \in Issued,
           NEW a \in (IF line.path = Become THEN Answers ELSE {None}), Arrive(r, line, cookie, a)
    PROVE  IInv'
<1> DEFINE t == [path |-> line.path, user |-> cookie.user, sv |-> cookie.sv,
                 versions |-> {account[cookie.user].version}, able |-> account[cookie.user].active,
                 answers |-> a, wrote |-> FALSE]
<1>1. /\ cookie.user \in Users /\ cookie.sv \in Nat
      /\ cookie # None
  BY ConstantsOK DEF Arrive, Decodes, Issued
<1>2. account[cookie.user] \in Account
  BY <1>1 DEF IInv, TypeOK
<1>3. /\ UNCHANGED <<account, past, profile>>
      /\ pc' = [pc EXCEPT ![r] = "check"] /\ tx' = [tx EXCEPT ![r] = t]
      /\ reply' = [reply EXCEPT ![r] = "none"]
  BY DEF Arrive
<1>4. t \in Tx
  BY <1>1, <1>2, GuardedPath DEF Tx, Account
<1>5. TypeOK'
  BY <1>3, <1>4 DEF IInv, TypeOK
<1>6. /\ pc'[r] = "check" /\ tx'[r] = t /\ reply'[r] = "none"
      /\ \A s \in Requests \ {r} : pc'[s] = pc[s] /\ tx'[s] = tx[s] /\ reply'[s] = reply[s]
  BY <1>3 DEF IInv, TypeOK
<1>7. Request(r)'
  <2>1. t.path = Become => t.answers \in Answers
    OBVIOUS
  <2>2. account[t.user].version \in t.versions
    OBVIOUS
  <2>3. QED
    BY <1>1, <1>3, <1>6, <2>1, <2>2 DEF Request
<1>8. QED
  BY <1>3, <1>5, <1>6, <1>7, LocalStep

(* The version the middleware reads is one that was recorded.              *)
LEMMA AdmitIInv ==
    ASSUME IInv, NEW r \in Requests, Admit(r)
    PROVE  IInv'
<1>1. /\ UNCHANGED <<account, past, profile, tx, reply>> /\ pc[r] = "check"
      /\ pc' = [pc EXCEPT ![r] = "handle"]
      /\ account[tx[r].user].version = tx[r].sv /\ account[tx[r].user].active
      /\ account[tx[r].user].verified
  BY DEF Admit, Goto, Current
<1>2. TypeOK'
  BY <1>1 DEF IInv, TypeOK
<1>3. /\ pc'[r] = "handle"
      /\ \A s \in Requests \ {r} : pc'[s] = pc[s] /\ tx'[s] = tx[s] /\ reply'[s] = reply[s]
  BY <1>1 DEF IInv, TypeOK
<1>4. Request(r) /\ tx[r] \in Tx
  BY DEF IInv, TypeOK
<1>5. tx[r].sv \in tx[r].versions /\ tx[r].able
  BY <1>1, <1>4 DEF Request, Tx
<1>6. Request(r)' /\ reply'[r] # "200" /\ ~tx'[r].wrote
  BY <1>1, <1>3, <1>4, <1>5 DEF Request, Tx
<1>7. QED
  BY <1>1, <1>2, <1>3, <1>6, LocalStep

LEMMA HandleIInv ==
    ASSUME IInv, NEW r \in Requests, Handle(r)
    PROVE  IInv'
<1>1. pc[r] = "handle" /\ Request(r) /\ tx[r] \in Tx
  BY DEF Handle, IInv, TypeOK
<1>2. PICK status \in {"200", "400", "401", "403", "409"} :
          Outcome(r, status) /\ Reply(r, status)
  BY DEF Handle
<1>4. CASE status # "200"
  BY <1>2, <1>4, ReplyRefusal
<1>5. CASE status = "200"
  <2>1. StaffOnly(tx[r].path) => tx[r].user \in Staff
    <3>1. ~StaffOnly("/user/me") /\ ~StaffOnly("/auth/link-google")
      BY DEF StaffOnly, RouteTable
    <3>2. QED
      BY <1>2, <1>5, <3>1 DEF Outcome
  <2>2. Entitled(r)
    BY <1>1, <2>1, ConstantsOK DEF Request, Entitled
  <2>3. QED
    BY <1>2, <1>5, <2>2, ReplySuccess
<1>6. QED
  BY <1>4, <1>5

LEMMA HandleBecomeIInv ==
    ASSUME IInv, NEW r \in Requests, HandleBecome(r)
    PROVE  IInv'
<1>1. /\ UNCHANGED <<account, past, profile, tx, reply>> /\ pc[r] = "handle"
      /\ pc' = [pc EXCEPT ![r] = "write"]
      /\ Outcome(r, "write")
  BY DEF HandleBecome, Goto
<1>2. tx[r].path = Become
  BY <1>1 DEF Outcome, Become
<1>3. TypeOK'
  BY <1>1 DEF IInv, TypeOK
<1>4. /\ pc'[r] = "write"
      /\ \A s \in Requests \ {r} : pc'[s] = pc[s] /\ tx'[s] = tx[s] /\ reply'[s] = reply[s]
  BY <1>1 DEF IInv, TypeOK
<1>5. Request(r)
  BY DEF IInv
<1>6. Request(r)' /\ reply'[r] # "200" /\ ~tx'[r].wrote
  BY <1>1, <1>2, <1>4, <1>5 DEF Request
<1>7. QED
  BY <1>1, <1>3, <1>4, <1>6, LocalStep

LEMMA WriteIInv ==
    ASSUME IInv, NEW r \in Requests, Write(r)
    PROVE  IInv'
<1>1. /\ UNCHANGED <<account, past, profile, reply>> /\ pc[r] = "write"
      /\ pc' = [pc EXCEPT ![r] = "respond"] /\ tx' = [tx EXCEPT ![r].wrote = TRUE]
      /\ RowFree(tx[r].user) /\ profile[tx[r].user] = None
  BY DEF Write, Goto, Duplicate
<1>2. Request(r) /\ tx[r] \in Tx
  BY DEF IInv, TypeOK
<1>3. /\ pc'[r] = "respond" /\ tx'[r] = [tx[r] EXCEPT !.wrote = TRUE]
      /\ \A s \in Requests \ {r} : pc'[s] = pc[s] /\ tx'[s] = tx[s] /\ reply'[s] = reply[s]
  BY <1>1 DEF IInv, TypeOK
<1>4. tx'[r] \in Tx /\ tx'[r].wrote /\ tx'[r].user = tx[r].user
  BY <1>2, <1>3 DEF Tx
<1>5. TypeOK'
  BY <1>1, <1>3, <1>4 DEF IInv, TypeOK
<1>6. Request(r)' /\ reply'[r] # "200"
  BY <1>1, <1>2, <1>3, <1>4 DEF Request, Tx
<1>7. QED
  BY <1>1, <1>3, <1>4, <1>5, <1>6, LocalStep

LEMMA RespondIInv ==
    ASSUME IInv, NEW r \in Requests, Respond(r)
    PROVE  IInv'
<1>1. /\ UNCHANGED <<account, past, profile, tx>> /\ pc[r] = "respond"
      /\ pc' = [pc EXCEPT ![r] = "commit"] /\ reply' = [reply EXCEPT ![r] = "200"]
  BY DEF Respond
<1>2. Request(r)
  BY DEF IInv
<1>3. /\ pc'[r] = "commit" /\ reply'[r] = "200"
      /\ \A s \in Requests \ {r} : pc'[s] = pc[s] /\ tx'[s] = tx[s] /\ reply'[s] = reply[s]
  BY <1>1 DEF IInv, TypeOK
<1>4. TypeOK'
  BY <1>1 DEF IInv, TypeOK
<1>5. Request(r)'
  BY <1>1, <1>2, <1>3 DEF Request
<1>6. ~StaffOnly(Become)
  BY DEF StaffOnly, RouteTable, Become
<1>7. Entitled(r)'
  BY <1>1, <1>2, <1>6, ConstantsOK DEF Request, Entitled
<1>8. QED
  BY <1>1, <1>2, <1>3, <1>4, <1>5, <1>7, LocalStep DEF Request

(* One request commits its profile, whose row it alone holds.              *)
LEMMA CommitIInv ==
    ASSUME IInv, NEW r \in Requests, Commit(r)
    PROVE  IInv' /\ \A u \in Users : profile[u] # None => profile'[u] = profile[u]
<1> DEFINE u == tx[r].user
<1>1. /\ pc[r] = "commit" /\ Request(r) /\ tx[r] \in Tx /\ tx[r].wrote
      /\ u \in Users /\ tx[r].answers \in Answers /\ profile[u] = None
  BY DEF Commit, IInv, TypeOK, Request
<1>2. /\ account' = [account EXCEPT ![u].instructor = TRUE]
      /\ profile' = [profile EXCEPT ![u] = tx[r].answers]
      /\ pc' = [pc EXCEPT ![r] = "idle"]
      /\ tx' = [tx EXCEPT ![r].wrote = FALSE] /\ UNCHANGED <<past, reply>>
  BY DEF Commit, Flagged, Stored
<1>3. \A v \in Users : account[v] \in Account
  BY DEF IInv, TypeOK
<1>4. /\ \A v \in Users : /\ account'[v].version = account[v].version
                         /\ account'[v].active = account[v].active
                         /\ account'[v].verified = account[v].verified
                         /\ account'[v].instructor = (v = u \/ account[v].instructor)
      /\ account' \in [Users -> Account]
  BY <1>1, <1>2, <1>3 DEF IInv, TypeOK, Account
<1>5. \A v \in Users : profile'[v] = IF v = u THEN tx[r].answers ELSE profile[v]
  BY <1>1, <1>2 DEF IInv, TypeOK
<1>6. /\ pc'[r] = "idle" /\ tx'[r] = [tx[r] EXCEPT !.wrote = FALSE] /\ reply'[r] = reply[r]
      /\ \A s \in Requests \ {r} : pc'[s] = pc[s] /\ tx'[s] = tx[s] /\ reply'[s] = reply[s]
  BY <1>2 DEF IInv, TypeOK
<1>7. tx'[r] \in Tx /\ ~tx'[r].wrote
  BY <1>1, <1>6 DEF Tx
<1>8. TypeOK'
  BY <1>1, <1>2, <1>4, <1>7 DEF IInv, TypeOK
<1>9. ASSUME NEW s \in Requests PROVE Request(s)'
  <2>1. CASE s = r
    BY <1>6, <1>7, <2>1 DEF Request
  <2>2. CASE s # r
    <3>1. pc'[s] = pc[s] /\ tx'[s] = tx[s] /\ reply'[s] = reply[s] /\ Request(s)
      BY <1>6, <2>2 DEF IInv
    <3>2. pc[s] \in {"respond", "commit"} => tx[s].user # u
      BY <1>1, <2>2, <3>1 DEF IInv, OneWriter, Request
    <3>3. QED
      BY <1>4, <1>5, <3>1, <3>2 DEF Request
  <2>3. QED
    BY <2>1, <2>2
<1>10. OneWriter'
  BY <1>6, <1>7 DEF IInv, OneWriter
<1>11. FlagMatchesProfile'
  BY <1>1, <1>4, <1>5, ConstantsOK DEF IInv, FlagMatchesProfile
<1>12. OnlyEntitledServed'
  <2>1. SUFFICES ASSUME NEW s \in Requests, reply'[s] = "200" PROVE Entitled(s)'
    BY DEF OnlyEntitledServed, Entitled
  <2>2. Entitled(s)
    BY <1>2, <2>1 DEF IInv, OnlyEntitledServed, Entitled
  <2>3. /\ tx'[s].user = tx[s].user /\ tx'[s].sv = tx[s].sv
        /\ tx'[s].versions = tx[s].versions
        /\ tx'[s].able = tx[s].able /\ tx'[s].path = tx[s].path
    BY <1>1, <1>6 DEF Tx
  <2>4. account'[tx[s].user].verified
    <3>1. tx[s].user \in Users
      BY <2>2 DEF Entitled, IInv, TypeOK, Tx
    <3>2. QED
      BY <1>4, <2>2, <3>1 DEF Entitled
  <2>5. QED
    BY <2>2, <2>3, <2>4 DEF Entitled
<1>13. QED
  BY <1>1, <1>5, <1>8, <1>9, <1>10, <1>11, <1>12 DEF IInv

(* What the world does to a user's row.                                    *)
Outside(u) ==
    (\E v \in past[u] : Logout(u, v) \/ Relink(u, v)) \/ Verify(u) \/ Disable(u)

(* It writes any version, but never takes back a verification or a         *)
(* disabling.                                                              *)
Kept(v) ==
    /\ account[v].active \/ ~account'[v].active
    /\ account[v].verified => account'[v].verified
    /\ account'[v].instructor = account[v].instructor

LEMMA RowChanges ==
    ASSUME IInv, NEW u \in Users, NEW a \in Account, account' = [account EXCEPT ![u] = a],
           account[u].active \/ ~a.active, account[u].verified => a.verified,
           a.instructor = account[u].instructor
    PROVE  /\ account' \in [Users -> Account]
           /\ \A v \in Users : Kept(v)
           /\ account'[u].version = a.version
           /\ \A v \in Users \ {u} : account'[v].version = account[v].version
<1>1. account \in [Users -> Account]
  BY DEF IInv, TypeOK
<1>2. account' \in [Users -> Account]
  BY <1>1
<1>3. account'[u] = a /\ \A v \in Users \ {u} : account'[v] = account[v]
  BY <1>1
<1>4. ASSUME NEW v \in Users PROVE Kept(v)
  <2>1. CASE v = u
    <3>1. account'[v] = a
      BY <1>3, <2>1
    <3>2. QED
      BY <2>1, <3>1, Zenon DEF Kept
  <2>2. CASE v # u
    <3>1. account'[v] = account[v]
      BY <1>3, <2>2
    <3>2. QED
      BY <3>1, Zenon DEF Kept
  <2>3. QED
    BY <2>1, <2>2
<1>5. QED
  BY <1>2, <1>3, <1>4

(* A request that is being checked keeps a record of the version.          *)
Recorded(r) ==
    /\ tx'[r] \in Tx /\ tx[r].versions \subseteq tx'[r].versions
    /\ tx'[r].path = tx[r].path /\ tx'[r].user = tx[r].user /\ tx'[r].sv = tx[r].sv
    /\ tx'[r].able = tx[r].able /\ tx'[r].answers = tx[r].answers
    /\ tx'[r].wrote = tx[r].wrote
    /\ pc[r] = "check" /\ tx[r].user \in Users =>
           \/ account'[tx[r].user].version = account[tx[r].user].version
           \/ account'[tx[r].user].version \in tx'[r].versions

LEMMA EndingIsRecorded ==
    ASSUME IInv, NEW u \in Users, NEW n \in past[u], Logout(u, n) \/ Relink(u, n)
    PROVE  /\ account' \in [Users -> Account] /\ past' \in [Users -> SUBSET Nat]
           /\ tx' \in [Requests -> Tx]
           /\ \A v \in Users : Kept(v)
           /\ \A r \in Requests : Recorded(r)
<1> DEFINE next == IF Relink(u, n) THEN TRUE ELSE account[u].verified
           a == [account[u] EXCEPT !.version = n + 1, !.verified = next]
<1>1. /\ account \in [Users -> Account] /\ past \in [Users -> SUBSET Nat]
      /\ tx \in [Requests -> Tx] /\ account[u] \in Account /\ n \in Nat
      /\ EndSessions(u, n)
  BY DEF IInv, TypeOK, Logout, Relink
<1>2. account' = [account EXCEPT ![u] = a]
  <2>1. CASE Relink(u, n)
    BY <1>1, <2>1 DEF Relink, Account
  <2>2. CASE ~Relink(u, n) /\ Logout(u, n)
    BY <1>1, <2>2 DEF Logout, Account
  <2>3. QED
    BY <2>1, <2>2
<1>3. next \in BOOLEAN /\ (account[u].verified => next)
  BY <1>1 DEF Account
<1> HIDE DEF next
<1>4. /\ a \in Account /\ a.version = n + 1 /\ a.verified = next
      /\ a.active = account[u].active /\ a.instructor = account[u].instructor
  <2>1. account[u].active \in BOOLEAN /\ account[u].instructor \in BOOLEAN /\ n + 1 \in Nat
    BY <1>1 DEF Account
  <2>2. a.version = n + 1
    BY <1>1 DEF Account
  <2>3. a.verified = next
    BY <1>1 DEF Account
  <2>4. a.active = account[u].active /\ a.instructor = account[u].instructor
    BY <1>1 DEF Account
  <2>5. a \in Account
    BY <1>1, <1>3, <2>1 DEF Account
  <2>6. QED
    BY <2>2, <2>3, <2>4, <2>5
<1>5. (account[u].active \/ ~a.active) /\ (account[u].verified => a.verified)
  BY <1>3, <1>4, Zenon
<1> HIDE DEF a
<1>6. /\ account' \in [Users -> Account] /\ \A v \in Users : Kept(v)
      /\ account'[u].version = n + 1
      /\ \A v \in Users \ {u} : account'[v].version = account[v].version
  BY <1>2, <1>4, <1>5, RowChanges
<1>7. past' \in [Users -> SUBSET Nat]
  BY <1>1 DEF EndSessions
<1>8. ASSUME NEW r \in Requests PROVE Recorded(r)
  <2>1. tx[r] \in Tx
    BY <1>1
  <2>2. CASE pc[r] = "check" /\ tx[r].user = u
    <3>1. tx'[r] = [tx[r] EXCEPT !.versions = @ \cup {n + 1}]
      BY <1>1, <2>2 DEF EndSessions
    <3>2. QED
      BY <1>1, <1>6, <2>1, <2>2, <3>1 DEF Recorded, Tx
  <2>3. CASE ~(pc[r] = "check" /\ tx[r].user = u)
    <3>1. tx'[r] = tx[r]
      BY <1>1, <2>3 DEF EndSessions
    <3>2. QED
      BY <1>6, <2>1, <2>3, <3>1 DEF Recorded
  <2>4. QED
    BY <2>2, <2>3
<1>9. tx' \in [Requests -> Tx]
  <2>1. \A r \in Requests : tx'[r] \in Tx
    BY <1>8 DEF Recorded
  <2>2. QED
    BY <1>1, <2>1 DEF EndSessions
<1>10. QED
  BY <1>6, <1>7, <1>8, <1>9

LEMMA MarkIsRecorded ==
    ASSUME IInv, NEW u \in Users, Verify(u) \/ Disable(u)
    PROVE  /\ account' \in [Users -> Account] /\ past' \in [Users -> SUBSET Nat]
           /\ tx' \in [Requests -> Tx]
           /\ \A v \in Users : Kept(v)
           /\ \A r \in Requests : Recorded(r)
<1>1. /\ account \in [Users -> Account] /\ past \in [Users -> SUBSET Nat]
      /\ tx \in [Requests -> Tx] /\ account[u] \in Account
      /\ past' = past /\ tx' = tx
  BY DEF IInv, TypeOK, Verify, Disable
<1>2. /\ account' \in [Users -> Account] /\ \A v \in Users : Kept(v)
      /\ \A v \in Users : account'[v].version = account[v].version
  <2>1. CASE Verify(u)
    <3> DEFINE a == [account[u] EXCEPT !.verified = TRUE]
    <3>1. account' = [account EXCEPT ![u] = a] /\ a \in Account
      BY <1>1, <2>1 DEF Verify, Account
    <3>2. /\ a.version = account[u].version /\ a.verified = TRUE
          /\ a.active = account[u].active /\ a.instructor = account[u].instructor
      BY <1>1 DEF Account
    <3>3. (account[u].active \/ ~a.active) /\ (account[u].verified => a.verified)
      BY <3>2, Zenon
    <3> HIDE DEF a
    <3>4. QED
      BY <3>1, <3>2, <3>3, RowChanges
  <2>2. CASE Disable(u)
    <3> DEFINE a == [account[u] EXCEPT !.active = FALSE]
    <3>1. account' = [account EXCEPT ![u] = a] /\ a \in Account
      BY <1>1, <2>2 DEF Disable, Account
    <3>2. /\ a.version = account[u].version /\ a.active = FALSE
          /\ a.verified = account[u].verified /\ a.instructor = account[u].instructor
      BY <1>1 DEF Account
    <3>3. (account[u].active \/ ~a.active) /\ (account[u].verified => a.verified)
      BY <3>2, Zenon
    <3> HIDE DEF a
    <3>4. QED
      BY <3>1, <3>2, <3>3, RowChanges
  <2>3. QED
    BY <2>1, <2>2
<1>3. ASSUME NEW r \in Requests PROVE Recorded(r)
  BY <1>1, <1>2 DEF Recorded
<1>4. QED
  BY <1>1, <1>2, <1>3

LEMMA AccountStep ==
    ASSUME IInv, NEW u \in Users, Outside(u)
    PROVE  IInv'
<1>1. UNCHANGED <<profile, pc, reply>>
  BY DEF Outside, Logout, Relink, EndSessions, Verify, Disable
<1>2. /\ account' \in [Users -> Account] /\ past' \in [Users -> SUBSET Nat]
      /\ tx' \in [Requests -> Tx]
      /\ \A v \in Users : Kept(v)
      /\ \A r \in Requests : Recorded(r)
  BY EndingIsRecorded, MarkIsRecorded DEF Outside
<1>3. TypeOK'
  BY <1>1, <1>2 DEF IInv, TypeOK
<1>4. ASSUME NEW r \in Requests PROVE Request(r)'
  <2>1. Request(r) /\ Recorded(r) /\ pc'[r] = pc[r] /\ reply'[r] = reply[r] /\ profile' = profile
    BY <1>1, <1>2 DEF IInv
  <2>2. tx[r].user \in Users => Kept(tx[r].user)
    BY <1>2
  <2>3. pc[r] = "check" => account'[tx[r].user].version \in tx'[r].versions
    BY <2>1 DEF Request, Recorded
  <2>4. pc[r] = "check" => (account'[tx[r].user].active => tx[r].able)
    <3>1. pc[r] = "check" => Kept(tx[r].user) /\ (account[tx[r].user].active => tx[r].able)
      BY <2>1, <2>2 DEF Request
    <3>2. QED
      BY <3>1, Zenon DEF Kept
  <2>5. pc[r] \in {"handle", "write", "respond", "commit"} => account'[tx[r].user].verified
    <3>1. pc[r] \in {"handle", "write", "respond", "commit"} =>
              Kept(tx[r].user) /\ account[tx[r].user].verified
      BY <2>1, <2>2 DEF Request
    <3>2. QED
      BY <3>1, Zenon DEF Kept
  <2>6. QED
    BY <2>1, <2>3, <2>4, <2>5 DEF Request, Recorded
<1>5. OneWriter'
  BY <1>2 DEF IInv, OneWriter, Recorded
<1>6. FlagMatchesProfile'
  <2>1. \A v \in Users : account'[v].instructor = account[v].instructor
    BY <1>2, Zenon DEF Kept
  <2>2. QED
    BY <1>1, <2>1 DEF IInv, FlagMatchesProfile
<1>7. OnlyEntitledServed'
  <2>1. SUFFICES ASSUME NEW r \in Requests, reply[r] = "200" PROVE Entitled(r)'
    BY <1>1 DEF OnlyEntitledServed, Entitled
  <2>2. Entitled(r) /\ Recorded(r) /\ tx[r] \in Tx
    BY <1>2, <2>1 DEF IInv, OnlyEntitledServed, Entitled, TypeOK
  <2>3. Kept(tx[r].user)
    BY <1>2, <2>2 DEF Entitled, Tx
  <2>4. account'[tx[r].user].verified
    BY <2>2, <2>3, Zenon DEF Entitled, Kept
  <2>5. QED
    BY <2>2, <2>4 DEF Entitled, Recorded, StaffOnly
<1>8. QED
  BY <1>3, <1>4, <1>5, <1>6, <1>7 DEF IInv

LEMMA Step ==
    ASSUME IInv, [Next]_vars
    PROVE  IInv' /\ \A u \in Users : profile[u] # None => profile'[u] = profile[u]
<1>1. CASE UNCHANGED vars
  <2>1. TypeOK' /\ OneWriter' /\ FlagMatchesProfile' /\ OnlyEntitledServed'
    BY <1>1 DEF vars, IInv, TypeOK, OneWriter, FlagMatchesProfile, OnlyEntitledServed
  <2>2. \A r \in Requests : Request(r)'
    BY <1>1 DEF vars, IInv, Request
  <2>3. QED
    BY <1>1, <2>1, <2>2 DEF vars, IInv
<1>2. ASSUME NEW r \in Requests, NEW line \in Guarded, NEW cookie \in Issued,
             \/ ArriveUnknown(r, line, cookie)
             \/ \E a \in (IF line.path = Become THEN Answers ELSE {None}) :
                    Arrive(r, line, cookie, a)
      PROVE  IInv' /\ profile' = profile
  <2>1. CASE ArriveUnknown(r, line, cookie)
    BY <2>1, ReplyRefusal DEF ArriveUnknown, Reply
  <2>2. ASSUME NEW a \in (IF line.path = Become THEN Answers ELSE {None}),
               Arrive(r, line, cookie, a)
        PROVE  IInv' /\ profile' = profile
    <3>1. profile' = profile
      BY <2>2 DEF Arrive
    <3>2. QED
      BY <2>2, <3>1, ArriveIInv
  <2>3. QED
    BY <1>2, <2>1, <2>2
<1>3. ASSUME NEW r \in Requests, Refuse(r) \/ WriteRefused(r) PROVE IInv' /\ profile' = profile
  BY <1>3, ReplyRefusal DEF Refuse, WriteRefused, Reply
<1>4. ASSUME NEW r \in Requests, Abort(r) PROVE IInv' /\ profile' = profile
  <2>1. CASE Reply(r, "500")
    BY <2>1, ReplyRefusal DEF Reply
  <2>2. CASE pc[r] = "commit" /\ Reply(r, reply[r])
    <3>1. reply[r] = "200" => Entitled(r)
      BY DEF IInv, OnlyEntitledServed, Entitled
    <3>2. CASE reply[r] = "200"
      BY <2>2, <3>1, <3>2, ReplySuccess DEF Reply
    <3>3. CASE reply[r] # "200"
      <4>1. /\ UNCHANGED <<account, past, profile>>
            /\ pc'[r] = "idle" /\ reply'[r] # "200" /\ tx'[r] = NoTx
            /\ \A s \in Requests \ {r} :
                   pc'[s] = pc[s] /\ tx'[s] = tx[s] /\ reply'[s] = reply[s]
        BY <2>2, <3>3 DEF Reply, IInv, TypeOK
      <4>2. NoTx \in Tx
        BY DEF NoTx, Tx
      <4>3. TypeOK'
        BY <2>2, <3>3, <4>2 DEF Reply, IInv, TypeOK
      <4>4. Request(r)' /\ ~tx'[r].wrote
        BY <4>1 DEF Request, NoTx
      <4>5. QED
        BY <4>1, <4>3, <4>4, LocalStep
    <3>4. QED
      BY <3>2, <3>3
  <2>3. QED
    BY <1>4, <2>1, <2>2 DEF Abort
<1>5. ASSUME NEW r \in Requests,
             Admit(r) \/ Handle(r) \/ HandleBecome(r) \/ Write(r) \/ Respond(r)
      PROVE  IInv' /\ profile' = profile
  <2>1. profile' = profile
    BY <1>5 DEF Admit, Handle, HandleBecome, Write, Respond, Goto, Reply
  <2>2. QED
    BY <1>5, <2>1, AdmitIInv, HandleIInv, HandleBecomeIInv, WriteIInv, RespondIInv
<1>6. ASSUME NEW u \in Users, Outside(u) PROVE IInv' /\ profile' = profile
  BY <1>6, AccountStep DEF Outside, Logout, Relink, EndSessions, Verify, Disable
<1>7. QED
  BY <1>1, <1>2, <1>3, <1>4, <1>5, <1>6, CommitIInv DEF Next, Become, Outside

LEMMA IInvHolds == Spec => []IInv
<1>1. QED
  BY InitIInv, Step, PTL DEF Spec

(* Every reachable state of the guarded routes is well typed.              *)
THEOREM TypeCorrect == Spec => []TypeOK
<1>1. IInv => TypeOK
  BY DEF IInv
<1>2. QED
  BY <1>1, IInvHolds, PTL

(* A guarded route answers 200 only to a session of a version that its     *)
(* user had at some moment between the request's arrival and the           *)
(* middleware's look, of a verified account that was active at the         *)
(* arrival, and a staff route only to staff: for any number of users and   *)
(* requests, and of logouts that overlap in any way.                       *)
THEOREM OnlyTheEntitledAreServed == Spec => []OnlyEntitledServed
<1>1. IInv => OnlyEntitledServed
  BY DEF IInv
<1>2. QED
  BY <1>1, IInvHolds, PTL

(* The flag and the profile come and stay together.                        *)
THEOREM FlagAndProfileAgree == Spec => []FlagMatchesProfile
<1>1. IInv => FlagMatchesProfile
  BY DEF IInv
<1>2. QED
  BY <1>1, IInvHolds, PTL

(* No second wizard overwrites the first one's profile.                    *)
THEOREM FirstWizardWins == Spec => ProfileWrittenOnce
<1>1. IInv /\ [Next]_vars => [\A u \in Users : profile[u] # None => profile'[u] = profile[u]]_vars
  BY Step
<1>2. QED
  BY <1>1, IInvHolds, PTL DEF Spec, ProfileWrittenOnce
=============================================================================
