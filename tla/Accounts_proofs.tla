--------------------------- MODULE Accounts_proofs ---------------------------
(***************************************************************************)
(* Proofs about Accounts, for every number of rows, addresses, Google      *)
(* accounts and concurrent requests, and with no request kept apart from   *)
(* any other: the unique indexes alone keep accounts apart, and a handler  *)
(* that writes long after it looked undoes nothing.                        *)
(***************************************************************************)
EXTENDS Accounts, TLAPS

Doing(r, op)  == pc[r] = op \/ tx[r].op = op
Inserting(r)  == Doing(r, "insert")
SetsGoogle(r) == tx[r].op \in {"insert", "relink", "link"}

(* What a request may rely on until its commit.  Its row exists, with the  *)
(* role it has had from the start; one it found verified still is.         *)
Sound(r) ==
    /\ tx[r].op # "none" => pc[r] = "commit"
    /\ pc[r] = "commit" => tx[r].op # "none"
    /\ pc[r] \in {"google", "email"} =>
           tx[r].user = None \/ (tx[r].kind = "link" /\ tx[r].user \in Accounts)
    /\ pc[r] = "email" =>
           /\ tx[r].email \in Emails
           /\ tx[r].kind \in {"signup", "social", "seed"}
           /\ tx[r].kind = "social" <=> tx[r].google # None
    /\ pc[r] = "google" =>
           /\ tx[r].kind \in {"social", "link"}
           /\ tx[r].email \in Emails /\ tx[r].google \in GoogleIds
           /\ tx[r].kind = "link" =>
                  /\ tx[r].user \in Accounts /\ users[tx[r].user].verified
                  /\ tx[r].saw \in Row
           /\ tx[r].kind = "social" => tx[r].user = None
    /\ Inserting(r) =>
           /\ tx[r].user \in Users \ Accounts /\ tx[r].email \in Emails
           /\ tx[r].kind \in {"signup", "social", "seed"}
           /\ tx[r].kind = "social" <=> tx[r].google # None
    /\ Doing(r, "relink") =>
           /\ tx[r].user \in Accounts /\ users[tx[r].user].role = "USER"
           /\ tx[r].google \in GoogleIds
           /\ tx[r].saw \in Row /\ tx[r].saw.google = None
    /\ Doing(r, "link") =>
           /\ tx[r].user \in Accounts /\ users[tx[r].user].verified
           /\ tx[r].google \in GoogleIds
           /\ tx[r].saw \in Row /\ tx[r].saw.google = None
    /\ Doing(r, "verify") => tx[r].user \in Accounts
    /\ pc[r] = "idle" => tx[r].user = None

(* What the unique indexes hold of an uncommitted write: no committed row  *)
(* has its keys, and no other uncommitted one.                             *)
Claims(r) ==
    /\ tx[r].op = "insert" => ByEmail(tx[r].email) = {}
    /\ SetsGoogle(r) /\ tx[r].google # None => ByGoogle(tx[r].google) \subseteq {tx[r].user}

Apart(r, s) ==
    /\ Inserting(r) => tx[s].user # tx[r].user
    /\ tx[r].op = "insert" /\ tx[s].op = "insert" => tx[r].email # tx[s].email
    /\ SetsGoogle(r) /\ SetsGoogle(s) /\ tx[r].google # None => tx[r].google # tx[s].google

(* The relinking path only takes unverified accounts; staff have none.     *)
StaffVerified == \A u \in Accounts : users[u].role = "SUPER_ADMIN" => users[u].verified

IInv ==
    /\ TypeOK
    /\ \A r \in Requests : Sound(r) /\ Claims(r)
    /\ \A r, s \in Requests : r # s => Apart(r, s)
    /\ UniqueAccounts /\ LinkedIsVerified /\ StaffKeepPassword /\ StaffVerified

LEMMA NoTxFacts ==
    /\ NoTx \in Tx /\ NoTx.kind = "none" /\ NoTx.op = "none" /\ NoTx.user = None
    /\ NoTx.google = None /\ NoTx.saw = None
<1>1. QED
  BY DEF NoTx, Tx

LEMMA InitIInv == Init => IInv
<1>1. SUFFICES ASSUME Init PROVE IInv
  OBVIOUS
<1>2. TypeOK
  BY <1>1, NoTxFacts DEF Init, TypeOK, PCs
<1>3. Accounts = {}
  BY <1>1 DEF Init, Accounts
<1>4. \A r \in Requests : pc[r] = "idle" /\ tx[r] = NoTx
  BY <1>1 DEF Init
<1>5. \A r \in Requests : Sound(r) /\ Claims(r)
  BY <1>4, NoTxFacts DEF Sound, Claims, Doing, Inserting, SetsGoogle
<1>6. \A r, s \in Requests : Apart(r, s)
  BY <1>4, NoTxFacts DEF Apart, Doing, Inserting, SetsGoogle
<1>7. QED
  BY <1>2, <1>3, <1>5, <1>6
     DEF IInv, UniqueAccounts, LinkedIsVerified, StaffKeepPassword, StaffVerified

(***************************************************************************)
(* Steps that commit nothing                                               *)
(***************************************************************************)

(* Only the request that moves is to be looked at again.                   *)
LEMMA MoveStep ==
    ASSUME IInv, NEW r \in Requests, NEW p \in PCs, NEW t \in Tx,
           pc' = [pc EXCEPT ![r] = p], tx' = [tx EXCEPT ![r] = t], UNCHANGED users,
           Sound(r)', Claims(r)',
           \A s \in Requests \ {r} : Apart(r, s)' /\ Apart(s, r)'
    PROVE  IInv'
<1>1. TypeOK'
  BY DEF IInv, TypeOK
<1>2. \A s \in Requests \ {r} : pc'[s] = pc[s] /\ tx'[s] = tx[s]
  BY DEF IInv, TypeOK
<1>3. Accounts' = Accounts
  BY DEF Accounts
<1>4. \A e : ByEmail(e)' = ByEmail(e)
  BY <1>3 DEF ByEmail
<1>5. \A g : ByGoogle(g)' = ByGoogle(g)
  BY <1>3 DEF ByGoogle
<1>6. ASSUME NEW s \in Requests PROVE Sound(s)' /\ Claims(s)'
  <2>1. CASE s = r
    BY <2>1
  <2>2. CASE s # r
    <3>1. Sound(s) /\ Claims(s) /\ pc'[s] = pc[s] /\ tx'[s] = tx[s]
      BY <1>2, <2>2 DEF IInv
    <3>2. Sound(s)'
      BY <1>3, <3>1 DEF Sound, Doing, Inserting
    <3>3. Claims(s)'
      BY <1>4, <1>5, <3>1 DEF Claims, SetsGoogle
    <3>4. QED
      BY <3>2, <3>3
  <2>3. QED
    BY <2>1, <2>2
<1>7. ASSUME NEW q \in Requests, NEW s \in Requests, q # s PROVE Apart(q, s)'
  <2>1. CASE q = r \/ s = r
    BY <1>7, <2>1
  <2>2. CASE q # r /\ s # r
    BY <1>2, <1>7, <2>2 DEF IInv, Apart, Doing, Inserting, SetsGoogle
  <2>3. QED
    BY <2>1, <2>2
<1>8. (UniqueAccounts /\ LinkedIsVerified /\ StaffKeepPassword /\ StaffVerified)'
  BY <1>3 DEF IInv, UniqueAccounts, LinkedIsVerified, StaffKeepPassword, StaffVerified
<1>9. QED
  BY <1>1, <1>6, <1>7, <1>8 DEF IInv

(* A step after which the request has written nothing and is not about to  *)
(* insert.                                                                 *)
LEMMA QuietMove ==
    ASSUME IInv, NEW r \in Requests, NEW p \in PCs \ {"insert", "commit"}, NEW t \in Tx,
           pc' = [pc EXCEPT ![r] = p], tx' = [tx EXCEPT ![r] = t], UNCHANGED users,
           t.op = "none", t.user \in Accounts \cup {None}, Sound(r)'
    PROVE  IInv'
<1>1. pc'[r] = p /\ tx'[r] = t /\ \A s \in Requests \ {r} : pc'[s] = pc[s] /\ tx'[s] = tx[s]
  BY DEF IInv, TypeOK
<1>2. Claims(r)'
  BY <1>1 DEF Claims, SetsGoogle
<1>3. ASSUME NEW s \in Requests \ {r} PROVE Apart(r, s)' /\ Apart(s, r)'
  <2>1. Inserting(s) => tx[s].user \in Users \ Accounts
    BY DEF IInv, Sound
  <2>2. Inserting(s) => tx[s].user # t.user
    BY <2>1, ConstantsOK
  <2>3. Apart(r, s)'
    BY <1>1 DEF Apart, Doing, Inserting, SetsGoogle
  <2>4. Apart(s, r)'
    BY <1>1, <2>2 DEF Apart, Doing, Inserting, SetsGoogle
  <2>5. QED
    BY <2>3, <2>4
<1>4. QED
  BY <1>2, <1>3, MoveStep

(* The end of a transaction with nothing of it committed.                  *)
LEMMA FinishIInv ==
    ASSUME IInv, NEW r \in Requests, Finish(r)
    PROVE  IInv'
<1>1. pc'[r] = "idle" /\ tx'[r] = NoTx
  BY DEF Finish, IInv, TypeOK
<1>2. Sound(r)'
  BY <1>1, NoTxFacts DEF Sound, Doing, Inserting
<1>3. QED
  BY <1>2, NoTxFacts, QuietMove DEF Finish, PCs

LEMMA BeginIInv ==
    ASSUME IInv, NEW r \in Requests, Begin(r)
    PROVE  IInv'
<1>1. ASSUME NEW e \in Emails, NEW kind \in {"signup", "seed"},
             pc' = [pc EXCEPT ![r] = "email"], UNCHANGED users,
             tx' = [tx EXCEPT ![r] = [NoTx EXCEPT !.kind = kind, !.email = e]]
      PROVE  IInv'
  <2> DEFINE t == [NoTx EXCEPT !.kind = kind, !.email = e]
  <2>1. /\ t \in Tx /\ t.op = "none" /\ t.user = None /\ t.google = None
        /\ t.kind = kind /\ t.email = e
    BY NoTxFacts DEF NoTx, Tx
  <2>2. pc'[r] = "email" /\ tx'[r] = t
    BY <1>1 DEF IInv, TypeOK
  <2> HIDE DEF t
  <2>3. Sound(r)'
    BY <2>1, <2>2 DEF Sound, Doing, Inserting
  <2>4. tx' = [tx EXCEPT ![r] = t]
    BY <1>1 DEF t
  <2>5. QED
    BY <1>1, <2>1, <2>3, <2>4, QuietMove DEF PCs
<1>2. ASSUME NEW g \in GoogleTokens, BeginSocial(r, g) PROVE IInv'
  <2> DEFINE t == [NoTx EXCEPT !.kind = "social", !.google = g[1], !.email = g[2]]
  <2>1. g[1] \in GoogleIds /\ g[2] \in Emails
    BY ConstantsOK
  <2>2. /\ t \in Tx /\ t.op = "none" /\ t.user = None /\ t.google = g[1]
        /\ t.kind = "social" /\ t.email = g[2]
    BY <2>1 DEF NoTx, Tx
  <2>3. pc' = [pc EXCEPT ![r] = "google"] /\ tx' = [tx EXCEPT ![r] = t] /\ UNCHANGED users
    BY <1>2 DEF BeginSocial, Goto
  <2> HIDE DEF t
  <2>4. pc'[r] = "google" /\ tx'[r] = t
    BY <2>3 DEF IInv, TypeOK
  <2>5. Sound(r)'
    BY <2>1, <2>2, <2>4 DEF Sound, Doing, Inserting
  <2>6. QED
    BY <2>2, <2>3, <2>5, QuietMove DEF PCs
<1>3. ASSUME NEW u \in Users, NEW g \in GoogleTokens, BeginLink(r, u, g) PROVE IInv'
  <2> DEFINE t == [NoTx EXCEPT !.kind = "link", !.google = g[1], !.email = g[2],
                               !.user = u, !.saw = users[u]]
  <2>1. /\ g[1] \in GoogleIds /\ g[2] \in Emails
        /\ u \in Accounts /\ users[u].verified /\ users[u] \in Row
    BY <1>3, ConstantsOK DEF BeginLink, Accounts, IInv, TypeOK
  <2>2. /\ t \in Tx /\ t.op = "none" /\ t.user = u /\ t.google = g[1]
        /\ t.kind = "link" /\ t.email = g[2] /\ t.saw = users[u]
    BY <2>1 DEF NoTx, Tx
  <2>3. pc' = [pc EXCEPT ![r] = "google"] /\ tx' = [tx EXCEPT ![r] = t] /\ users' = users
    BY <1>3 DEF BeginLink, Goto
  <2> HIDE DEF t
  <2>4. pc'[r] = "google" /\ tx'[r] = t /\ Accounts' = Accounts
    BY <2>3 DEF IInv, TypeOK, Accounts
  <2>5. Sound(r)'
    BY <2>1, <2>2, <2>3, <2>4 DEF Sound, Doing, Inserting
  <2>6. QED
    BY <2>1, <2>2, <2>3, <2>5, QuietMove DEF PCs
<1>4. ASSUME NEW u \in Users, BeginVerify(r, u) PROVE IInv'
  <2> DEFINE t == [NoTx EXCEPT !.kind = "verify", !.user = u, !.saw = users[u]]
  <2>1. u \in Accounts /\ users[u] \in Row
    BY <1>4 DEF BeginVerify, Accounts, IInv, TypeOK
  <2>2. t \in Tx /\ t.op = "none" /\ t.user = u
    BY <2>1 DEF NoTx, Tx
  <2>3. pc' = [pc EXCEPT ![r] = "verify"] /\ tx' = [tx EXCEPT ![r] = t] /\ users' = users
    BY <1>4 DEF BeginVerify, Goto
  <2> HIDE DEF t
  <2>4. pc'[r] = "verify" /\ tx'[r] = t /\ Accounts' = Accounts
    BY <2>3 DEF IInv, TypeOK, Accounts
  <2>5. Sound(r)'
    BY <2>1, <2>2, <2>4 DEF Sound, Doing, Inserting
  <2>6. QED
    BY <2>1, <2>2, <2>3, <2>5, QuietMove DEF PCs
<1>5. ASSUME NEW e \in Emails, BeginSignup(r, e) PROVE IInv'
  BY <1>1, <1>5 DEF BeginSignup, Goto
<1>6. CASE BeginSeed(r)
  BY <1>1, <1>6, ConstantsOK DEF BeginSeed, Goto
<1>7. QED
  BY <1>2, <1>3, <1>4, <1>5, <1>6 DEF Begin

(* The handler goes on with what it has.                                   *)
LEMMA GotoIInv ==
    ASSUME IInv, NEW r \in Requests, SocialUnknown(r) \/ LinkChecked(r)
    PROVE  IInv'
<1>1. /\ pc[r] = "google" /\ Sound(r) /\ tx[r] \in Tx
      /\ tx' = tx /\ users' = users /\ tx = [tx EXCEPT ![r] = tx[r]]
  BY DEF SocialUnknown, LinkChecked, Goto, IInv, TypeOK
<1>2. /\ Accounts' = Accounts /\ tx[r].op = "none"
      /\ tx[r].user \in Accounts \cup {None}
  BY <1>1 DEF Accounts, Sound, Tx
<1>3. CASE SocialUnknown(r)
  <2>1. pc' = [pc EXCEPT ![r] = "email"] /\ pc'[r] = "email" /\ tx[r].kind = "social"
    BY <1>3 DEF SocialUnknown, Goto, IInv, TypeOK
  <2>2. tx[r].google # None
    BY <1>1, <2>1, ConstantsOK DEF Sound
  <2>3. Sound(r)'
    BY <1>1, <1>2, <2>1, <2>2 DEF Sound, Doing, Inserting
  <2>4. QED
    BY <1>1, <1>2, <2>1, <2>3, QuietMove DEF PCs
<1>4. CASE LinkChecked(r)
  <2>1. /\ pc' = [pc EXCEPT ![r] = "link"] /\ pc'[r] = "link" /\ tx[r].kind = "link"
        /\ tx[r].saw.google = None
    BY <1>4 DEF LinkChecked, Goto, IInv, TypeOK
  <2>2. Sound(r)'
    BY <1>1, <1>2, <2>1 DEF Sound, Doing, Inserting
  <2>3. QED
    BY <1>1, <1>2, <2>1, <2>2, QuietMove DEF PCs
<1>5. QED
  BY <1>3, <1>4

LEMMA EmailNewIInv ==
    ASSUME IInv, NEW r \in Requests, NEW u \in Users, EmailNew(r, u)
    PROVE  IInv'
<1> DEFINE t == [tx[r] EXCEPT !.user = u]
<1>1. /\ pc[r] = "email" /\ Sound(r) /\ tx[r] \in Tx /\ tx[r].op = "none"
      /\ u \notin Accounts /\ \A s \in Requests : tx[s].user # u
      /\ pc' = [pc EXCEPT ![r] = "insert"] /\ tx' = [tx EXCEPT ![r] = t] /\ users' = users
  BY DEF EmailNew, Fresh, Goto, IInv, TypeOK, Accounts, Sound, Tx
<1>2. /\ t \in Tx /\ t.user = u /\ t.op = "none" /\ t.email = tx[r].email
      /\ t.kind = tx[r].kind /\ t.google = tx[r].google
  BY <1>1 DEF Tx
<1> HIDE DEF t
<1>3. /\ pc'[r] = "insert" /\ tx'[r] = t /\ Accounts' = Accounts
      /\ \A s \in Requests \ {r} : pc'[s] = pc[s] /\ tx'[s] = tx[s]
  BY <1>1 DEF IInv, TypeOK, Accounts
<1>4. Sound(r)'
  BY <1>1, <1>2, <1>3 DEF Sound, Doing, Inserting
<1>5. Claims(r)'
  BY <1>2, <1>3 DEF Claims, SetsGoogle
<1>6. ASSUME NEW s \in Requests \ {r} PROVE Apart(r, s)' /\ Apart(s, r)'
  BY <1>1, <1>2, <1>3 DEF Apart, Doing, Inserting, SetsGoogle
<1>7. QED
  BY <1>1, <1>2, <1>4, <1>5, <1>6, MoveStep DEF PCs

LEMMA EmailRelinkIInv ==
    ASSUME IInv, NEW r \in Requests, EmailRelink(r)
    PROVE  IInv'
<1>1. PICK u \in ByEmail(tx[r].email) :
          /\ pc[r] = "email" /\ MayRelink(r, users[u])
          /\ tx' = [tx EXCEPT ![r] = [@ EXCEPT !.user = u, !.saw = users[u]]]
          /\ Goto(r, "relink")
  BY DEF EmailRelink
<1> DEFINE t == [tx[r] EXCEPT !.user = u, !.saw = users[u]]
<1>2. u \in Accounts /\ users[u] \in Row /\ tx[r] \in Tx /\ Sound(r)
  BY <1>1 DEF ByEmail, Accounts, IInv, TypeOK
<1>3. users[u].role = "USER" /\ users[u].google = None
  BY <1>1, <1>2 DEF MayRelink, IInv, StaffVerified, LinkedIsVerified, Row
<1>4. tx[r].google \in GoogleIds /\ tx[r].op = "none"
  BY <1>1, <1>2 DEF MayRelink, Sound, Tx
<1>5. /\ t \in Tx /\ t.user = u /\ t.saw = users[u] /\ t.op = "none"
      /\ t.google = tx[r].google
  BY <1>2, <1>4 DEF Tx, Accounts
<1>6. pc' = [pc EXCEPT ![r] = "relink"] /\ tx' = [tx EXCEPT ![r] = t] /\ users' = users
  BY <1>1 DEF Goto
<1> HIDE DEF t
<1>7. pc'[r] = "relink" /\ tx'[r] = t /\ Accounts' = Accounts
  BY <1>6 DEF IInv, TypeOK, Accounts
<1>8. Sound(r)'
  BY <1>2, <1>3, <1>4, <1>5, <1>6, <1>7 DEF Sound, Doing, Inserting
<1>9. QED
  BY <1>2, <1>5, <1>6, <1>8, QuietMove DEF PCs

(* The statement waited for every writer of its keys, and the indexes did  *)
(* not refuse it.                                                          *)
LEMMA WriteIInv ==
    ASSUME IInv, NEW r \in Requests, Write(r)
    PROVE  IInv'
<1> DEFINE t == [tx[r] EXCEPT !.op = pc[r]]
<1>1. /\ pc[r] \in {"insert", "relink", "link", "verify"} /\ Sound(r) /\ tx[r] \in Tx
      /\ ~MustWait(r) /\ ~Duplicate(r)
      /\ pc' = [pc EXCEPT ![r] = "commit"] /\ tx' = [tx EXCEPT ![r] = t] /\ users' = users
  BY DEF Write, Goto, IInv, TypeOK
<1>2. tx[r].op = "none"
  BY <1>1 DEF Sound, Tx
<1>3. /\ t \in Tx /\ t.op = pc[r] /\ t.user = tx[r].user /\ t.email = tx[r].email
      /\ t.kind = tx[r].kind /\ t.google = tx[r].google /\ t.saw = tx[r].saw
  BY <1>1 DEF Tx
<1> HIDE DEF t
<1>4. /\ pc'[r] = "commit" /\ tx'[r] = t /\ Accounts' = Accounts
      /\ \A s \in Requests \ {r} : pc'[s] = pc[s] /\ tx'[s] = tx[s]
  BY <1>1 DEF IInv, TypeOK, Accounts
<1>5. Sound(r)'
  BY <1>1, <1>2, <1>3, <1>4 DEF Sound, Doing, Inserting
<1>6. Claims(r)'
  <2>1. pc[r] = "insert" => ByEmail(tx[r].email) = {}
    BY <1>1 DEF Duplicate
  <2>2. pc[r] \in {"insert", "relink", "link"} /\ tx[r].google # None =>
            ByGoogle(tx[r].google) \subseteq {tx[r].user}
    BY <1>1 DEF Duplicate
  <2>3. \A e : ByEmail(e)' = ByEmail(e)
    BY <1>1, <1>4 DEF ByEmail
  <2>4. \A g : ByGoogle(g)' = ByGoogle(g)
    BY <1>1, <1>4 DEF ByGoogle
  <2>5. QED
    BY <1>3, <1>4, <2>1, <2>2, <2>3, <2>4 DEF Claims, SetsGoogle
<1>7. ASSUME NEW s \in Requests \ {r} PROVE Apart(r, s)' /\ Apart(s, r)'
  <2>1. Apart(r, s) /\ Apart(s, r)
    BY DEF IInv
  <2>2. pc[r] = "insert" /\ tx[s].op = "insert" => tx[r].email # tx[s].email
    BY <1>1 DEF MustWait, ClaimsEmail
  <2>3. pc[r] \in {"insert", "relink", "link"} /\ tx[r].google # None /\ SetsGoogle(s) =>
            tx[r].google # tx[s].google
    BY <1>1 DEF MustWait, ClaimsGoogle, SetsGoogle
  <2>4. QED
    BY <1>3, <1>4, <2>1, <2>2, <2>3 DEF Apart, Doing, Inserting, SetsGoogle
<1>8. QED
  BY <1>1, <1>3, <1>5, <1>6, <1>7, MoveStep DEF PCs

(***************************************************************************)
(* Steps that commit                                                       *)
(***************************************************************************)

(* What a commit may do to the row it writes, whatever was committed since *)
(* the handler loaded it.                                                  *)
Improves(old, new) ==
    /\ new.email = old.email /\ new.role = old.role /\ new.active = old.active
    /\ ~old.verified \/ new.verified

LEMMA CreatedFacts ==
    ASSUME IInv, NEW r \in Requests, tx[r].op = "insert"
    PROVE  LET w == Written(r, users[tx[r].user])
           IN  /\ w \in Row /\ w.email = tx[r].email /\ w.google = tx[r].google
               /\ w.google # None => w.verified
               /\ w.role = "SUPER_ADMIN" => w.password /\ w.verified
<1>1. /\ Inserting(r) /\ Sound(r) /\ tx[r] \in Tx
  BY DEF IInv, TypeOK, Inserting, Doing
<1>2. tx[r].kind \in {"signup", "social", "seed"} /\ tx[r].email \in Emails
      /\ (tx[r].kind = "social" <=> tx[r].google # None)
      /\ tx[r].google \in GoogleIds \cup {None}
  BY <1>1 DEF Sound, Tx
<1>3. Written(r, users[tx[r].user]) = Created(r)
  BY DEF Written
<1>4. /\ Created(r).email = tx[r].email /\ Created(r).google = tx[r].google
      /\ Created(r).verified = (tx[r].kind # "signup")
      /\ Created(r).role = IF tx[r].kind = "seed" THEN "SUPER_ADMIN" ELSE "USER"
      /\ Created(r).password = (tx[r].kind = "seed")
  BY DEF Created
<1>5. Created(r) \in Row
  BY <1>2 DEF Created, Row
<1>6. QED
  BY <1>2, <1>3, <1>4, <1>5

LEMMA UpdatedFacts ==
    ASSUME IInv, NEW r \in Requests, tx[r].op \in {"relink", "link", "verify"}
    PROVE  LET old == users[tx[r].user]
               w   == Written(r, old)
           IN  /\ tx[r].user \in Accounts /\ w \in Row /\ Improves(old, w)
               /\ w.google = IF tx[r].op = "verify" THEN old.google ELSE tx[r].google
               /\ tx[r].op \in {"relink", "link"} => w.verified /\ tx[r].saw.google = None
               /\ w.password = (old.password /\ tx[r].op # "relink")
               /\ tx[r].op = "relink" => old.role = "USER"
<1> DEFINE old == users[tx[r].user]
           w   == Written(r, old)
<1>1. Sound(r) /\ tx[r] \in Tx
  BY DEF IInv, TypeOK
<1>2. tx[r].user \in Accounts
  BY <1>1 DEF Sound, Doing
<1>3. old \in Row
  BY <1>2 DEF Accounts, IInv, TypeOK
<1>4. CASE tx[r].op = "relink"
  <2>1. /\ tx[r].google \in GoogleIds /\ tx[r].saw \in Row /\ tx[r].saw.google = None
        /\ old.role = "USER"
    BY <1>1, <1>4 DEF Sound, Doing
  <2>2. w = [old EXCEPT !.google = tx[r].google, !.verified = TRUE, !.password = FALSE,
                        !.version = tx[r].saw.version + 1]
    BY <1>4 DEF Written, Relinked
  <2>3. tx[r].saw.version + 1 \in Nat
    BY <2>1 DEF Row
  <2>4. w \in Row
    BY <1>3, <2>1, <2>2, <2>3 DEF Row
  <2>5. QED
    BY <1>2, <1>3, <1>4, <2>1, <2>2, <2>4 DEF Row, Improves
<1>5. CASE tx[r].op = "link"
  <2>1. tx[r].google \in GoogleIds /\ tx[r].saw.google = None /\ old.verified
    BY <1>1, <1>5 DEF Sound, Doing
  <2>2. w = [old EXCEPT !.google = tx[r].google]
    BY <1>5 DEF Written
  <2>3. QED
    BY <1>2, <1>3, <1>5, <2>1, <2>2 DEF Row, Improves
<1>6. CASE tx[r].op = "verify"
  <2>1. w = [old EXCEPT !.verified = TRUE]
    BY <1>6 DEF Written
  <2>2. QED
    BY <1>2, <1>3, <1>6, <2>1 DEF Row, Improves
<1>7. QED
  BY <1>4, <1>5, <1>6

LEMMA CommitIInv ==
    ASSUME IInv, NEW r \in Requests, Commit(r)
    PROVE  IInv'
<1> DEFINE u == tx[r].user
           w == Written(r, users[u])
<1>1. /\ Sound(r) /\ Claims(r) /\ tx[r] \in Tx /\ tx[r].op # "none"
      /\ tx[r].op = "insert" \/ tx[r].op \in {"relink", "link", "verify"}
  BY DEF Commit, IInv, TypeOK, Sound, Tx
<1>2. u \in Users /\ w \in Row
  <2>1. CASE tx[r].op = "insert"
    BY <1>1, <2>1, CreatedFacts DEF Sound, Inserting, Doing
  <2>2. CASE tx[r].op \in {"relink", "link", "verify"}
    BY <2>2, UpdatedFacts DEF Accounts
  <2>3. QED
    BY <1>1, <2>1, <2>2
<1>3. /\ users' = [users EXCEPT ![u] = w]
      /\ pc' = [pc EXCEPT ![r] = "idle"] /\ tx' = [tx EXCEPT ![r] = NoTx]
  BY DEF Commit
<1>4. /\ users'[u] = w /\ \A v \in Users \ {u} : users'[v] = users[v]
      /\ pc'[r] = "idle" /\ tx'[r] = NoTx
      /\ \A s \in Requests \ {r} : pc'[s] = pc[s] /\ tx'[s] = tx[s]
  BY <1>2, <1>3 DEF IInv, TypeOK
<1> HIDE DEF w
<1>5. Accounts' = Accounts \cup {u}
  BY <1>2, <1>4, ConstantsOK DEF Accounts
<1>6. TypeOK'
  BY <1>2, <1>3, NoTxFacts DEF IInv, TypeOK, PCs
<1>7. tx[r].op = "insert" => u \notin Accounts
  BY <1>1 DEF Sound, Inserting, Doing
<1>8. u \in Accounts => Improves(users[u], w)
  BY <1>1, <1>7, UpdatedFacts DEF w
<1>9. \A v \in Accounts : users'[v].role = users[v].role /\ users'[v].email = users[v].email
                         /\ (~users[v].verified \/ users'[v].verified)
  <2>1. SUFFICES ASSUME NEW v \in Accounts
                 PROVE  /\ users'[v].role = users[v].role /\ users'[v].email = users[v].email
                        /\ (~users[v].verified \/ users'[v].verified)
    OBVIOUS
  <2>2. CASE v = u
    BY <1>4, <1>8, <2>2 DEF Improves
  <2>3. CASE v # u
    <3>1. users[v] \in Row /\ users'[v] = users[v]
      BY <1>4, <2>3 DEF Accounts, IInv, TypeOK
    <3>2. QED
      BY <3>1 DEF Row
  <2>4. QED
    BY <2>2, <2>3
(* The keys of the row as committed.                                       *)
<1>10. \A e : u \in Accounts \/ tx[r].email # e => ByEmail(e)' = ByEmail(e)
  <2>1. u \in Accounts => w.email = users[u].email
    BY <1>8 DEF Improves
  <2>2. u \notin Accounts => w.email = tx[r].email
    BY <1>1, CreatedFacts, UpdatedFacts DEF w
  <2>3. \A v \in Accounts : v \in Users
    BY DEF Accounts
  <2>4. QED
    BY <1>2, <1>4, <1>5, <2>1, <2>2, <2>3 DEF ByEmail
<1>11. \A g : (SetsGoogle(r) /\ tx[r].google = g) \/ ByGoogle(g)' \subseteq ByGoogle(g)
  <2>1. SetsGoogle(r) => w.google = tx[r].google
    BY <1>1, CreatedFacts, UpdatedFacts DEF SetsGoogle, w
  <2>2. ~SetsGoogle(r) => u \in Accounts /\ w.google = users[u].google
    BY <1>1, UpdatedFacts DEF SetsGoogle, w
  <2>3. \A v \in Accounts : v \in Users
    BY DEF Accounts
  <2>4. QED
    BY <1>2, <1>4, <1>5, <2>1, <2>2, <2>3 DEF ByGoogle
<1>12. ASSUME NEW s \in Requests \ {r} PROVE Sound(s)' /\ Claims(s)'
  <2>1. /\ Sound(s) /\ Claims(s) /\ Apart(s, r) /\ Apart(r, s)
        /\ pc'[s] = pc[s] /\ tx'[s] = tx[s]
    BY <1>4 DEF IInv
  <2>2. Inserting(s) => tx[s].user \in Users \ Accounts /\ tx[s].user # u
    BY <2>1 DEF Sound, Apart
  <2>3. Sound(s)'
    BY <1>5, <1>9, <2>1, <2>2 DEF Sound, Doing, Inserting
  <2>4. tx[s].op = "insert" => ByEmail(tx[s].email)' = ByEmail(tx[s].email)
    BY <1>1, <1>10, <2>1, UpdatedFacts DEF Apart
  <2>5. SetsGoogle(s) /\ tx[s].google # None =>
            ByGoogle(tx[s].google)' \subseteq ByGoogle(tx[s].google)
    BY <1>11, <2>1 DEF Apart
  <2>6. Claims(s)'
    <3>1. tx[s].op = "insert" => ByEmail(tx[s].email)' = {}
      BY <2>1, <2>4 DEF Claims
    <3>2. SetsGoogle(s) /\ tx[s].google # None => ByGoogle(tx[s].google)' \subseteq {tx[s].user}
      BY <2>1, <2>5 DEF Claims
    <3>3. QED
      BY <2>1, <3>1, <3>2 DEF Claims, SetsGoogle, ByEmail, ByGoogle
  <2>7. QED
    BY <2>3, <2>6
<1>13. Sound(r)' /\ Claims(r)'
  BY <1>4, NoTxFacts DEF Sound, Claims, Doing, Inserting, SetsGoogle
<1>14. ASSUME NEW q \in Requests, NEW s \in Requests, q # s PROVE Apart(q, s)'
  <2>1. CASE q = r
    BY <1>4, <2>1, NoTxFacts DEF Apart, Doing, Inserting, SetsGoogle
  <2>2. CASE s = r
    <3>1. Inserting(q) => tx[q].user \in Users
      BY DEF IInv, Sound
    <3>2. QED
      BY <1>4, <1>14, <2>2, <3>1, NoTxFacts, ConstantsOK DEF Apart, Doing, Inserting, SetsGoogle
  <2>3. CASE q # r /\ s # r
    BY <1>4, <1>14, <2>3 DEF IInv, Apart, Doing, Inserting, SetsGoogle
  <2>4. QED
    BY <2>1, <2>2, <2>3
<1>15. UniqueAccounts'
  <2>1. ASSUME NEW v \in Accounts, v # u
        PROVE  /\ users[v].email # w.email
               /\ w.google = None \/ w.google # users[v].google
    <3>1. CASE tx[r].op = "insert"
      <4>1. ByEmail(tx[r].email) = {} /\ w.email = tx[r].email /\ w.google = tx[r].google
        BY <1>1, <3>1, CreatedFacts DEF Claims, w
      <4>2. tx[r].google # None => ByGoogle(tx[r].google) \subseteq {u}
        BY <1>1, <3>1 DEF Claims, SetsGoogle
      <4>3. QED
        BY <2>1, <4>1, <4>2 DEF ByEmail, ByGoogle
    <3>2. CASE tx[r].op \in {"relink", "link"}
      <4>1. u \in Accounts /\ w.email = users[u].email /\ w.google = tx[r].google
        BY <3>2, UpdatedFacts DEF Improves, w
      <4>2. tx[r].google # None => ByGoogle(tx[r].google) \subseteq {u}
        BY <1>1, <3>2 DEF Claims, SetsGoogle
      <4>3. QED
        BY <2>1, <4>1, <4>2 DEF ByGoogle, IInv, UniqueAccounts
    <3>3. CASE tx[r].op = "verify"
      <4>1. u \in Accounts /\ w.email = users[u].email /\ w.google = users[u].google
        BY <3>3, UpdatedFacts DEF Improves, w
      <4>2. QED
        BY <2>1, <4>1 DEF IInv, UniqueAccounts
    <3>4. QED
      BY <1>1, <3>1, <3>2, <3>3
  <2>2. ASSUME NEW v \in Accounts', NEW x \in Accounts', v # x
        PROVE  /\ users'[v].email # users'[x].email
               /\ users'[v].google = None \/ users'[v].google # users'[x].google
    <3>1. CASE v = u
      <4>1. x \in Accounts /\ users'[x] = users[x] /\ users'[v] = w
        BY <1>4, <1>5, <2>2, <3>1 DEF Accounts
      <4>2. QED
        BY <2>1, <2>2, <3>1, <4>1
    <3>2. CASE x = u
      <4>1. v \in Accounts /\ users'[v] = users[v] /\ users'[x] = w
        BY <1>4, <1>5, <2>2, <3>2 DEF Accounts
      <4>2. QED
        BY <2>1, <2>2, <3>2, <4>1
    <3>3. CASE v # u /\ x # u
      <4>1. /\ v \in Accounts /\ users'[v] = users[v]
            /\ x \in Accounts /\ users'[x] = users[x]
        BY <1>4, <1>5, <2>2, <3>3 DEF Accounts
      <4>2. QED
        BY <2>2, <4>1 DEF IInv, UniqueAccounts
    <3>4. QED
      BY <3>1, <3>2, <3>3
  <2>3. QED
    BY <2>2 DEF UniqueAccounts
<1>16. /\ w.google # None => w.verified
       /\ w.role = "SUPER_ADMIN" => w.password /\ w.verified
  <2>1. CASE tx[r].op = "insert"
    BY <2>1, CreatedFacts DEF w
  <2>2. CASE tx[r].op \in {"relink", "link", "verify"}
    <3>1. /\ u \in Accounts /\ Improves(users[u], w)
          /\ w.google = IF tx[r].op = "verify" THEN users[u].google ELSE tx[r].google
          /\ tx[r].op \in {"relink", "link"} => w.verified
          /\ w.password = (users[u].password /\ tx[r].op # "relink")
          /\ tx[r].op = "relink" => users[u].role = "USER"
      BY <2>2, UpdatedFacts DEF w
    <3>2. users[u].google # None => users[u].verified
      BY <3>1 DEF IInv, LinkedIsVerified
    <3>3. users[u].role = "SUPER_ADMIN" => users[u].password /\ users[u].verified
      BY <3>1 DEF IInv, StaffKeepPassword, StaffVerified
    <3>4. QED
      BY <2>2, <3>1, <3>2, <3>3 DEF Improves
  <2>3. QED
    BY <1>1, <2>1, <2>2
<1>17. LinkedIsVerified' /\ StaffKeepPassword' /\ StaffVerified'
  <2>1. ASSUME NEW v \in Accounts'
        PROVE  /\ users'[v].google # None => users'[v].verified
               /\ users'[v].role = "SUPER_ADMIN" => users'[v].password /\ users'[v].verified
    <3>1. CASE v = u
      BY <1>4, <1>16, <3>1
    <3>2. CASE v # u
      <4>1. v \in Accounts /\ users'[v] = users[v]
        BY <1>4, <1>5, <2>1, <3>2 DEF Accounts
      <4>2. QED
        BY <4>1 DEF IInv, LinkedIsVerified, StaffKeepPassword, StaffVerified
    <3>3. QED
      BY <3>1, <3>2
  <2>2. QED
    BY <2>1 DEF LinkedIsVerified, StaffKeepPassword, StaffVerified
<1>18. QED
  BY <1>6, <1>12, <1>13, <1>14, <1>15, <1>17 DEF IInv

LEMMA DisableIInv ==
    ASSUME IInv, NEW u \in Users, Disable(u)
    PROVE  IInv'
<1> DEFINE w == [users[u] EXCEPT !.active = FALSE]
<1>1. /\ u \in Accounts /\ users[u] \in Row /\ pc' = pc /\ tx' = tx
      /\ users' = [users EXCEPT ![u] = w]
  BY DEF Disable, Accounts, IInv, TypeOK
<1>2. /\ w \in Row /\ w.email = users[u].email /\ w.google = users[u].google
      /\ w.verified = users[u].verified /\ w.role = users[u].role
      /\ w.password = users[u].password
  BY <1>1 DEF Row
<1> HIDE DEF w
<1>3. users'[u] = w /\ \A v \in Users \ {u} : users'[v] = users[v]
  BY <1>1 DEF IInv, TypeOK
<1>4. Accounts' = Accounts
  BY <1>1, <1>2, <1>3, ConstantsOK DEF Accounts
<1>5. \A v \in Accounts :
          /\ users'[v].email = users[v].email /\ users'[v].google = users[v].google
          /\ users'[v].verified = users[v].verified /\ users'[v].role = users[v].role
          /\ users'[v].password = users[v].password
  BY <1>2, <1>3 DEF Accounts
<1>6. TypeOK'
  BY <1>1, <1>2 DEF IInv, TypeOK, Accounts
<1>7. \A e : ByEmail(e)' = ByEmail(e)
  BY <1>4, <1>5 DEF ByEmail
<1>8. \A g : ByGoogle(g)' = ByGoogle(g)
  BY <1>4, <1>5 DEF ByGoogle
<1>9. ASSUME NEW s \in Requests PROVE Sound(s)' /\ Claims(s)'
  <2>1. Sound(s) /\ Claims(s)
    BY DEF IInv
  <2>2. Sound(s)'
    BY <1>1, <1>4, <1>5, <2>1 DEF Sound, Doing, Inserting
  <2>3. Claims(s)'
    BY <1>1, <1>7, <1>8, <2>1 DEF Claims, SetsGoogle
  <2>4. QED
    BY <2>2, <2>3
<1>10. \A q, s \in Requests : q # s => Apart(q, s)'
  BY <1>1 DEF IInv, Apart, Doing, Inserting, SetsGoogle
<1>11. UniqueAccounts'
  BY <1>4, <1>5 DEF IInv, UniqueAccounts
<1>12. LinkedIsVerified'
  BY <1>4, <1>5 DEF IInv, LinkedIsVerified
<1>13. StaffKeepPassword' /\ StaffVerified'
  BY <1>4, <1>5 DEF IInv, StaffKeepPassword, StaffVerified
<1>14. QED
  BY <1>6, <1>9, <1>10, <1>11, <1>12, <1>13 DEF IInv

(* The action of NothingUndone.                                            *)
Keeps ==
    \A u \in Accounts :
        /\ users[u].google # None => users'[u].google # None
        /\ users[u].verified => users'[u].verified
        /\ ~users[u].active => ~users'[u].active

LEMMA CommitKeeps ==
    ASSUME IInv, NEW r \in Requests, Commit(r)
    PROVE  Keeps
<1>1. Sound(r) /\ tx[r] \in Tx /\ pc[r] = "commit" /\ tx[r].op # "none"
  BY DEF Commit, IInv, TypeOK, Sound
<1>2. SUFFICES ASSUME NEW u \in Accounts
               PROVE  /\ users[u].google # None => users'[u].google # None
                      /\ users[u].verified => users'[u].verified
                      /\ ~users[u].active => ~users'[u].active
  BY <1>1 DEF Keeps
<1>3. users' = [users EXCEPT ![tx[r].user] = Written(r, users[tx[r].user])]
  BY DEF Commit
<1>4. CASE tx[r].user # u
  <2>1. users'[u] = users[u]
    BY <1>3, <1>4 DEF Accounts, IInv, TypeOK
  <2>2. QED
    BY <2>1
<1>5. CASE tx[r].user = u
  <2>1. tx[r].op \in {"relink", "link", "verify"}
    BY <1>1, <1>2, <1>5 DEF Sound, Inserting, Doing, Tx
  <2>2. users'[u] = Written(r, users[u])
    BY <1>3, <1>5 DEF Accounts, IInv, TypeOK
  <2>3. /\ Improves(users[u], users'[u])
        /\ users'[u].google = IF tx[r].op = "verify" THEN users[u].google ELSE tx[r].google
    BY <1>5, <2>1, <2>2, UpdatedFacts
  <2>4. tx[r].op \in {"relink", "link"} => tx[r].google # None
    BY <1>1, ConstantsOK DEF Sound, Doing
  <2>5. QED
    BY <1>5, <2>1, <2>3, <2>4 DEF Improves
<1>6. QED
  BY <1>4, <1>5

LEMMA Step ==
    ASSUME IInv, [Next]_vars
    PROVE  IInv' /\ (Keeps \/ UNCHANGED vars)
<1>1. CASE UNCHANGED vars
  <2>1. Accounts' = Accounts /\ \A e : ByEmail(e)' = ByEmail(e) /\ ByGoogle(e)' = ByGoogle(e)
    BY <1>1 DEF vars, Accounts, ByEmail, ByGoogle
  <2>2. TypeOK' /\ UniqueAccounts' /\ LinkedIsVerified' /\ StaffKeepPassword' /\ StaffVerified'
    BY <1>1, <2>1
       DEF vars, IInv, TypeOK, UniqueAccounts, LinkedIsVerified, StaffKeepPassword, StaffVerified
  <2>3. \A r \in Requests : Sound(r)'
    BY <1>1, <2>1 DEF vars, IInv, Sound, Doing, Inserting
  <2>4. \A r \in Requests : Claims(r)'
    BY <1>1, <2>1 DEF vars, IInv, Claims, SetsGoogle
  <2>5. \A r, s \in Requests : r # s => Apart(r, s)'
    BY <1>1 DEF vars, IInv, Apart, Doing, Inserting, SetsGoogle
  <2>6. QED
    BY <1>1, <2>2, <2>3, <2>4, <2>5 DEF IInv
<1>2. ASSUME NEW r \in Requests, UNCHANGED users PROVE Keeps
  BY <1>2 DEF Keeps
<1>3. ASSUME NEW r \in Requests, Begin(r) PROVE IInv' /\ Keeps
  <2>1. UNCHANGED users
    BY <1>3 DEF Begin, BeginSignup, BeginSeed, BeginSocial, BeginLink, BeginVerify, Goto
  <2>2. QED
    BY <1>2, <1>3, <2>1, BeginIInv
<1>4. ASSUME NEW r \in Requests, Finish(r) PROVE IInv' /\ Keeps
  BY <1>2, <1>4, FinishIInv DEF Finish
<1>5. ASSUME NEW r \in Requests, SocialUnknown(r) \/ LinkChecked(r) PROVE IInv' /\ Keeps
  <2>1. UNCHANGED users
    BY <1>5 DEF SocialUnknown, LinkChecked, Goto
  <2>2. QED
    BY <1>2, <1>5, <2>1, GotoIInv
<1>6. ASSUME NEW r \in Requests, NEW u \in Users, EmailNew(r, u) PROVE IInv' /\ Keeps
  <2>1. UNCHANGED users
    BY <1>6 DEF EmailNew, Goto
  <2>2. QED
    BY <1>2, <1>6, <2>1, EmailNewIInv
<1>7. ASSUME NEW r \in Requests, EmailRelink(r) PROVE IInv' /\ Keeps
  <2>1. UNCHANGED users
    BY <1>7 DEF EmailRelink, Goto
  <2>2. QED
    BY <1>2, <1>7, <2>1, EmailRelinkIInv
<1>8. ASSUME NEW r \in Requests, Write(r) PROVE IInv' /\ Keeps
  <2>1. UNCHANGED users
    BY <1>8 DEF Write, Goto
  <2>2. QED
    BY <1>2, <1>8, <2>1, WriteIInv
<1>9. ASSUME NEW r \in Requests, Commit(r) PROVE IInv' /\ Keeps
  BY <1>9, CommitIInv, CommitKeeps
<1>10. ASSUME NEW u \in Users, Disable(u) PROVE IInv' /\ Keeps
  <2>1. users' = [users EXCEPT ![u] = [users[u] EXCEPT !.active = FALSE]]
    BY <1>10 DEF Disable
  <2>2. ASSUME NEW v \in Accounts
        PROVE  /\ users[v].google # None => users'[v].google # None
               /\ users[v].verified => users'[v].verified
               /\ ~users[v].active => ~users'[v].active
    <3>1. users[v] \in Row /\ v \in Users
      BY DEF Accounts, IInv, TypeOK
    <3>2. CASE v = u
      <4>1. users'[v] = [users[v] EXCEPT !.active = FALSE]
        BY <2>1, <3>1, <3>2 DEF IInv, TypeOK
      <4>2. QED
        BY <3>1, <4>1 DEF Row
    <3>3. CASE v # u
      <4>1. users'[v] = users[v]
        BY <2>1, <3>1, <3>3 DEF IInv, TypeOK
      <4>2. QED
        BY <4>1
    <3>4. QED
      BY <3>2, <3>3
  <2>3. Keeps
    BY <2>2, Zenon DEF Keeps
  <2>4. QED
    BY <1>10, <2>3, DisableIInv
<1>11. ASSUME NEW r \in Requests, Proceed(r) PROVE IInv' /\ Keeps
  BY <1>4, <1>5, <1>6, <1>7, <1>8, <1>9, <1>11
     DEF Proceed, SocialKnown, LinkRefused, LinkRepeated, EmailTaken, WriteFails
<1>12. ASSUME NEW r \in Requests, Abort(r) PROVE IInv' /\ Keeps
  BY <1>4, <1>12 DEF Abort
<1>13. QED
  BY <1>1, <1>3, <1>10, <1>11, <1>12 DEF Next

LEMMA Invariant == Spec => []IInv
<1>1. IInv /\ [Next]_vars => IInv'
  BY Step
<1>2. QED
  BY InitIInv, <1>1, PTL DEF Spec

(* Every value a handler of Accounts commits is one the columns can hold.  *)
THEOREM TypeCorrect == Spec => []TypeOK
<1>1. IInv => TypeOK
  BY DEF IInv
<1>2. QED
  BY Invariant, <1>1, PTL

(* However signups, social logins, links and starting processes race, no   *)
(* two accounts share an address or a Google account.                      *)
THEOREM AccountsAreUnique == Spec => []UniqueAccounts
<1>1. IInv => UniqueAccounts
  BY DEF IInv
<1>2. QED
  BY Invariant, <1>1, PTL

(* A Google link always comes with a verified address.                     *)
THEOREM LinksAreVerified == Spec => []LinkedIsVerified
<1>1. IInv => LinkedIsVerified
  BY DEF IInv
<1>2. QED
  BY Invariant, <1>1, PTL

(* No Google login costs the super admin its password.                     *)
THEOREM PasswordsOfStaffStay == Spec => []StaffKeepPassword
<1>1. IInv => StaffKeepPassword
  BY DEF IInv
<1>2. QED
  BY Invariant, <1>1, PTL

(* A handler that writes long after it loaded its account takes back no    *)
(* verification and no disabling, and does not drop a Google link.         *)
THEOREM NothingCommittedIsUndone == Spec => NothingUndone
<1>1. IInv /\ [Next]_vars => [Keeps]_vars
  BY Step
<1>2. QED
  BY Invariant, <1>1, PTL DEF Spec, NothingUndone, Keeps
=============================================================================
